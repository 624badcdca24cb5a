----------------------- MODULE Subscriptions_complete -----------------------
(***************************************************************************)
(* A live subscriber misses nothing of what is broadcast, with any number  *)
(* of subscribers, any capacity of their channels and any history.         *)
(***************************************************************************)
EXTENDS Subscriptions, SequenceTheorems, TLAPS

WorkerBusy == IF producer["worker"].pc = "blocked" THEN 1 ELSE 0
ResyncBusy == IF producer["resync"].pc = "blocked" THEN 1 ELSE 0

\* Every message in the log was read by the worker, once for each version it
\* got to know, or by the resync handler, once for each request.
LogCounted == Len(log) + WorkerBusy + ResyncBusy <= producer["worker"].known + resyncs

\* A subscription starts within the log, and before the message that the
\* broadcaster is handing to it; before it is registered it has got nothing.
Placed(s) ==
  /\ sub[s].from <= Len(log)
  /\ s \in broadcaster => sub[s].from < Len(log)
  /\ sub[s].pc = "new" => sub[s].ch = <<>> /\ sub[s].got = <<>>

Run(from, upTo) == [k \in 1..(upTo - from) |-> from + k]

UpTo(s) == IF s \in broadcaster THEN Len(log) - 1 ELSE Len(log)

Live(s) == sub[s].pc = "registered" /\ sub[s].ctx = "alive"

Complete(s) == Live(s) => sub[s].got \o sub[s].ch = Run(sub[s].from, UpTo(s))

IInv == TypeOK /\ LogCounted /\ \A s \in Subscribers : Placed(s) /\ Complete(s)

-----------------------------------------------------------------------------
\* Runs of positions: the empty one, and one longer by its next position.
LEMMA RunFacts ==
  ASSUME NEW a \in Nat
  PROVE  /\ Run(a, a) = <<>>
         /\ \A b \in Nat : a <= b => Run(a, b) \in Seq(Nat) /\ Append(Run(a, b), b + 1) = Run(a, b + 1)
<1>1. ASSUME NEW b \in Nat, a <= b
      PROVE  Run(a, b) \in Seq(Nat) /\ Len(Run(a, b)) = b - a /\ \A k \in 1..(b - a) : Run(a, b)[k] = a + k
  <2>1. b - a \in Nat /\ \A k \in 1..(b - a) : a + k \in Nat
    BY <1>1
  <2>2. Run(a, b) \in Seq(Nat)
    BY <2>1, IsASeq DEF Run
  <2> QED
    BY <2>1, <2>2 DEF Run
<1>2. Run(a, a) = <<>>
  BY <1>1, EmptySeq
<1>3. ASSUME NEW b \in Nat, a <= b PROVE Append(Run(a, b), b + 1) = Run(a, b + 1)
  <2> DEFINE r == Run(a, b)
             q == Run(a, b + 1)
  <2>1. /\ r \in Seq(Nat) /\ Len(r) = b - a /\ \A k \in 1..(b - a) : r[k] = a + k
        /\ q \in Seq(Nat) /\ Len(q) = b + 1 - a /\ \A k \in 1..(b + 1 - a) : q[k] = a + k
    BY <1>1, <1>3
  <2> HIDE DEF r, q
  <2>2. /\ Append(r, b + 1) \in Seq(Nat) /\ Len(Append(r, b + 1)) = Len(r) + 1
        /\ \A k \in 1..Len(r) : Append(r, b + 1)[k] = r[k]
        /\ Append(r, b + 1)[Len(r) + 1] = b + 1
    BY <2>1, AppendProperties
  <2>3. \A k \in 1..Len(q) : Append(r, b + 1)[k] = q[k]
    <3> SUFFICES ASSUME NEW k \in 1..Len(q) PROVE Append(r, b + 1)[k] = q[k]
      BY ZenonT(30)
    <3>1. CASE k = Len(r) + 1
      BY <1>3, <2>1, <2>2, <3>1
    <3>2. CASE k # Len(r) + 1
      BY <1>3, <2>1, <2>2, <3>2
    <3> QED
      BY ZenonT(30), <3>1, <3>2
  <2>4. Len(Append(r, b + 1)) = Len(q)
    BY <1>3, <2>1, <2>2
  <2>5. Append(r, b + 1) = q
    BY ZenonT(30), <2>1, <2>2, <2>3, <2>4, SeqEqual
  <2> QED
    BY <2>5 DEF r, q
<1> QED
  BY ZenonT(30), <1>1, <1>2, <1>3

\* What the handler appends to the channel comes after all that the subscriber
\* has, and what the sender moves keeps its place.
LEMMA Queueing ==
  ASSUME NEW S, NEW got \in Seq(S), NEW ch \in Seq(S)
  PROVE  /\ \A x \in S : got \o Append(ch, x) = Append(got \o ch, x)
         /\ ch # <<>> => Append(got, Head(ch)) \o Tail(ch) = got \o ch
<1>1. ASSUME NEW x \in S PROVE got \o Append(ch, x) = Append(got \o ch, x)
  <2>1. Append(ch, x) = ch \o <<x>> /\ <<x>> \in Seq(S) /\ got \o ch \in Seq(S)
    BY AppendIsConcat, ConcatProperties
  <2>2. Append(got \o ch, x) = (got \o ch) \o <<x>>
    BY <2>1, AppendIsConcat
  <2> QED
    BY <2>1, <2>2, ConcatAssociative
<1>2. ASSUME ch # <<>> PROVE Append(got, Head(ch)) \o Tail(ch) = got \o ch
  <2>1. Head(ch) \in S /\ Tail(ch) \in Seq(S) /\ <<Head(ch)>> \in Seq(S)
    BY <1>2, HeadTailProperties
  <2>2. Append(got, Head(ch)) = got \o <<Head(ch)>>
    BY <2>1, AppendIsConcat
  <2>3. <<Head(ch)>> \o Tail(ch) = ch
    <3>1. Len(ch) \in Nat \ {0} /\ Len(Tail(ch)) = Len(ch) - 1 /\ \A i \in 1..Len(Tail(ch)) : Tail(ch)[i] = ch[i + 1]
      BY <1>2, EmptySeq, HeadTailProperties
    <3>2. /\ <<Head(ch)>> \o Tail(ch) \in Seq(S) /\ Len(<<Head(ch)>> \o Tail(ch)) = 1 + Len(Tail(ch))
          /\ \A i \in 1..(1 + Len(Tail(ch))) : (<<Head(ch)>> \o Tail(ch))[i] = IF i <= 1 THEN <<Head(ch)>>[i] ELSE Tail(ch)[i - 1]
      BY <2>1, ConcatProperties
    <3>3. <<Head(ch)>>[1] = ch[1]
      BY <1>2
    <3>4. \A i \in 1..Len(ch) : (<<Head(ch)>> \o Tail(ch))[i] = ch[i]
      BY <3>1, <3>2, <3>3
    <3>5. Len(<<Head(ch)>> \o Tail(ch)) = Len(ch)
      BY <3>1, <3>2
    <3> QED
      BY <3>2, <3>4, <3>5, SeqEqual
  <2> QED
    BY <2>1, <2>2, <2>3, ConcatAssociative
<1> QED
  BY ZenonT(30), <1>1, <1>2

-----------------------------------------------------------------------------
LEMMA Fields ==
  ASSUME IInv
  PROVE  /\ \A s \in Subscribers :
              /\ sub[s] \in Subscription
              /\ sub[s].pc \in {"new", "registered", "gone"} /\ sub[s].ctx \in {"alive", "done"}
              /\ sub[s].beats \in 0..BeatSize /\ sub[s].from \in Nat /\ sub[s].from \in Positions \union {0}
              /\ sub[s].ch \in Seq(Positions) /\ sub[s].got \in Seq(Positions)
              /\ Len(sub[s].ch) <= ChannelSize /\ Len(sub[s].ch) \in Nat
              /\ Placed(s) /\ Complete(s)
         /\ Len(log) \in Nat /\ log \in Seq(Versions)
         /\ broadcaster # {} => Len(log) > 0
         /\ ChannelSize \in Nat \ {0} /\ BeatSize \in Nat /\ MaxVersion \in Nat /\ MaxResyncs \in Nat
         /\ Positions \subseteq Nat
<1>1. /\ sub \in [Subscribers -> Subscription] /\ log \in Seq(Versions) /\ broadcaster \subseteq Subscribers
      /\ \A s \in Subscribers : Len(sub[s].ch) <= ChannelSize /\ Placed(s) /\ Complete(s)
  BY DEF IInv, TypeOK
<1>2. Positions \subseteq Nat /\ Len(log) \in Nat
  BY <1>1, BoundsAssumption, LenProperties DEF Positions
<1>3. \A s \in Subscribers : sub[s] \in Subscription
  BY <1>1
<1>4. \A s \in Subscribers :
        /\ sub[s].pc \in {"new", "registered", "gone"} /\ sub[s].ctx \in {"alive", "done"}
        /\ sub[s].beats \in 0..BeatSize /\ sub[s].from \in Positions \union {0}
        /\ sub[s].ch \in Seq(Positions) /\ sub[s].got \in Seq(Positions)
  BY <1>3 DEF Subscription
<1>5. \A s \in Subscribers : sub[s].from \in Nat /\ Len(sub[s].ch) \in Nat
  <2>1. \A s \in Subscribers : Len(sub[s].ch) \in Nat
    BY <1>4, LenProperties
  <2>2. \A s \in Subscribers : sub[s].from \in Nat
    <3>1. Positions \union {0} \subseteq Nat
      BY BoundsAssumption DEF Positions
    <3>2. \A s \in Subscribers : sub[s].from \in Positions \union {0}
      BY <1>4
    <3> HIDE DEF Positions
    <3> QED
      BY ONLY <3>1, <3>2
  <2> QED
    BY <2>1, <2>2
<1>6. broadcaster # {} => Len(log) > 0
  BY <1>1, <1>2, <1>5 DEF Placed
<1> QED
  BY <1>1, <1>2, <1>3, <1>4, <1>5, <1>6, BoundsAssumption

\* The log has room for every message that a producer has read.
LEMMA LogFits ==
  ASSUME IInv
  PROVE  /\ Len(log) \in 0..(MaxVersion + MaxResyncs)
         /\ \A p \in Producers : producer[p].pc = "blocked" => Len(log) + 1 <= MaxVersion + MaxResyncs
<1>1. /\ producer \in [Producers -> Producer] /\ resyncs \in 0..MaxResyncs /\ LogCounted
      /\ "worker" \in Producers /\ "resync" \in Producers
  BY DEF IInv, TypeOK, Producers
<1>2. producer["worker"].known \in 0..MaxVersion
  BY <1>1 DEF Producer, Versions
<1>3. Len(log) \in Nat /\ MaxVersion \in Nat /\ MaxResyncs \in Nat
  BY Fields
<1>4. Len(log) + WorkerBusy + ResyncBusy <= MaxVersion + MaxResyncs
  <2>1. WorkerBusy \in {0, 1} /\ ResyncBusy \in {0, 1}
    BY DEF WorkerBusy, ResyncBusy
  <2> QED
    BY <1>1, <1>2, <1>3, <2>1 DEF LogCounted
<1>5. WorkerBusy \in {0, 1} /\ ResyncBusy \in {0, 1}
  BY DEF WorkerBusy, ResyncBusy
<1>6. Len(log) <= MaxVersion + MaxResyncs
  BY <1>3, <1>4, <1>5
<1>7. \A p \in Producers : producer[p].pc = "blocked" => WorkerBusy = 1 \/ ResyncBusy = 1
  BY DEF WorkerBusy, ResyncBusy, Producers
<1>8. WorkerBusy = 1 \/ ResyncBusy = 1 => Len(log) + 1 <= MaxVersion + MaxResyncs
  BY <1>3, <1>4, <1>5
<1> QED
  BY <1>3, <1>6, <1>7, <1>8

\* A step of one subscription.
LEMMA OneSubscription ==
  ASSUME IInv, NEW s \in Subscribers,
         sub' = [sub EXCEPT ![s] = sub'[s]],
         UNCHANGED <<stored, producer, resyncs, log, stalled>>,
         broadcaster' \in {broadcaster, broadcaster \ {s}},
         sub'[s] \in Subscription, Len(sub'[s].ch) <= ChannelSize,
         s \in broadcaster' => sub'[s].pc = "registered",
         Placed(s)', Complete(s)'
  PROVE  IInv'
<1>1. sub' \in [Subscribers -> Subscription] /\ \A r \in Subscribers \ {s} : sub'[r] = sub[r]
  BY DEF IInv, TypeOK
<1>2. \A r \in Subscribers \ {s} : r \in broadcaster' <=> r \in broadcaster
  OBVIOUS
<1>3. TypeOK'
  BY <1>1, <1>2 DEF IInv, TypeOK
<1>4. LogCounted'
  BY ZenonT(30) DEF IInv, LogCounted, WorkerBusy, ResyncBusy
<1>5. ASSUME NEW r \in Subscribers \ {s} PROVE Placed(r)' /\ Complete(r)'
  BY <1>1, <1>2, ZenonT(30) DEF IInv, Placed, Complete, Live, UpTo
<1> QED
  BY <1>3, <1>4, <1>5 DEF IInv

\* A step that leaves the log, the broadcaster and the subscriptions alone.
LEMMA NoSubscription ==
  ASSUME IInv, UNCHANGED <<log, broadcaster, sub>>, stored' \in Versions,
         producer' \in [Producers -> Producer], resyncs' \in 0..MaxResyncs,
         stalled' \subseteq Subscribers, LogCounted'
  PROVE  IInv'
<1>1. TypeOK'
  BY DEF IInv, TypeOK
<1>2. \A s \in Subscribers : Placed(s)' /\ Complete(s)'
  BY ZenonT(30) DEF IInv, Placed, Complete, Live, UpTo
<1> QED
  BY <1>1, <1>2 DEF IInv

-----------------------------------------------------------------------------
LEMMA InitIInv == Init => IInv
<1> SUFFICES ASSUME Init PROVE IInv
  OBVIOUS
<1>0. /\ 0 \in Versions /\ 0 \in 0..MaxResyncs /\ 0 \in 0..BeatSize /\ ChannelSize \in Nat
      /\ <<>> \in Seq(Versions) /\ <<>> \in Seq(Positions) /\ Len(<<>>) = 0
  BY BoundsAssumption, EmptySeq DEF Versions
<1>1. \A s \in Subscribers : sub[s] = [pc |-> "new", ctx |-> "alive", beats |-> 0,
                                       from |-> 0, ch |-> <<>>, got |-> <<>>]
  BY DEF Init
<1>2. sub \in [Subscribers -> Subscription]
  BY <1>0 DEF Init, Subscription
<1>3. producer \in [Producers -> Producer]
  BY <1>0 DEF Init, Producer
<1>4. TypeOK
  BY <1>0, <1>1, <1>2, <1>3 DEF Init, TypeOK
<1>5. LogCounted
  BY <1>0 DEF Init, LogCounted, WorkerBusy, ResyncBusy, Producers
<1>6. \A s \in Subscribers : Placed(s) /\ Complete(s)
  BY <1>0, <1>1 DEF Init, Placed, Complete, Live
<1> QED
  BY <1>4, <1>5, <1>6 DEF IInv

LEMMA StepProducers ==
  ASSUME IInv, StatusChanges \/ WorkerReads \/ ResyncReads
  PROVE  IInv'
<1>0. /\ stored \in Versions /\ producer \in [Producers -> Producer] /\ resyncs \in 0..MaxResyncs
      /\ stalled \subseteq Subscribers /\ LogCounted /\ Len(log) \in Nat
      /\ MaxVersion \in Nat /\ MaxResyncs \in Nat
      /\ "worker" \in Producers /\ "resync" \in Producers
  BY Fields DEF IInv, TypeOK, Producers
<1>1. producer["worker"].known \in Nat
  BY <1>0 DEF Producer, Versions
<1>b. WorkerBusy \in {0, 1} /\ ResyncBusy \in {0, 1}
  BY DEF WorkerBusy, ResyncBusy
<1>2. CASE StatusChanges
  <2>1. stored' \in Versions
    BY <1>0, <1>2 DEF StatusChanges, Versions
  <2>2. LogCounted'
    BY <1>0, <1>2, ZenonT(30) DEF StatusChanges, LogCounted, WorkerBusy, ResyncBusy
  <2> QED
    BY <1>0, <1>2, <2>1, <2>2, NoSubscription DEF StatusChanges
<1>3. CASE WorkerReads
  <2>1. producer' \in [Producers -> Producer]
    BY <1>0, <1>3 DEF WorkerReads, Producer
  <2>2. /\ WorkerBusy = 0 /\ WorkerBusy' = 1 /\ ResyncBusy' = ResyncBusy
        /\ producer'["worker"].known = stored /\ producer["worker"].known < stored
        /\ UNCHANGED <<log, resyncs>>
    BY <1>0, <1>3 DEF WorkerReads, WorkerBusy, ResyncBusy
  <2>3. LogCounted'
    BY <1>0, <1>1, <1>b, <2>2 DEF LogCounted, Versions
  <2> QED
    BY <1>0, <1>3, <2>1, <2>3, NoSubscription DEF WorkerReads
<1>4. CASE ResyncReads
  <2>1. producer' \in [Producers -> Producer] /\ resyncs' \in 0..MaxResyncs
    <3>1. [producer["resync"] EXCEPT !.pc = "blocked", !.version = stored] \in Producer
      BY <1>0, ZenonT(30) DEF Producer
    <3> QED
      BY <1>0, <1>4, <3>1 DEF ResyncReads
  <2>2. /\ ResyncBusy = 0 /\ ResyncBusy' = 1 /\ WorkerBusy' = WorkerBusy
        /\ producer'["worker"].known = producer["worker"].known
        /\ resyncs' = resyncs + 1 /\ UNCHANGED log
    BY <1>0, <1>4 DEF ResyncReads, WorkerBusy, ResyncBusy, Producer
  <2>3. LogCounted'
    BY <1>0, <1>1, <1>b, <2>2 DEF LogCounted
  <2> QED
    BY <1>0, <1>4, <2>1, <2>3, NoSubscription DEF ResyncReads
<1> QED
  BY <1>2, <1>3, <1>4

LEMMA StepBroadcast ==
  ASSUME IInv, NEW p \in Producers, Broadcast(p)
  PROVE  IInv'
<1>0. /\ producer \in [Producers -> Producer] /\ producer[p] \in Producer /\ producer[p].version \in Versions
      /\ sub \in [Subscribers -> Subscription]
      /\ "worker" \in Producers /\ "resync" \in Producers /\ p \in {"worker", "resync"}
  BY DEF IInv, TypeOK, Producers, Producer
<1>1. /\ broadcaster = {} /\ producer[p].pc = "blocked"
      /\ log' = Append(log, producer[p].version)
      /\ broadcaster' = {s \in Subscribers : sub[s].pc = "registered"}
      /\ producer' = [producer EXCEPT ![p].pc = "idle"]
      /\ UNCHANGED <<stored, resyncs, sub, stalled>>
  BY DEF Broadcast
<1>2. log' \in Seq(Versions) /\ Len(log') = Len(log) + 1 /\ Len(log) \in Nat
  BY <1>0, <1>1, Fields, AppendProperties
<1>3. producer' \in [Producers -> Producer]
  <2>1. [producer[p] EXCEPT !.pc = "idle"] \in Producer
    BY <1>0 DEF Producer
  <2> QED
    BY <1>0, <1>1, <2>1
<1>4. TypeOK'
  BY <1>1, <1>2, <1>3 DEF IInv, TypeOK
<1>5. LogCounted'
  <2>1. /\ WorkerBusy \in {0, 1} /\ ResyncBusy \in {0, 1}
        /\ producer["worker"].known \in Nat /\ producer'["worker"].known = producer["worker"].known
    BY <1>0, <1>1, BoundsAssumption DEF WorkerBusy, ResyncBusy, Producer, Versions
  <2>2. CASE p = "worker"
    <3>1. WorkerBusy = 1 /\ WorkerBusy' = 0 /\ ResyncBusy' = ResyncBusy
      BY <1>0, <1>1, <2>2 DEF WorkerBusy, ResyncBusy
    <3> QED
      BY <1>1, <1>2, <2>1, <3>1 DEF IInv, TypeOK, LogCounted
  <2>3. CASE p = "resync"
    <3>1. ResyncBusy = 1 /\ ResyncBusy' = 0 /\ WorkerBusy' = WorkerBusy
      BY <1>0, <1>1, <2>3 DEF WorkerBusy, ResyncBusy
    <3> QED
      BY <1>1, <1>2, <2>1, <3>1 DEF IInv, TypeOK, LogCounted
  <2> QED
    BY <1>0, <2>2, <2>3
<1>6. ASSUME NEW s \in Subscribers PROVE Placed(s)' /\ Complete(s)'
  <2>1. Placed(s) /\ Complete(s) /\ sub'[s] = sub[s] /\ sub[s].from \in Nat /\ s \notin broadcaster
    BY <1>1, Fields
  <2>2. Placed(s)'
    BY <1>2, <2>1 DEF Placed
  <2>3. Live(s)' => s \in broadcaster' /\ UpTo(s) = Len(log) /\ UpTo(s)' = Len(log)
    BY <1>1, <1>2, <2>1 DEF Live, UpTo
  <2> QED
    BY <2>1, <2>2, <2>3, ZenonT(30) DEF Complete, Live
<1> QED
  BY <1>4, <1>5, <1>6 DEF IInv

\* The subscription steps that move no message.
LEMMA StepQuiet ==
  ASSUME IInv, NEW s \in Subscribers,
         Register(s) \/ Beat(s) \/ SendBeat(s) \/ Leave(s) \/ Unregister(s)
  PROVE  IInv'
<1>0. /\ sub \in [Subscribers -> Subscription] /\ sub[s] \in Subscription
      /\ sub[s].beats \in 0..BeatSize /\ BeatSize \in Nat /\ sub[s].from \in Nat
      /\ sub[s].ch \in Seq(Positions) /\ sub[s].got \in Seq(Positions)
      /\ Len(sub[s].ch) <= ChannelSize /\ Len(log) \in Nat
      /\ Placed(s) /\ Complete(s)
  BY Fields DEF IInv, TypeOK
<1>1. s \in broadcaster => sub[s].pc = "registered"
  BY DEF IInv, TypeOK
<1>2. CASE Register(s)
  <2> DEFINE new == [sub[s] EXCEPT !.pc = "registered", !.from = Len(log)]
  <2>1. Len(log) \in Positions \union {0}
    BY LogFits, BoundsAssumption DEF Positions
  <2>2. new \in Subscription /\ new.from = Len(log) /\ new.ch = sub[s].ch /\ new.got = sub[s].got
    BY <1>0, <2>1, ZenonT(30) DEF Subscription
  <2>3. sub' = [sub EXCEPT ![s] = new] /\ sub[s].pc = "new" /\ broadcaster = {}
    BY <1>2, ZenonT(30) DEF Register
  <2> HIDE DEF new
  <2>4. sub'[s] = new /\ sub' = [sub EXCEPT ![s] = sub'[s]]
    BY <1>0, <2>3
  <2>5. UNCHANGED <<stored, producer, resyncs, log, broadcaster, stalled>>
    BY <1>2 DEF Register
  <2>6. sub[s].ch = <<>> /\ sub[s].got = <<>>
    BY <1>0, <2>3 DEF Placed
  <2>7. Placed(s)'
    BY <1>0, <2>2, <2>3, <2>4, <2>5, <2>6 DEF Placed
  <2>8. Complete(s)'
    <3>1. UpTo(s)' = Len(log) /\ sub'[s].from = Len(log)
      BY <2>2, <2>3, <2>4, <2>5 DEF UpTo
    <3>2. sub'[s].got \o sub'[s].ch = <<>>
      BY <2>2, <2>4, <2>6, EmptySeq, ConcatEmptySeq
    <3> QED
      BY <1>0, <3>1, <3>2, RunFacts DEF Complete
  <2> QED
    BY ZenonT(30), <1>0, <2>2, <2>3, <2>4, <2>5, <2>7, <2>8, OneSubscription
<1>3. ASSUME NEW new \in Subscription, sub' = [sub EXCEPT ![s] = new],
             UNCHANGED <<stored, producer, resyncs, log, broadcaster, stalled>>,
             new.ch = sub[s].ch, new.got = sub[s].got, new.from = sub[s].from,
             new.pc \in {sub[s].pc, "gone"}, new.ctx \in {sub[s].ctx, "done"},
             s \in broadcaster => new.pc = "registered"
      PROVE  IInv'
  <2>1. sub'[s] = new /\ sub' = [sub EXCEPT ![s] = sub'[s]]
    BY <1>0, <1>3
  <2>2. Placed(s)'
    BY <1>0, <1>3, <2>1 DEF Placed
  <2>3. Live(s)' => Live(s) /\ UpTo(s)' = UpTo(s)
    BY <1>3, <2>1 DEF Live, UpTo
  <2>4. Complete(s)'
    BY <1>0, <1>3, <2>1, <2>3, ZenonT(30) DEF Complete
  <2> QED
    BY ZenonT(30), <1>0, <1>3, <2>1, <2>2, <2>4, OneSubscription
<1>4. CASE Beat(s) \/ SendBeat(s)
  <2>1. PICK n \in 0..BeatSize : sub' = [sub EXCEPT ![s] = [sub[s] EXCEPT !.beats = n]]
    <3>1. CASE Beat(s)
      <4>1. sub[s].beats + 1 \in 0..BeatSize /\ sub' = [sub EXCEPT ![s] = [sub[s] EXCEPT !.beats = sub[s].beats + 1]]
        BY <1>0, <3>1 DEF Beat
      <4> QED
        BY ZenonT(30), <4>1
    <3>2. CASE SendBeat(s)
      <4>1. sub[s].beats - 1 \in 0..BeatSize /\ sub' = [sub EXCEPT ![s] = [sub[s] EXCEPT !.beats = sub[s].beats - 1]]
        BY <1>0, <3>2 DEF SendBeat
      <4> QED
        BY ZenonT(30), <4>1
    <3> QED
      BY <1>4, <3>1, <3>2
  <2>2. [sub[s] EXCEPT !.beats = n] \in Subscription
    BY <1>0, ZenonT(30) DEF Subscription
  <2>3. UNCHANGED <<stored, producer, resyncs, log, broadcaster, stalled>>
    BY <1>4 DEF Beat, SendBeat
  <2> QED
    BY <1>1, <1>3, <2>1, <2>2, <2>3, ZenonT(30) DEF Subscription
<1>5. CASE Leave(s)
  <2>1. [sub[s] EXCEPT !.ctx = "done"] \in Subscription
    BY <1>0, ZenonT(30) DEF Subscription
  <2> QED
    BY <1>1, <1>3, <1>5, <2>1, ZenonT(30) DEF Leave, Subscription
<1>6. CASE Unregister(s)
  <2>1. [sub[s] EXCEPT !.pc = "gone"] \in Subscription
    BY <1>0, ZenonT(30) DEF Subscription
  <2> QED
    BY <1>3, <1>6, <2>1, ZenonT(30) DEF Unregister, Subscription
<1> QED
  BY <1>2, <1>4, <1>5, <1>6

\* The subscription steps that move a message. The channel and the stream of the
\* subscriber are taken as one queue.
LEMMA StepMessage ==
  ASSUME IInv, NEW s \in Subscribers, Handler(s) \/ Send(s) \/ SendFails(s)
  PROVE  IInv'
<1>0. /\ sub \in [Subscribers -> Subscription] /\ sub[s] \in Subscription
      /\ sub[s].beats \in 0..BeatSize /\ BeatSize \in Nat /\ sub[s].from \in Nat
      /\ sub[s].ch \in Seq(Positions) /\ sub[s].got \in Seq(Positions)
      /\ Len(sub[s].ch) \in Nat /\ ChannelSize \in Nat
      /\ Len(sub[s].ch) <= ChannelSize /\ Len(log) \in Nat
      /\ Placed(s) /\ Complete(s)
  BY Fields DEF IInv, TypeOK
<1>1. s \in broadcaster => sub[s].pc = "registered" /\ Len(log) \in Positions
  <2>1. s \in broadcaster => Len(log) > 0
    BY Fields
  <2> QED
    BY <1>0, <2>1, LogFits DEF IInv, TypeOK, Positions
<1>2. ASSUME Handler(s), sub' # sub PROVE IInv'
  <2> DEFINE new == [sub[s] EXCEPT !.ch = Append(sub[s].ch, Len(log))]
  <2>1. /\ s \in broadcaster /\ Len(sub[s].ch) < ChannelSize /\ sub' = [sub EXCEPT ![s] = new]
        /\ broadcaster' = broadcaster \ {s} /\ UNCHANGED <<stored, producer, resyncs, log, stalled>>
    BY <1>2 DEF Handler
  <2>2. Append(sub[s].ch, Len(log)) \in Seq(Positions) /\ Len(Append(sub[s].ch, Len(log))) = Len(sub[s].ch) + 1
    BY <1>0, <1>1, <2>1, AppendProperties
  <2>3. /\ new \in Subscription /\ new.ch = Append(sub[s].ch, Len(log)) /\ new.got = sub[s].got
        /\ new.from = sub[s].from /\ new.pc = sub[s].pc /\ new.ctx = sub[s].ctx
    BY <1>0, <2>2, ZenonT(30) DEF Subscription
  <2> HIDE DEF new
  <2>4. sub'[s] = new /\ sub' = [sub EXCEPT ![s] = sub'[s]]
    BY <1>0, <2>1
  <2>5. Placed(s)'
    BY <1>0, <1>1, <2>1, <2>3, <2>4 DEF Placed
  <2>6. Complete(s)'
    <3> SUFFICES ASSUME Live(s)' PROVE new.got \o new.ch = Run(new.from, Len(log))
      BY <2>1, <2>4, ZenonT(30) DEF Complete, UpTo
    <3>1. sub[s].got \o sub[s].ch = Run(sub[s].from, Len(log) - 1)
      BY <1>0, <2>1, <2>3, <2>4, ZenonT(30) DEF Complete, Live, UpTo
    <3>2. new.got \o new.ch = Append(Run(sub[s].from, Len(log) - 1), Len(log))
      <4>1. \A x \in Positions : sub[s].got \o Append(sub[s].ch, x) = Append(sub[s].got \o sub[s].ch, x)
        BY <1>0, Queueing, Zenon
      <4>2. sub[s].got \o Append(sub[s].ch, Len(log)) = Append(sub[s].got \o sub[s].ch, Len(log))
        BY <1>1, <2>1, <4>1, Zenon
      <4> QED
        BY <2>3, <3>1, <4>2, Zenon
    <3>3. Len(log) - 1 \in Nat /\ sub[s].from <= Len(log) - 1 /\ Len(log) - 1 + 1 = Len(log)
      BY <1>0, <2>1 DEF Placed
    <3> QED
      BY ZenonT(30), <1>0, <2>3, <3>2, <3>3, RunFacts
  <2>7. Len(sub'[s].ch) <= ChannelSize
    BY <1>0, <2>1, <2>2, <2>3, <2>4
  <2> QED
    BY ZenonT(30), <2>1, <2>3, <2>4, <2>5, <2>6, <2>7, OneSubscription
<1>3. ASSUME Handler(s), sub' = sub PROVE IInv'
  <2>1. /\ s \in broadcaster /\ broadcaster' = broadcaster \ {s}
        /\ UNCHANGED <<stored, producer, resyncs, log, stalled>>
    BY <1>3 DEF Handler
  <2>2. sub[s].ctx = "done"
    <3> SUFFICES ASSUME Len(sub[s].ch) < ChannelSize, sub' = [sub EXCEPT ![s].ch = Append(@, Len(log))]
                 PROVE  FALSE
      BY <1>3 DEF Handler
    <3>1. sub[s].ch = Append(sub[s].ch, Len(log))
      BY <1>0, <1>3 DEF Subscription
    <3> QED
      BY <1>0, <1>1, <2>1, <3>1, AppendProperties
  <2>3. sub' = [sub EXCEPT ![s] = sub'[s]] /\ sub'[s] = sub[s]
    BY <1>0, <1>3
  <2>4. Placed(s)' /\ Complete(s)'
    BY <1>0, <2>1, <2>2, <2>3, ZenonT(30) DEF Placed, Complete, Live
  <2> QED
    BY <1>0, <2>1, <2>3, <2>4, OneSubscription
<1>4. CASE Send(s)
  <2> DEFINE new == [sub[s] EXCEPT !.got = Append(sub[s].got, Head(sub[s].ch)), !.ch = Tail(sub[s].ch)]
  <2>1. /\ sub[s].ch # <<>> /\ sub' = [sub EXCEPT ![s] = new] /\ sub[s].pc # "gone"
        /\ UNCHANGED <<stored, producer, resyncs, log, broadcaster, stalled>>
    BY <1>4, ZenonT(30) DEF Send
  <2>2. /\ Head(sub[s].ch) \in Positions /\ Tail(sub[s].ch) \in Seq(Positions)
        /\ Len(Tail(sub[s].ch)) = Len(sub[s].ch) - 1
        /\ Append(sub[s].got, Head(sub[s].ch)) \in Seq(Positions)
    BY <1>0, <2>1, HeadTailProperties, AppendProperties
  <2>3. /\ new \in Subscription /\ new.ch = Tail(sub[s].ch) /\ new.got = Append(sub[s].got, Head(sub[s].ch))
        /\ new.from = sub[s].from /\ new.pc = sub[s].pc /\ new.ctx = sub[s].ctx
    BY <1>0, <2>2, ZenonT(30) DEF Subscription
  <2> HIDE DEF new
  <2>4. sub'[s] = new /\ sub' = [sub EXCEPT ![s] = sub'[s]]
    BY <1>0, <2>1
  <2>5. Placed(s)'
    BY <1>0, <2>1, <2>3, <2>4 DEF Placed
  <2>6. new.got \o new.ch = sub[s].got \o sub[s].ch
    <3>1. Append(sub[s].got, Head(sub[s].ch)) \o Tail(sub[s].ch) = sub[s].got \o sub[s].ch
      BY <1>0, <2>1, Queueing, Zenon
    <3> QED
      BY <2>3, <3>1, Zenon
  <2>7. Complete(s)'
    BY <1>0, <2>1, <2>3, <2>4, <2>6, ZenonT(30) DEF Complete, Live, UpTo
  <2>8. Len(sub'[s].ch) <= ChannelSize
    <3>1. Len(sub'[s].ch) = Len(sub[s].ch) - 1
      BY ZenonT(30), <2>2, <2>3, <2>4
    <3> QED
      BY <1>0, <3>1
  <2> QED
    BY ZenonT(30), <1>1, <2>1, <2>3, <2>4, <2>5, <2>7, <2>8, OneSubscription
<1>5. CASE SendFails(s)
  <2>1. /\ sub[s].pc = "registered" /\ UNCHANGED <<stored, producer, resyncs, log, broadcaster, stalled>>
        /\ \/ /\ sub[s].ch # <<>>
              /\ sub' = [sub EXCEPT ![s] = [sub[s] EXCEPT !.ctx = "done", !.ch = Tail(sub[s].ch)]]
           \/ /\ sub[s].beats > 0
              /\ sub' = [sub EXCEPT ![s] = [sub[s] EXCEPT !.ctx = "done", !.beats = sub[s].beats - 1]]
    BY <1>5, ZenonT(30) DEF SendFails
  <2>2. sub[s].ch # <<>> => Tail(sub[s].ch) \in Seq(Positions) /\ Len(Tail(sub[s].ch)) = Len(sub[s].ch) - 1
    BY <1>0, HeadTailProperties
  <2>3. PICK new \in Subscription :
          /\ sub' = [sub EXCEPT ![s] = new] /\ Len(new.ch) <= ChannelSize
          /\ new.from = sub[s].from /\ new.pc = sub[s].pc /\ new.ctx = "done"
    <3>1. CASE /\ sub[s].ch # <<>>
               /\ sub' = [sub EXCEPT ![s] = [sub[s] EXCEPT !.ctx = "done", !.ch = Tail(sub[s].ch)]]
      <4> DEFINE new == [sub[s] EXCEPT !.ctx = "done", !.ch = Tail(sub[s].ch)]
      <4>1. new \in Subscription /\ new.from = sub[s].from /\ new.pc = sub[s].pc /\ new.ctx = "done"
        BY <1>0, <2>2, <3>1, ZenonT(30) DEF Subscription
      <4>2. Len(new.ch) = Len(sub[s].ch) - 1
        BY <1>0, <2>2, <3>1 DEF Subscription
      <4>3. Len(new.ch) <= ChannelSize
        BY <1>0, <4>2
      <4> HIDE DEF new
      <4>4. sub' = [sub EXCEPT ![s] = new]
        BY <3>1 DEF new
      <4> QED
        BY ZenonT(30), <4>1, <4>3, <4>4
    <3>2. CASE /\ sub[s].beats > 0
               /\ sub' = [sub EXCEPT ![s] = [sub[s] EXCEPT !.ctx = "done", !.beats = sub[s].beats - 1]]
      <4>1. sub[s].beats - 1 \in 0..BeatSize
        BY <1>0, <3>2
      <4> DEFINE new == [sub[s] EXCEPT !.ctx = "done", !.beats = sub[s].beats - 1]
      <4>2. /\ new \in Subscription /\ new.from = sub[s].from /\ new.pc = sub[s].pc /\ new.ctx = "done"
            /\ new.ch = sub[s].ch
        BY <1>0, <4>1, ZenonT(30) DEF Subscription
      <4> HIDE DEF new
      <4>3. sub' = [sub EXCEPT ![s] = new]
        BY <3>2 DEF new
      <4> QED
        BY ZenonT(30), <1>0, <4>2, <4>3
    <3> QED
      BY <2>1, <3>1, <3>2
  <2>4. sub'[s] = new /\ sub' = [sub EXCEPT ![s] = sub'[s]]
    BY <1>0, <2>3
  <2>5. Placed(s)' /\ Complete(s)'
    BY <1>0, <2>1, <2>3, <2>4, ZenonT(30) DEF Placed, Complete, Live
  <2> QED
    BY ZenonT(30), <2>1, <2>3, <2>4, <2>5, OneSubscription
<1> QED
  BY <1>2, <1>3, <1>4, <1>5

LEMMA StepIInv ==
  ASSUME IInv, [Next]_vars
  PROVE  IInv'
<1>0. /\ stored \in Versions /\ producer \in [Producers -> Producer] /\ resyncs \in 0..MaxResyncs
      /\ stalled \subseteq Subscribers /\ LogCounted
  BY DEF IInv, TypeOK
<1>1. ASSUME UNCHANGED <<stored, producer, resyncs, log, broadcaster, sub>>, stalled' \subseteq Subscribers
      PROVE  IInv'
  <2>1. LogCounted'
    BY <1>0, <1>1, ZenonT(30) DEF LogCounted, WorkerBusy, ResyncBusy
  <2> QED
    BY <1>0, <1>1, <2>1, NoSubscription
<1>2. ASSUME NEW s \in Subscribers, Stall(s) PROVE IInv'
  BY <1>0, <1>1, <1>2 DEF Stall
<1>3. CASE UNCHANGED vars
  BY <1>0, <1>1, <1>3 DEF vars
<1> QED
  BY <1>2, <1>3, StepProducers, StepBroadcast, StepQuiet, StepMessage DEF Next

LEMMA AlwaysIInv == Spec => []IInv
<1>1. IInv /\ [Next]_vars => IInv'
  BY StepIInv
<1> QED
  BY <1>1, InitIInv, PTL DEF Spec

\* What a live subscriber was sent and has in its channel is all that was
\* broadcast since Register, once and in order, but for the message that the
\* broadcaster is handing out (Start in pkg/event/event.go, Subscribe in
\* grpc_server.go), for any capacity of the channels.
THEOREM NothingMissed == Spec => []NoGap
<1>1. IInv => NoGap
  BY ZenonT(30) DEF IInv, Complete, Live, UpTo, Run, NoGap
<1> QED
  BY <1>1, AlwaysIInv, PTL

\* No channel holds more than its capacity, and the broadcaster hands out only
\* to subscribers that are registered: none unregisters under its hands.
THEOREM ChannelsBounded == Spec => []TypeOK
<1>1. IInv => TypeOK
  BY DEF IInv
<1> QED
  BY <1>1, AlwaysIInv, PTL
====
