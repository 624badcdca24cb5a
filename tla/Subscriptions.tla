---------------------------- MODULE Subscriptions ----------------------------
(***************************************************************************)
(* How the status of a resource gets from a server instance to its gRPC    *)
(* subscribers (pkg/event/event.go, and Publish and Subscribe in           *)
(* cmd/maestro/server/grpc_server.go). Broadcast hands a status to the     *)
(* broadcaster's goroutine, which puts it in the channel of every          *)
(* subscriber under a read lock; each subscriber has a goroutine that      *)
(* sends from the channel to the stream. Register and Unregister take the  *)
(* write lock.                                                             *)
(***************************************************************************)
EXTENDS Naturals, Sequences, FiniteSets, Functions

CONSTANTS
  Subscribers,   \* Subscribe calls
  ChannelSize,   \* the capacity of eventCh (100)
  BeatSize,      \* the capacity of heartbeatCh (10)
  MaxVersion,    \* bound on the versions of the status
  MaxResyncs,    \* bound on status resync requests
  MaxStalls      \* bound on subscribers that stop reading their stream

ASSUME BoundsAssumption ==
  /\ ChannelSize \in Nat \ {0} /\ BeatSize \in Nat
  /\ MaxVersion \in Nat /\ MaxResyncs \in Nat /\ MaxStalls \in Nat

VARIABLES
  stored,       \* the version of the status in the database
  producer,     \* who calls Broadcast: the status worker and the resync handler
  resyncs,      \* resync requests so far
  log,          \* the versions broadcast so far
  broadcaster,  \* the subscribers that still have to get the last one
  sub,          \* the Subscribe calls
  stalled       \* the subscribers that do not read

vars == <<stored, producer, resyncs, log, broadcaster, sub, stalled>>

-----------------------------------------------------------------------------
Versions == 0..MaxVersion
Producers == {"worker", "resync"}
Positions == 1..(MaxVersion + MaxResyncs)

\* "blocked": in Broadcast, with the version that was read.
Producer == [pc: {"idle", "blocked"}, version: Versions, known: Versions]

\* ch and got: positions in log, in the channel and sent to the stream.
Subscription ==
  [pc: {"new", "registered", "gone"}, ctx: {"alive", "done"}, beats: 0..BeatSize,
   from: Positions \union {0}, ch: Seq(Positions), got: Seq(Positions)]

TypeOK ==
  /\ stored \in Versions
  /\ producer \in [Producers -> Producer]
  /\ resyncs \in 0..MaxResyncs
  /\ log \in Seq(Versions)
  /\ broadcaster \subseteq Subscribers
  /\ \A s \in broadcaster : sub[s].pc = "registered"
  /\ sub \in [Subscribers -> Subscription]
  /\ \A s \in Subscribers : Len(sub[s].ch) <= ChannelSize
  /\ stalled \subseteq Subscribers

Init ==
  /\ stored = 0
  /\ producer = [p \in Producers |-> [pc |-> "idle", version |-> 0, known |-> 0]]
  /\ resyncs = 0
  /\ log = <<>>
  /\ broadcaster = {}
  /\ sub = [s \in Subscribers |-> [pc |-> "new", ctx |-> "alive", beats |-> 0,
                                   from |-> 0, ch |-> <<>>, got |-> <<>>]]
  /\ stalled = {}

-----------------------------------------------------------------------------
\* UpdateStatus stores a status, and a status event is made of it.
StatusChanges ==
  /\ stored < MaxVersion
  /\ stored' = stored + 1
  /\ UNCHANGED <<producer, resyncs, log, broadcaster, sub, stalled>>

\* broadcastStatusEvent: the worker reads the resource and calls Broadcast.
WorkerReads ==
  /\ producer["worker"].pc = "idle"
  /\ producer["worker"].known < stored
  /\ producer' = [producer EXCEPT !["worker"] = [pc |-> "blocked", version |-> stored, known |-> stored]]
  /\ UNCHANGED <<stored, resyncs, log, broadcaster, sub, stalled>>

\* respondResyncStatusRequest: the resources are listed, and those whose status
\* the source does not have are broadcast.
ResyncReads ==
  /\ producer["resync"].pc = "idle"
  /\ resyncs < MaxResyncs
  /\ stored > 0
  /\ resyncs' = resyncs + 1
  /\ producer' = [producer EXCEPT !["resync"] = [@ EXCEPT !.pc = "blocked", !.version = stored]]
  /\ UNCHANGED <<stored, log, broadcaster, sub, stalled>>

\* Start: the broadcaster takes a message, and the read lock.
Broadcast(p) ==
  /\ producer[p].pc = "blocked"
  /\ broadcaster = {}
  /\ log' = Append(log, producer[p].version)
  /\ broadcaster' = {s \in Subscribers : sub[s].pc = "registered"}
  /\ producer' = [producer EXCEPT ![p].pc = "idle"]
  /\ UNCHANGED <<stored, resyncs, sub, stalled>>

\* Mutant: the handler does not wait for room in the channel.
Handler_Drop(s) ==
  /\ s \in broadcaster
  /\ sub' = [sub EXCEPT ![s].ch = IF Len(@) < ChannelSize THEN Append(@, Len(log)) ELSE @]
  /\ broadcaster' = broadcaster \ {s}
  /\ UNCHANGED <<stored, producer, resyncs, log, stalled>>

\* Mutant: the handler does not select on the context.
Handler_NoContext(s) ==
  /\ s \in broadcaster
  /\ Len(sub[s].ch) < ChannelSize
  /\ sub' = [sub EXCEPT ![s].ch = Append(@, Len(log))]
  /\ broadcaster' = broadcaster \ {s}
  /\ UNCHANGED <<stored, producer, resyncs, log, stalled>>

\* The handler of a subscriber: it waits for room in the channel, or for the
\* end of the context; with both, either.
Handler(s) ==
  /\ s \in broadcaster
  /\ \/ /\ Len(sub[s].ch) < ChannelSize
        /\ sub' = [sub EXCEPT ![s].ch = Append(@, Len(log))]
     \/ /\ sub[s].ctx = "done"
        /\ UNCHANGED sub
  /\ broadcaster' = broadcaster \ {s}
  /\ UNCHANGED <<stored, producer, resyncs, log, stalled>>

-----------------------------------------------------------------------------
\* Mutant: no lock.
Register_NoLock(s) ==
  /\ sub[s].pc = "new"
  /\ sub' = [sub EXCEPT ![s].pc = "registered", ![s].from = Len(log)]
  /\ broadcaster' = IF broadcaster = {} THEN {} ELSE broadcaster \union {s}
  /\ UNCHANGED <<stored, producer, resyncs, log, stalled>>

\* Subscribe: Register.
Register(s) ==
  /\ sub[s].pc = "new"
  /\ broadcaster = {}
  /\ sub' = [sub EXCEPT ![s].pc = "registered", ![s].from = Len(log)]
  /\ UNCHANGED <<stored, producer, resyncs, log, broadcaster, stalled>>

\* Subscribe: the sending goroutine, while the client reads its stream.
Send(s) ==
  /\ sub[s].pc # "gone" /\ sub[s].ctx = "alive" /\ s \notin stalled
  /\ sub[s].ch # <<>>
  /\ sub' = [sub EXCEPT ![s].got = Append(@, Head(sub[s].ch)), ![s].ch = Tail(@)]
  /\ UNCHANGED <<stored, producer, resyncs, log, broadcaster, stalled>>

\* Subscribe: the ticker. A heartbeat that finds the channel full is dropped.
Beat(s) ==
  /\ sub[s].pc = "registered" /\ sub[s].ctx = "alive"
  /\ sub[s].beats < BeatSize
  /\ sub' = [sub EXCEPT ![s].beats = @ + 1]
  /\ UNCHANGED <<stored, producer, resyncs, log, broadcaster, stalled>>

SendBeat(s) ==
  /\ sub[s].pc # "gone" /\ sub[s].ctx = "alive" /\ s \notin stalled
  /\ sub[s].beats > 0
  /\ sub' = [sub EXCEPT ![s].beats = @ - 1]
  /\ UNCHANGED <<stored, producer, resyncs, log, broadcaster, stalled>>

\* Subscribe: sending fails, and what was being sent is lost with the stream;
\* the context is cancelled.
SendFails(s) ==
  /\ sub[s].pc = "registered" /\ sub[s].ctx = "alive"
  /\ sub[s].ch # <<>> \/ sub[s].beats > 0
  /\ \/ /\ sub[s].ch # <<>>
        /\ sub' = [sub EXCEPT ![s].ctx = "done", ![s].ch = Tail(@)]
     \/ /\ sub[s].beats > 0
        /\ sub' = [sub EXCEPT ![s].ctx = "done", ![s].beats = @ - 1]
  /\ UNCHANGED <<stored, producer, resyncs, log, broadcaster, stalled>>

\* The client goes away.
Leave(s) ==
  /\ sub[s].pc = "registered" /\ sub[s].ctx = "alive"
  /\ sub' = [sub EXCEPT ![s].ctx = "done"]
  /\ UNCHANGED <<stored, producer, resyncs, log, broadcaster, stalled>>

\* Subscribe: Unregister, after an error of the sender or the end of the context.
Unregister(s) ==
  /\ sub[s].pc = "registered" /\ sub[s].ctx = "done"
  /\ broadcaster = {}
  /\ sub' = [sub EXCEPT ![s].pc = "gone"]
  /\ UNCHANGED <<stored, producer, resyncs, log, broadcaster, stalled>>

\* The client stops reading; flow control blocks the sending goroutine.
Stall(s) ==
  /\ sub[s].pc = "registered" /\ sub[s].ctx = "alive"
  /\ s \notin stalled
  /\ Cardinality(stalled) < MaxStalls
  /\ stalled' = stalled \union {s}
  /\ UNCHANGED <<stored, producer, resyncs, log, broadcaster, sub>>

Next ==
  \/ StatusChanges \/ WorkerReads \/ ResyncReads
  \/ \E p \in Producers : Broadcast(p)
  \/ \E s \in Subscribers :
       \/ Register(s) \/ Handler(s) \/ Send(s) \/ Beat(s) \/ SendBeat(s)
       \/ SendFails(s) \/ Leave(s) \/ Unregister(s) \/ Stall(s)

Spec == Init /\ [][Next]_vars

\* Goroutines that can run do, and locks are fair.
Fairness ==
  /\ WF_vars(WorkerReads) /\ \A p \in Producers : SF_vars(Broadcast(p))
  /\ \A s \in Subscribers :
       /\ WF_vars(Handler(s)) /\ SF_vars(Send(s)) /\ WF_vars(SendBeat(s))
       /\ SF_vars(Unregister(s))

LiveSpec == Spec /\ Fairness

-----------------------------------------------------------------------------
\* What a live subscriber has been sent and has in its channel is what was
\* broadcast since it registered: all of it, once, in that order. At most the
\* message that the broadcaster is handing out is missing.
NoGap ==
  \A s \in Subscribers :
    sub[s].pc = "registered" /\ sub[s].ctx = "alive" =>
      LET upTo == IF s \in broadcaster THEN Len(log) - 1 ELSE Len(log)
      IN sub[s].got \o sub[s].ch = [k \in 1..(upTo - sub[s].from) |-> sub[s].from + k]

\* As long as every client reads, a subscription that has ended is
\* unregistered, although the broadcaster may be waiting for room in its channel
\* while it holds the lock that Unregister needs.
UnregisterCompletes ==
  \A s \in Subscribers : sub[s].ctx = "done" ~> (sub[s].pc = "gone" \/ stalled # {})

\* As long as every client reads, a subscriber that stays gets every broadcast:
\* "Broadcast broadcasts a resource status change event to all registered
\* clients" (event.go).
BroadcastReachesAll ==
  \A s \in Subscribers, k \in Positions :
    (sub[s].pc = "registered" /\ sub[s].from < k /\ Len(log) >= k)
      ~> (k \in Range(sub[s].got) \/ sub[s].ctx = "done" \/ stalled # {})

\* A subscriber that does not read holds up nobody else: a stored status is
\* broadcast whatever the clients do (handleStatusEvent, "ensuring the status
\* event is broadcast to all subscribers").
StallsHurtNobody == \A v \in Versions \ {0} : stored >= v ~> \E k \in DOMAIN log : log[k] >= v

\* The status a subscriber is sent is never older than the one before.
NeverSentOlder ==
  \A s \in Subscribers : \A k \in 2..Len(sub[s].got) :
    log[sub[s].got[k]] >= log[sub[s].got[k - 1]]
====
