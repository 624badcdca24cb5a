--------------------------- MODULE HashDispatcher ---------------------------
(***************************************************************************)
(* Which server instance handles the status updates of a consumer          *)
(* (pkg/dispatcher/hash_dispatcher.go). Every instance receives every      *)
(* update and drops those of consumers that are not in its consumer set,   *)
(* which it derives, at its own pace, from the instances marked ready and  *)
(* a consistent-hash ring. A consumer that is taken over is resynced: the  *)
(* agent is asked to send again what differs from what is stored.          *)
(***************************************************************************)
EXTENDS Naturals, FiniteSets, FiniteSetsExt

CONSTANTS
  Instances,    \* Maestro server instances
  Consumers,    \* consumer names
  Located,      \* LocateKey: by the members of the ring and the consumer
  MaxReports,   \* bound on the status versions of an agent
  Kinds,        \* what may change or fail, of AllKinds
  MaxChanges    \* bound on these changes and failures

\* LocateKey returns a member of the ring.
ASSUME LocatedAssumption ==
  \A members \in SUBSET Instances \ {{}} : \A c \in Consumers :
    Located[members][c] \in members
AllKinds == {"ready", "consumer", "list", "subscription", "restart"}
ASSUME KindsAssumption == Kinds \subseteq AllKinds
ASSUME BoundsAssumption == MaxReports \in Nat /\ MaxChanges \in Nat

VARIABLES
  ready,        \* the instances marked ready in server_instances
  consumers,    \* table consumers
  ring,         \* the members of each instance's ring
  consumerSet,  \* the consumers each instance handles
  check,        \* the run of check in progress in each instance
  queue,        \* each instance's queue of consumers to resync
  subscribed,   \* the instances whose subscription is up
  signal,       \* the instances with an unread signal in SubscribedChan
  reported,     \* the latest status version of each agent
  stored,       \* the status version stored for each consumer
  inbox,        \* the status updates each instance has to handle
  requests,     \* the resync requests each agent has to answer
  changes       \* changes so far

dispatcherVars == <<ring, consumerSet, check, queue>>
statusVars == <<reported, stored, inbox, requests>>
vars == <<ready, consumers, dispatcherVars, subscribed, signal, statusVars, changes>>

-----------------------------------------------------------------------------
Versions == 0..MaxReports
Check == [pc: {"idle", "consumers", "apply"},
          toAdd: SUBSET Consumers, toRemove: SUBSET Consumers]
IdleCheck == [pc |-> "idle", toAdd |-> {}, toRemove |-> {}]

TypeOK ==
  /\ ready \subseteq Instances
  /\ consumers \subseteq Consumers
  /\ ring \in [Instances -> SUBSET Instances]
  /\ consumerSet \in [Instances -> SUBSET Consumers]
  /\ check \in [Instances -> Check]
  /\ \A i \in Instances : check[i].pc = "idle" => check[i] = IdleCheck
  /\ queue \in [Instances -> SUBSET Consumers]
  /\ subscribed \subseteq Instances
  /\ signal \subseteq Instances
  /\ reported \in [Consumers -> Versions]
  /\ stored \in [Consumers -> Versions]
  /\ inbox \in [Instances -> SUBSET (Consumers \X Versions)]
  /\ requests \in [Consumers -> SUBSET Versions]
  /\ changes \in 0..MaxChanges

InitWith(members, handled) ==
  /\ ready = members
  /\ consumers = Consumers
  /\ ring = [i \in Instances |-> members]
  /\ consumerSet = handled
  /\ check = [i \in Instances |-> IdleCheck]
  /\ queue = [i \in Instances |-> {}]
  /\ subscribed = Instances
  /\ signal = {}
  /\ reported = [c \in Consumers |-> 0]
  /\ stored = [c \in Consumers |-> 0]
  /\ inbox = [i \in Instances |-> {}]
  /\ requests = [c \in Consumers |-> {}]
  /\ changes = 0

\* The instances have just started: none is ready, the rings are empty.
Init == InitWith({}, [i \in Instances |-> {}])

\* All are ready and every dispatcher has settled on its consumers.
SettledInit ==
  InitWith(Instances, [i \in Instances |-> {c \in Consumers : Located[Instances][c] = i}])

-----------------------------------------------------------------------------
Change(kind) ==
  /\ kind \in Kinds
  /\ changes < MaxChanges
  /\ changes' = changes + 1

\* check: the instances marked ready become the members of the ring. An empty
\* ring ends the check.
CheckRing(i) ==
  /\ check[i].pc = "idle"
  /\ ring' = [ring EXCEPT ![i] = ready]
  /\ check' = IF ready = {} THEN check ELSE [check EXCEPT ![i].pc = "consumers"]
  /\ UNCHANGED <<ready, consumers, consumerSet, queue, subscribed, signal, statusVars, changes>>

\* Mutant: only consumers that are new to the instance are looked at.
UpdateConsumerSet_OnlyAdd(i) ==
  LET owned == {c \in consumers : Located[ring[i]][c] = i}
      new   == owned \ consumerSet[i]
  IN /\ check[i].pc = "consumers"
     /\ check' = [check EXCEPT ![i] = [pc |-> "apply", toAdd |-> new, toRemove |-> {}]]
     /\ queue' = [queue EXCEPT ![i] = @ \union new]
     /\ UNCHANGED <<ready, consumers, ring, consumerSet, subscribed, signal, statusVars, changes>>

\* updateConsumerSet: the stored consumers are located. Those that are new to
\* this instance are queued for a resync at once.
UpdateConsumerSet(i) ==
  LET owned == {c \in consumers : Located[ring[i]][c] = i}
      new   == owned \ consumerSet[i]
  IN /\ check[i].pc = "consumers"
     /\ check' = [check EXCEPT ![i] = [pc |-> "apply", toAdd |-> new,
                                       toRemove |-> (consumers \ owned) \intersect consumerSet[i]]]
     /\ queue' = [queue EXCEPT ![i] = @ \union new]
     /\ UNCHANGED <<ready, consumers, ring, consumerSet, subscribed, signal, statusVars, changes>>

\* updateConsumerSet: the consumers cannot be listed; the ring stays changed.
ListConsumersFails(i) ==
  /\ check[i].pc = "consumers"
  /\ Change("list")
  /\ check' = [check EXCEPT ![i] = IdleCheck]
  /\ UNCHANGED <<ready, consumers, ring, consumerSet, queue, subscribed, signal, statusVars>>

\* updateConsumerSet: Append and RemoveAll.
ApplyConsumerSet(i) ==
  /\ check[i].pc = "apply"
  /\ consumerSet' = [consumerSet EXCEPT ![i] = (@ \union check[i].toAdd) \ check[i].toRemove]
  /\ check' = [check EXCEPT ![i] = IdleCheck]
  /\ UNCHANGED <<ready, consumers, ring, queue, subscribed, signal, statusVars, changes>>

\* The request names the version that is stored.
Request(cs) == [c \in Consumers |-> requests[c] \union IF c \in cs THEN {stored[c]} ELSE {}]

\* processNextResync. A resync that fails is queued again.
ProcessNextResync(i, c) ==
  /\ c \in queue[i]
  /\ queue' = [queue EXCEPT ![i] = @ \ {c}]
  /\ requests' = Request({c})
  /\ UNCHANGED <<ready, consumers, ring, consumerSet, check, subscribed, signal,
                 reported, stored, inbox, changes>>

\* Mutant: the signal is read and nothing is asked for.
ResyncOnReconnect_None(i) ==
  /\ i \in signal
  /\ signal' = signal \ {i}
  /\ UNCHANGED <<ready, consumers, dispatcherVars, subscribed, statusVars, changes>>

\* resyncOnReconnect: all the consumers of the instance.
ResyncOnReconnect(i) ==
  /\ i \in signal
  /\ signal' = signal \ {i}
  /\ requests' = Request(consumerSet[i])
  /\ UNCHANGED <<ready, consumers, dispatcherVars, subscribed, reported, stored, inbox, changes>>

-----------------------------------------------------------------------------
\* A status update reaches every instance that is subscribed.
Deliver(c, v) ==
  inbox' = [i \in Instances |-> IF i \in subscribed THEN inbox[i] \union {<<c, v>>} ELSE inbox[i]]

\* The agent reports a new status.
AgentReport(c) ==
  /\ reported[c] < MaxReports
  /\ reported' = [reported EXCEPT ![c] = @ + 1]
  /\ Deliver(c, reported[c] + 1)
  /\ UNCHANGED <<ready, consumers, dispatcherVars, subscribed, signal, stored, requests, changes>>

\* The agent answers a resync request when its status differs.
AgentResync(c, v) ==
  /\ v \in requests[c]
  /\ requests' = [requests EXCEPT ![c] = @ \ {v}]
  /\ IF v # reported[c] THEN Deliver(c, reported[c]) ELSE UNCHANGED inbox
  /\ UNCHANGED <<ready, consumers, dispatcherVars, subscribed, signal, reported, stored, changes>>

\* HandleStatusUpdate after Dispatch: the update is dropped unless the consumer
\* is in the set; an older version is not stored over a newer one.
HandleStatusUpdate(i, c, v) ==
  /\ <<c, v>> \in inbox[i]
  /\ inbox' = [inbox EXCEPT ![i] = @ \ {<<c, v>>}]
  /\ stored' = IF c \in consumerSet[i] THEN [stored EXCEPT ![c] = Max({@, v})] ELSE stored
  /\ UNCHANGED <<ready, consumers, dispatcherVars, subscribed, signal, reported, requests, changes>>

-----------------------------------------------------------------------------
\* checkInstances of some instance marks an instance ready, or not.
MarkInstance(i) ==
  /\ Change("ready")
  /\ ready' = IF i \in ready THEN ready \ {i} ELSE ready \union {i}
  /\ UNCHANGED <<consumers, dispatcherVars, subscribed, signal, statusVars>>

\* A consumer is created or deleted. A new one has reported nothing.
ChangeConsumer(c) ==
  /\ Change("consumer")
  /\ consumers' = IF c \in consumers THEN consumers \ {c} ELSE consumers \union {c}
  /\ UNCHANGED <<ready, dispatcherVars, subscribed, signal, statusVars>>

\* The subscription breaks: updates in the meantime are lost.
Unsubscribed(i) ==
  /\ Change("subscription")
  /\ i \in subscribed
  /\ subscribed' = subscribed \ {i}
  /\ UNCHANGED <<ready, consumers, dispatcherVars, signal, statusVars>>

Subscribed(i) ==
  /\ i \notin subscribed
  /\ subscribed' = subscribed \union {i}
  /\ signal' = signal \union {i}
  /\ UNCHANGED <<ready, consumers, dispatcherVars, statusVars, changes>>

\* The process restarts: what it kept in memory is gone.
Restart(i) ==
  /\ Change("restart")
  /\ ring' = [ring EXCEPT ![i] = {}]
  /\ consumerSet' = [consumerSet EXCEPT ![i] = {}]
  /\ check' = [check EXCEPT ![i] = IdleCheck]
  /\ queue' = [queue EXCEPT ![i] = {}]
  /\ inbox' = [inbox EXCEPT ![i] = {}]
  /\ signal' = signal \union {i}
  /\ UNCHANGED <<ready, consumers, subscribed, reported, stored, requests>>

CheckStep(i) == CheckRing(i) \/ UpdateConsumerSet(i) \/ ApplyConsumerSet(i)

Next ==
  \/ \E i \in Instances :
       \/ CheckStep(i) \/ ListConsumersFails(i) \/ ResyncOnReconnect(i)
       \/ MarkInstance(i) \/ Unsubscribed(i) \/ Subscribed(i) \/ Restart(i)
       \/ \E c \in Consumers : ProcessNextResync(i, c)
       \/ \E c \in Consumers, v \in Versions : HandleStatusUpdate(i, c, v)
  \/ \E c \in Consumers : AgentReport(c) \/ ChangeConsumer(c)
  \/ \E c \in Consumers, v \in Versions : AgentResync(c, v)

\* check is periodic, the resync workers and the subscription's handler run as
\* long as there is something to do, the client reconnects, agents answer.
Fairness ==
  /\ \A i \in Instances :
       /\ WF_vars(CheckStep(i)) /\ WF_vars(ResyncOnReconnect(i)) /\ WF_vars(Subscribed(i))
       /\ \A c \in Consumers :
            /\ WF_vars(ProcessNextResync(i, c))
            /\ \A v \in Versions : WF_vars(HandleStatusUpdate(i, c, v))
  /\ \A c \in Consumers, v \in Versions : WF_vars(AgentResync(c, v))

Spec == Init /\ [][Next]_vars /\ Fairness
SettledSpec == SettledInit /\ [][Next]_vars /\ Fairness

-----------------------------------------------------------------------------
\* Once readiness and consumers stop changing every stored consumer has just
\* one instance that handles its status updates, the one all rings locate,
\* whatever lists failed and whichever instance restarted on the way. The
\* statement of HashDispatcher: "Only the maestro instance that is mapped to a
\* consumer will process the resource status update from that consumer."
EventuallyOneOwner ==
  <>[](ready # {} => \A c \in consumers :
         {i \in Instances : c \in consumerSet[i]} = {Located[ready][c]})

\* What the agent of a stored consumer reported last is stored in the end: the
\* resync of a consumer that is "added to the current instance" brings the
\* updates that nobody handled, and so does the resync of a new subscription.
StatusEventuallyStored ==
  \A c \in Consumers : []<>(stored[c] = reported[c] \/ c \notin consumers \/ ready = {})
====
