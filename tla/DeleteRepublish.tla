--------------------------- MODULE DeleteRepublish ---------------------------
(***************************************************************************)
(* The deletion of one resource when its source repeats the request and    *)
(* its agent may be away, or lose the deletion: MarkAsDeleting with the    *)
(* throttle of republishDeleteEvent (pkg/services/resource.go), the stale  *)
(* delete detector, and the purge of reconciled events that takes from the *)
(* throttle what it measures by. SpecStore leaves the ages of events free; *)
(* here time is counted, in units of which the interval and the threshold  *)
(* are a few.                                                              *)
(***************************************************************************)
EXTENDS Naturals, FiniteSets

CONSTANTS
  EventIds,    \* delete events that exist at a time
  Interval,    \* deleteEventRepublishInterval, 0: no republishing
  Threshold,   \* the age of stale delete events, 0: no detector
  MaxAge,      \* ages are counted up to here
  MaxForgets,  \* bound on how often the agent loses the deletion
  MaxFailures  \* bound on failed inserts and on the agent's absences

ASSUME DeletionBounds ==
  /\ Interval \in Nat /\ Threshold \in Nat
  /\ MaxAge \in Nat /\ MaxAge > Interval /\ MaxAge > Threshold
  /\ MaxForgets \in Nat /\ MaxFailures \in Nat

VARIABLES
  resource,   \* the row, with the age of its deletion
  events,     \* its delete events
  request,    \* MarkAsDeleting under the lock of the resource
  agent,      \* what the agent does with the work
  reachable,  \* the agent can be reached
  last,       \* the age of the latest event created, purged or not
  count       \* forgets and faults so far

deletionVars == <<resource, events, request, agent, reachable, last, count>>

-----------------------------------------------------------------------------
Ages == 0..MaxAge
Event == [state: {"none", "pending", "reconciled"}, age: Ages]
NoEvent == [state |-> "none", age |-> 0]
Stored == {e \in EventIds : events[e].state # "none"}
Pending == {e \in EventIds : events[e].state = "pending"}

DeletionTypeOK ==
  /\ resource \in [state: {"live", "deleting", "gone"}, age: Ages]
  /\ events \in [EventIds -> Event]
  /\ request \in {"idle", "create", "republish"}
  /\ agent \in {"applies", "deletes", "deleted"}
  /\ reachable \in BOOLEAN
  /\ last \in Ages
  /\ count \in [forgets: 0..MaxForgets, faults: 0..MaxFailures]
  /\ resource.state = "live" => Stored = {} /\ agent = "applies"

DeletionInit ==
  /\ resource = [state |-> "live", age |-> 0]
  /\ events = [e \in EventIds |-> NoEvent]
  /\ request = "idle"
  /\ agent = "applies"
  /\ reachable = TRUE
  /\ last = MaxAge
  /\ count = [forgets |-> 0, faults |-> 0]

-----------------------------------------------------------------------------
\* Mutant: the oldest event is found, as if without DESC.
Throttled_Oldest == Stored # {} /\ \A e \in Stored : events[e].age < Interval

\* FindLatestDeleteEvent and the test of its age.
Throttled == \E e \in Stored : events[e].age < Interval

\* Mutant: a deletion that is in flight is left alone.
MarkAsDeleting_Once ==
  /\ request = "idle"
  /\ resource.state = "live"
  /\ resource' = [state |-> "deleting", age |-> 0]
  /\ request' = "create"
  /\ UNCHANGED <<events, agent, reachable, last, count>>

\* MarkAsDeleting up to the new event: the row is soft-deleted, or it is being
\* deleted already and the latest event is old enough.
MarkAsDeleting ==
  /\ request = "idle"
  /\ \/ /\ resource.state = "live"
        /\ resource' = [state |-> "deleting", age |-> 0]
        /\ request' = "create"
     \/ /\ resource.state = "deleting"
        /\ Interval > 0
        /\ ~Throttled
        /\ request' = "republish"
        /\ UNCHANGED resource
  /\ UNCHANGED <<events, agent, reachable, last, count>>

\* events.Create.
CreateEvent ==
  /\ request # "idle"
  /\ request' = "idle"
  /\ \E e \in EventIds \ Stored :
       events' = [events EXCEPT ![e] = [state |-> "pending", age |-> 0]]
  /\ last' = 0
  /\ UNCHANGED <<resource, agent, reachable, count>>

\* The insert fails, or the request is aborted: the mark stays.
CreateFails ==
  /\ request # "idle"
  /\ count.faults < MaxFailures
  /\ count' = [count EXCEPT !.faults = @ + 1]
  /\ request' = "idle"
  /\ UNCHANGED <<resource, events, agent, reachable, last>>

\* handleEvent behind PredicateEvent of the gRPC broker: an event waits for the
\* agent, and one that is reached starts to delete. The event of a resource that
\* is gone is just reconciled.
HandleEvent(e) ==
  /\ e \in Pending
  /\ reachable \/ resource.state = "gone"
  /\ events' = [events EXCEPT ![e].state = "reconciled"]
  /\ agent' = IF agent = "applies" /\ resource.state # "gone" THEN "deletes" ELSE agent
  /\ UNCHANGED <<resource, request, reachable, last, count>>

\* ReconcileStaleDeleteEvents: row and event are older than the threshold.
ReconcileStaleDeleteEvents ==
  LET stale == {e \in Pending : events[e].age > Threshold}
  IN /\ Threshold > 0
     /\ resource.state = "deleting" /\ resource.age > Threshold
     /\ stale # {}
     /\ events' = [e \in EventIds |-> IF e \in stale THEN [events[e] EXCEPT !.state = "reconciled"]
                                                     ELSE events[e]]
     /\ UNCHANGED <<resource, request, agent, reachable, last, count>>

\* syncEvents: DeleteAllReconciledEvents.
DeleteAllReconciledEvents ==
  /\ Stored # Pending
  /\ events' = [e \in EventIds |-> IF e \in Pending THEN events[e] ELSE NoEvent]
  /\ UNCHANGED <<resource, request, agent, reachable, last, count>>

-----------------------------------------------------------------------------
\* The agent deletes the work; its status makes Maestro delete the row.
AgentDeletes ==
  /\ agent = "deletes"
  /\ agent' = "deleted"
  /\ UNCHANGED <<resource, events, request, reachable, last, count>>

HardDelete ==
  /\ agent = "deleted"
  /\ resource.state = "deleting"
  /\ reachable
  /\ resource' = [resource EXCEPT !.state = "gone"]
  /\ UNCHANGED <<events, request, agent, reachable, last, count>>

\* "its in-memory store dropped the DeletionTimestamp" (MarkAsDeleting).
AgentForgets ==
  /\ agent = "deletes"
  /\ count.forgets < MaxForgets
  /\ count' = [count EXCEPT !.forgets = @ + 1]
  /\ agent' = "applies"
  /\ UNCHANGED <<resource, events, request, reachable, last>>

AgentAway ==
  /\ reachable
  /\ count.faults < MaxFailures
  /\ count' = [count EXCEPT !.faults = @ + 1]
  /\ reachable' = FALSE
  /\ UNCHANGED <<resource, events, request, agent, last>>

AgentBack ==
  /\ ~reachable
  /\ reachable' = TRUE
  /\ UNCHANGED <<resource, events, request, agent, last, count>>

Older(age) == IF age < MaxAge THEN age + 1 ELSE age

TimePasses ==
  /\ resource' = [resource EXCEPT !.age = IF resource.state = "deleting" THEN Older(@) ELSE @]
  /\ events' = [e \in EventIds |-> IF e \in Stored THEN [events[e] EXCEPT !.age = Older(@)]
                                                   ELSE events[e]]
  /\ last' = Older(last)
  /\ UNCHANGED <<request, agent, reachable, count>>

DeletionNext ==
  \/ MarkAsDeleting \/ CreateEvent \/ CreateFails
  \/ \E e \in EventIds : HandleEvent(e)
  \/ ReconcileStaleDeleteEvents \/ DeleteAllReconciledEvents
  \/ AgentDeletes \/ HardDelete \/ AgentForgets \/ AgentAway \/ AgentBack \/ TimePasses

DeletionSpec == DeletionInit /\ [][DeletionNext]_deletionVars

\* The source repeats its request until the resource is gone, the periodic
\* tasks run, the agent comes back, time passes. The worker is strongly fair: it
\* takes far less than a threshold, so events do not always go stale before it.
DeletionFairness ==
  /\ WF_deletionVars(MarkAsDeleting) /\ WF_deletionVars(CreateEvent)
  /\ \A e \in EventIds : SF_deletionVars(HandleEvent(e))
  /\ WF_deletionVars(ReconcileStaleDeleteEvents) /\ WF_deletionVars(DeleteAllReconciledEvents)
  /\ WF_deletionVars(AgentDeletes) /\ WF_deletionVars(HardDelete) /\ WF_deletionVars(AgentBack) /\ WF_deletionVars(TimePasses)

DeletionLiveSpec == DeletionSpec /\ DeletionFairness

-----------------------------------------------------------------------------
\* Two delete events that wait for delivery are an interval apart, so that
\* "retries can never accumulate events without bound" (MarkAsDeleting). Ages
\* at the limit are not told apart.
PendingSpaced ==
  \A e, f \in Pending : e # f =>
    \/ events[e].age >= events[f].age + Interval
    \/ events[f].age >= events[e].age + Interval
    \/ MaxAge \in {events[e].age, events[f].age}

\* A resource that its source wants deleted is deleted in the end, though the
\* first event was never stored, the agent was away until the event went stale,
\* or forgot the deletion: the republished event heals it.
DeletionHeals == resource.state = "deleting" ~> resource.state = "gone"

\* "at most one new event per deleteEventRepublishInterval per resource".
AtMostOnePerInterval ==
  [][request = "republish" /\ last' = 0 => last >= Interval]_deletionVars
====
