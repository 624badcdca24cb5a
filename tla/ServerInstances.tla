-------------------------- MODULE ServerInstances --------------------------
(***************************************************************************)
(* How the server instances know of each other                             *)
(* (cmd/maestro/server/healthcheck_server.go): each one stores a heartbeat *)
(* in table server_instances (pulse), and whichever gets the advisory lock *)
(* marks the rows ready or not by the age of their heartbeats              *)
(* (checkInstances). The two take locks of different ids, so they overlap. *)
(*                                                                         *)
(* Time is counted in heartbeat intervals. Both loops are on time: before  *)
(* an interval ends every serving instance has stored a heartbeat and a    *)
(* check, which is due three times in it, has run.                         *)
(***************************************************************************)
EXTENDS Naturals, FiniteSets

CONSTANTS
  Instances,   \* Maestro server instances
  NoInstance,  \* no instance
  MaxChanges   \* bound on crashes, failed statements and lost connections

ASSUME InstancesAssumption == Instances # {} /\ NoInstance \notin Instances
ASSUME ChangesAssumption == MaxChanges \in Nat

VARIABLES
  inst,       \* table server_instances
  pulse,      \* the pulse in progress of each instance
  check,      \* the run of checkInstances that holds the lock
  checked,    \* a check has run in this interval
  up,         \* the instances that run
  connected,  \* the instances whose CloudEvents source client is ready
  changes     \* crashes, failures and losses so far

healthVars == <<inst, pulse, check, checked, up, connected, changes>>

-----------------------------------------------------------------------------
\* A heartbeat older than three intervals is late (checkInstances).
Late == 3
Oldest == Late + 3   \* ages are counted up to here

Heartbeat == [row: BOOLEAN, ready: BOOLEAN, age: 0..Oldest]
Pulse == [pc: {"idle", "save"}, found: Heartbeat]
Check == [pc: {"idle", "ready", "unready"}, by: Instances \union {NoInstance},
          active: SUBSET Instances, inactive: SUBSET Instances]

NoHeartbeat == [row |-> FALSE, ready |-> FALSE, age |-> 0]
IdlePulse == [pc |-> "idle", found |-> NoHeartbeat]
IdleCheck == [pc |-> "idle", by |-> NoInstance, active |-> {}, inactive |-> {}]

Serving(i) == i \in up /\ i \in connected

HealthTypeOK ==
  /\ inst \in [Instances -> Heartbeat]
  /\ pulse \in [Instances -> Pulse]
  /\ check \in Check
  /\ check.pc = "idle" <=> check.by = NoInstance
  /\ checked \in BOOLEAN
  /\ up \subseteq Instances
  /\ connected \subseteq Instances
  /\ changes \in 0..MaxChanges

HealthInit ==
  /\ inst = [i \in Instances |-> NoHeartbeat]
  /\ pulse = [i \in Instances |-> IdlePulse]
  /\ check = IdleCheck
  /\ checked = FALSE
  /\ up = Instances
  /\ connected = Instances
  /\ changes = 0

-----------------------------------------------------------------------------
\* pulse: nothing while the CloudEvents client is not ready; else the row is
\* read, under the lock of this instance.
PulseRead(i) ==
  /\ Serving(i)
  /\ pulse[i].pc = "idle"
  /\ pulse' = [pulse EXCEPT ![i] = [pc |-> "save", found |-> inst[i]]]
  /\ UNCHANGED <<inst, check, checked, up, connected, changes>>

\* pulse: the row is created, not ready, or saved with all its columns as
\* they were read, and the new heartbeat.
PulseSave(i) ==
  /\ pulse[i].pc = "save"
  /\ inst' = [inst EXCEPT ![i] = [row |-> TRUE, age |-> 0,
                                  ready |-> pulse[i].found.row /\ pulse[i].found.ready]]
  /\ pulse' = [pulse EXCEPT ![i] = IdlePulse]
  /\ UNCHANGED <<check, checked, up, connected, changes>>

\* Mutant: only instances that are active are looked for.
CheckRead_OnlyActive(i) ==
  /\ i \in up
  /\ check.pc = "idle"
  /\ check' = [pc |-> "ready", by |-> i,
               active |-> {j \in Instances : inst[j].row /\ inst[j].age < Late /\ ~inst[j].ready},
               inactive |-> {}]
  /\ UNCHANGED <<inst, pulse, checked, up, connected, changes>>

\* Mutant: the test of Ready is inverted for the active ones.
CheckRead_ReadyOnly(i) ==
  /\ i \in up
  /\ check.pc = "idle"
  /\ check' = [pc |-> "ready", by |-> i,
               active |-> {j \in Instances : inst[j].row /\ inst[j].age < Late /\ inst[j].ready},
               inactive |-> {j \in Instances : inst[j].row /\ inst[j].age > Late /\ inst[j].ready}]
  /\ UNCHANGED <<inst, pulse, checked, up, connected, changes>>

\* checkInstances: the non-blocking lock, and all the rows. A heartbeat of
\* just three intervals is neither after nor before the limit.
CheckRead(i) ==
  /\ i \in up
  /\ check.pc = "idle"
  /\ check' = [pc |-> "ready", by |-> i,
               active |-> {j \in Instances : inst[j].row /\ inst[j].age < Late /\ ~inst[j].ready},
               inactive |-> {j \in Instances : inst[j].row /\ inst[j].age > Late /\ inst[j].ready}]
  /\ UNCHANGED <<inst, pulse, checked, up, connected, changes>>

\* checkInstances: MarkReadyByIDs.
CheckMarkReady ==
  /\ check.pc = "ready"
  /\ inst' = [i \in Instances |-> IF i \in check.active THEN [inst[i] EXCEPT !.ready = TRUE]
                                                        ELSE inst[i]]
  /\ check' = [check EXCEPT !.pc = "unready"]
  /\ UNCHANGED <<pulse, checked, up, connected, changes>>

\* checkInstances: MarkUnreadyByIDs, and the end of the lock.
CheckMarkUnready ==
  /\ check.pc = "unready"
  /\ inst' = [i \in Instances |-> IF i \in check.inactive THEN [inst[i] EXCEPT !.ready = FALSE]
                                                          ELSE inst[i]]
  /\ check' = IdleCheck
  /\ checked' = TRUE
  /\ UNCHANGED <<pulse, up, connected, changes>>

\* A statement of pulse or of checkInstances fails: pulse gives up, the check
\* goes on with the next list.
PulseFails(i) ==
  /\ pulse[i].pc = "save"
  /\ changes < MaxChanges
  /\ changes' = changes + 1
  /\ pulse' = [pulse EXCEPT ![i] = IdlePulse]
  /\ UNCHANGED <<inst, check, checked, up, connected>>

CheckFails ==
  /\ check.pc # "idle"
  /\ changes < MaxChanges
  /\ changes' = changes + 1
  /\ check' = IF check.pc = "ready" THEN [check EXCEPT !.pc = "unready"] ELSE IdleCheck
  /\ UNCHANGED <<inst, pulse, checked, up, connected>>

\* An interval passes.
Tick ==
  /\ \A i \in Instances : Serving(i) => inst[i].row /\ inst[i].age = 0
  /\ checked
  /\ \E i \in Instances : inst[i].row /\ inst[i].age < Oldest
  /\ inst' = [i \in Instances |-> IF inst[i].row /\ inst[i].age < Oldest
                                  THEN [inst[i] EXCEPT !.age = @ + 1] ELSE inst[i]]
  /\ checked' = FALSE
  /\ UNCHANGED <<pulse, check, up, connected, changes>>

\* The process ends; its locks go with its connections. One instance stays.
Crash(i) ==
  /\ i \in up
  /\ up # {i}
  /\ changes < MaxChanges
  /\ changes' = changes + 1
  /\ up' = up \ {i}
  /\ pulse' = [pulse EXCEPT ![i] = IdlePulse]
  /\ check' = IF check.by = i THEN IdleCheck ELSE check
  /\ UNCHANGED <<inst, checked, connected>>

Restart(i) ==
  /\ i \notin up
  /\ up' = up \union {i}
  /\ UNCHANGED <<inst, pulse, check, checked, connected, changes>>

Disconnect(i) ==
  /\ i \in connected
  /\ changes < MaxChanges
  /\ changes' = changes + 1
  /\ connected' = connected \ {i}
  /\ UNCHANGED <<inst, pulse, check, checked, up>>

Reconnect(i) ==
  /\ i \notin connected
  /\ connected' = connected \union {i}
  /\ UNCHANGED <<inst, pulse, check, checked, up, changes>>

HealthNext ==
  \/ \E i \in Instances :
       \/ PulseRead(i) \/ PulseSave(i) \/ CheckRead(i)
       \/ PulseFails(i)
       \/ Crash(i) \/ Restart(i) \/ Disconnect(i) \/ Reconnect(i)
  \/ CheckMarkReady \/ CheckMarkUnready \/ CheckFails \/ Tick

HealthSpec == HealthInit /\ [][HealthNext]_healthVars

\* Pulse and check are periodic in every running instance; time passes.
HealthFairness ==
  /\ \A i \in Instances : WF_healthVars(PulseRead(i)) /\ WF_healthVars(PulseSave(i))
  /\ WF_healthVars(\E i \in Instances : CheckRead(i))
  /\ WF_healthVars(CheckMarkReady) /\ WF_healthVars(CheckMarkUnready) /\ WF_healthVars(Tick)

HealthLiveSpec == HealthSpec /\ HealthFairness

-----------------------------------------------------------------------------
\* An instance without heartbeats is not taken for ready much longer than
\* the three intervals of checkInstances, whichever instance checks, and
\* though runs of the check are cut off by crashes: after two more intervals
\* a check has read the late heartbeat and marked it.
DeadNotReadyForLong ==
  \A i \in Instances : inst[i].ready => inst[i].age <= Late + 2

\* An instance that serves is marked ready, again and again if need be.
ServingBecomesReady ==
  \A i \in Instances : []<>(inst[i].ready \/ ~Serving(i))

\* An instance that does not serve any more is marked unready.
GoneBecomesUnready ==
  \A i \in Instances : ~Serving(i) ~> (~inst[i].ready \/ Serving(i))

\* A ready instance whose heartbeat is not late stays ready: pulse takes
\* "the advisory lock ... to prevent the race conditions" of its read and
\* write (healthcheck_server.go).
ReadyNotRevoked ==
  [][\A i \in Instances :
       inst[i].ready /\ inst[i].age < Late => inst'[i].ready]_inst
====
