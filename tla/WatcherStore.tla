---------------------------- MODULE WatcherStore ----------------------------
(***************************************************************************)
(* The watch of a gRPC source client (pkg/client/cloudevents/grpcsource:   *)
(* watcherstore.go, watch.go): what a client sees of one work. The store   *)
(* lists works into a queue for a new watcher (GetWatcher) and after a     *)
(* reconnect (Sync), and receives status updates from the subscription.    *)
(* Two goroutines hand them on: the one of the queue and the one of the    *)
(* stream; each holds the store's read lock until the watcher has read.    *)
(***************************************************************************)
EXTENDS Naturals, Sequences

CONSTANTS
  MaxVersion,   \* bound on the versions of the work
  MaxStops,     \* bound on calls of Stop
  MaxWatches,   \* bound on calls of GetWatcher
  MaxBreaks     \* bound on breaks of the stream

ASSUME BoundsAssumption ==
  MaxVersion \in Nat /\ MaxStops \in Nat /\ MaxWatches \in Nat /\ MaxBreaks \in Nat

VARIABLES
  server,    \* the version of the work on the Maestro server
  connected, \* the stream is up
  stream,    \* the updates in the stream, in order
  queue,     \* workQueue: the listed version of the work, 0 if none
  sync,      \* the run of Sync: listed version, 0 if none
  sender,    \* the goroutines of the stream and the queue
  watcher,   \* the registered watcher: "none", "open", "stopped" or "closed"
  client,    \* the caller of GetWatcher and Stop, and what it saw last
  due,       \* updates that were sent while the client was watching
  count      \* versions, stops, watches, breaks so far

vars == <<server, connected, stream, queue, sync, sender, watcher, client, due, count>>

-----------------------------------------------------------------------------
Versions == 0..MaxVersion
Senders == {"stream", "queue"}

\* "waiting" for the read lock with an event; "sending" with the lock held.
Sender == [pc: {"idle", "waiting", "sending", "panicked"}, version: Versions]

\* "registering" waits for, or holds, the write lock of the store.
Client == [pc: {"idle", "registering", "adding", "watching", "panicked"},
           listed: Versions, seen: Versions]

IdleSender == [pc |-> "idle", version |-> 0]

TypeOK ==
  /\ server \in Versions
  /\ connected \in BOOLEAN
  /\ stream \in Seq(Versions)
  /\ queue \in Versions
  /\ sync \in Versions
  /\ sender \in [Senders -> Sender]
  /\ watcher \in {"none", "open", "stopped", "closed"}
  /\ client \in Client
  /\ client.pc = "watching" => watcher = "open"
  /\ due \subseteq Versions
  /\ count \in [stops: 0..MaxStops, watches: 0..MaxWatches, breaks: 0..MaxBreaks]

Init ==
  /\ server = 1
  /\ connected = TRUE
  /\ stream = <<>>
  /\ queue = 0
  /\ sync = 0
  /\ sender = [s \in Senders |-> IdleSender]
  /\ watcher = "none"
  /\ client = [pc |-> "idle", listed |-> 0, seen |-> 0]
  /\ due = {}
  /\ count = [stops |-> 0, watches |-> 0, breaks |-> 0]

-----------------------------------------------------------------------------
\* The status changes; the server broadcasts it to the stream.
StatusChanges ==
  /\ server < MaxVersion
  /\ server' = server + 1
  /\ stream' = IF connected THEN Append(stream, server + 1) ELSE stream
  /\ due' = IF connected /\ client.pc = "watching" THEN due \union {server + 1} ELSE due
  /\ UNCHANGED <<connected, queue, sync, sender, watcher, client, count>>

\* The stream breaks: what is in it is lost.
Break ==
  /\ connected
  /\ count.breaks < MaxBreaks
  /\ count' = [count EXCEPT !.breaks = @ + 1]
  /\ connected' = FALSE
  /\ stream' = <<>>
  /\ due' = {}
  /\ UNCHANGED <<server, queue, sync, sender, watcher, client>>

\* The stream is back, and Sync lists the works of the watchers under the read
\* lock. A waiting writer keeps new readers out.
SyncList ==
  /\ ~connected
  /\ client.pc # "registering"
  /\ connected' = TRUE
  /\ sync' = IF watcher = "none" THEN 0 ELSE server
  /\ UNCHANGED <<server, stream, queue, sender, watcher, client, due, count>>

\* Sync puts them in the queue, which has one place for a work.
SyncAdd ==
  /\ sync # 0
  /\ queue' = sync
  /\ sync' = 0
  /\ UNCHANGED <<server, connected, stream, sender, watcher, client, due, count>>

\* GetWatcher: the works are listed first.
GetWatcher ==
  /\ client.pc = "idle"
  /\ count.watches < MaxWatches
  /\ count' = [count EXCEPT !.watches = @ + 1]
  /\ client' = [client EXCEPT !.pc = "registering", !.listed = server]
  /\ UNCHANGED <<server, connected, stream, queue, sync, sender, watcher, due>>

\* registerWatcher: a new watcher replaces one that is stopped.
RegisterWatcher ==
  /\ client.pc = "registering"
  /\ \A s \in Senders : sender[s].pc # "sending"
  /\ sync = 0
  /\ watcher' = "open"
  /\ client' = [client EXCEPT !.pc = "adding"]
  /\ UNCHANGED <<server, connected, stream, queue, sync, sender, due, count>>

\* GetWatcher: what was listed goes to the queue.
AddListed ==
  /\ client.pc = "adding"
  /\ queue' = client.listed
  /\ client' = [client EXCEPT !.pc = "watching", !.listed = 0]
  /\ UNCHANGED <<server, connected, stream, sync, sender, watcher, due, count>>

\* The stream's goroutine (HandleReceivedResource) and the queue's (process)
\* take an event.
TakeFromStream ==
  /\ sender["stream"].pc = "idle"
  /\ stream # <<>>
  /\ sender' = [sender EXCEPT !["stream"] = [pc |-> "waiting", version |-> Head(stream)]]
  /\ stream' = Tail(stream)
  /\ UNCHANGED <<server, connected, queue, sync, watcher, client, due, count>>

TakeFromQueue ==
  /\ sender["queue"].pc = "idle"
  /\ queue # 0
  /\ sender' = [sender EXCEPT !["queue"] = [pc |-> "waiting", version |-> queue]]
  /\ queue' = 0
  /\ UNCHANGED <<server, connected, stream, sync, watcher, client, due, count>>

\* Mutant: a watcher that is not reading just now is passed over.
SendWatchEvent_NoWait(s) ==
  /\ sender[s].pc = "waiting"
  /\ client.pc # "registering"
  /\ \/ sender' = [sender EXCEPT ![s] = IF watcher = "open" THEN [@ EXCEPT !.pc = "sending"]
                                                            ELSE IdleSender]
     \/ sender' = [sender EXCEPT ![s] = IdleSender]
  /\ UNCHANGED <<server, connected, stream, queue, sync, watcher, client, due, count>>

\* sendWatchEvent takes the read lock; Receive returns if the watcher is stopped.
SendWatchEvent(s) ==
  /\ sender[s].pc = "waiting"
  /\ client.pc # "registering"
  /\ sender' = [sender EXCEPT ![s] = IF watcher = "open" THEN [@ EXCEPT !.pc = "sending"]
                                                         ELSE IdleSender]
  /\ UNCHANGED <<server, connected, stream, queue, sync, watcher, client, due, count>>

\* Receive: the event is handed over when the client reads. Sending on a closed
\* channel panics.
Read(s) ==
  /\ sender[s].pc = "sending"
  /\ client.pc = "watching"
  /\ client' = [client EXCEPT !.seen = sender[s].version]
  /\ due' = due \ {sender[s].version}
  /\ sender' = [sender EXCEPT ![s] = IdleSender]
  /\ UNCHANGED <<server, connected, stream, queue, sync, watcher, count>>

\* Stop: the first call closes done, the second the result channel, and a third
\* closes it again. The client that stops reads no more.
Stop ==
  /\ client.pc \in {"idle", "watching"}
  /\ watcher # "none"
  /\ count.stops < MaxStops
  /\ count' = [count EXCEPT !.stops = @ + 1]
  /\ watcher' = IF watcher = "open" THEN "stopped" ELSE "closed"
  /\ client' = [client EXCEPT !.pc = IF watcher = "closed" THEN "panicked" ELSE "idle", !.seen = 0]
  /\ sender' = [s \in Senders |-> IF sender[s].pc = "sending" /\ watcher # "open"
                                  THEN [sender[s] EXCEPT !.pc = "panicked"] ELSE sender[s]]
  /\ due' = {}
  /\ UNCHANGED <<server, connected, stream, queue, sync>>

\* A panic ends the process.
Running == client.pc # "panicked" /\ \A s \in Senders : sender[s].pc # "panicked"

Next ==
  /\ Running
  /\ \/ StatusChanges \/ Break \/ SyncList \/ SyncAdd
     \/ GetWatcher \/ RegisterWatcher \/ AddListed \/ Stop
     \/ TakeFromStream \/ TakeFromQueue
     \/ \E s \in Senders : SendWatchEvent(s) \/ Read(s)

Spec == Init /\ [][Next]_vars

\* The goroutines run, the client reads as long as it watches, the stream is
\* set up again.
Fairness ==
  /\ WF_vars(Running /\ SyncList) /\ WF_vars(Running /\ SyncAdd)
  /\ WF_vars(Running /\ RegisterWatcher) /\ WF_vars(Running /\ AddListed)
  /\ WF_vars(Running /\ TakeFromStream) /\ WF_vars(Running /\ TakeFromQueue)
  /\ \A s \in Senders : WF_vars(Running /\ SendWatchEvent(s)) /\ WF_vars(Running /\ Read(s))

LiveSpec == Spec /\ Fairness

-----------------------------------------------------------------------------
\* An update that is broadcast while the client watches reaches the watch
\* channel, unless the stream breaks or the watch is stopped (docs/maestro.md:
\* "The Consumer watches this updated ManifestWork").
UpdatesReachWatcher ==
  \A v \in Versions : v \in due ~> v \notin due

\* The last thing a client that keeps watching sees of a work is its present
\* version, once versions stop changing.
WatcherSeesLatest ==
  <>[](client.pc = "watching" => client.seen = server)

\* Stop does not panic, nor make others panic: "Call Close() exactly once by
\* locking and setting a flag" (watch.go).
StopNeverPanics == Running

\* A client that stops its watch can watch again (test/e2e: "second watcher
\* should have processed events after restart").
WatchAgain == client.pc = "registering" ~> client.pc # "registering"
====
