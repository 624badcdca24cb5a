---------------------------- MODULE AdvisoryLocks ----------------------------
(***************************************************************************)
(* The advisory locks of one server instance and its pool of database      *)
(* connections (pkg/db: advisory_locks.go, transaction_middleware.go,      *)
(* transactions.go, db_session/default.go). A lock lives in a transaction, *)
(* hence on a connection of its own, held while the call waits for the     *)
(* lock and while it holds it; each statement of the call takes one more.  *)
(* A REST request keeps another, for the transaction of the middleware.    *)
(***************************************************************************)
EXTENDS Integers, FiniteSets

CONSTANTS
  Calls,          \* calls under way at a time
  Keys,           \* lock ids and types, hashed
  None,           \* no call
  Kinds,          \* the origins of calls, of AllKinds
  Pool,           \* --db-max-open-connections
  MaxStatements,  \* bound on the statements of a call
  Faults,         \* what may go wrong, of AllFaults
  MaxFaults       \* bound on how often

\* A REST request, a gRPC request, or a loop with the context of the process.
AllKinds == {"rest", "grpc", "background"}
\* A transaction cannot begin; its id cannot be read; the lock statement fails;
\* the client of a request goes away.
AllFaults == {"begin", "txid", "lock", "cancel"}

ASSUME NoneAssumption == None \notin Calls
ASSUME SetsAssumption == IsFiniteSet(Calls) /\ Keys # {}
ASSUME KindsAssumption == Kinds \subseteq AllKinds
ASSUME FaultsAssumption == Faults \subseteq AllFaults /\ MaxFaults \in Nat
ASSUME BoundsAssumption == Pool \in Nat \ {0} /\ MaxStatements \in Nat \ {0}

VARIABLES
  call,     \* the state of each call
  holder,   \* who holds each advisory lock
  leaked,   \* connections no one returns any more
  faults    \* faults so far

vars == <<call, holder, leaked, faults>>

-----------------------------------------------------------------------------
Places == {"idle", "middleware", "begin", "lock", "work", "statement", "unlock", "end"}

Call == [pc: Places, kind: AllKinds, key: Keys, mode: {"block", "try"},
         middleware: BOOLEAN,   \* the transaction of the middleware is open
         tx: BOOLEAN,           \* the transaction of the lock is open
         stored: BOOLEAN,       \* the lock is in the lock store
         left: 0..MaxStatements]

Free ==
  Pool - leaked - Cardinality({c \in Calls : call[c].middleware})
       - Cardinality({c \in Calls : call[c].tx})
       - Cardinality({c \in Calls : call[c].pc = "statement"})

TypeOK ==
  /\ call \in [Calls -> Call]
  /\ holder \in [Keys -> Calls \union {None}]
  /\ leaked \in 0..Pool
  /\ faults \in 0..MaxFaults
  /\ Free >= 0

Idle == [pc |-> "idle", kind |-> "grpc", key |-> CHOOSE k \in Keys : TRUE, mode |-> "block",
         middleware |-> FALSE, tx |-> FALSE, stored |-> FALSE, left |-> 0]

Init ==
  /\ call = [c \in Calls |-> Idle]
  /\ holder = [k \in Keys |-> None]
  /\ leaked = 0
  /\ faults = 0

Fault(f) ==
  /\ f \in Faults
  /\ faults < MaxFaults
  /\ faults' = faults + 1

\* The end of the lock's transaction releases the lock it holds.
Released(c) == [k \in Keys |-> IF holder[k] = c THEN None ELSE holder[k]]

-----------------------------------------------------------------------------
\* A call comes in: MarkAsDeleting of a REST request, any operation of a gRPC
\* request, a loop. Blocking locks protect rows, the others elect a worker.
Start(c, kind, k, mode) ==
  /\ call[c].pc = "idle"
  /\ call' = [call EXCEPT ![c] = [Idle EXCEPT !.pc = IF kind = "rest" THEN "middleware" ELSE "begin",
                                              !.kind = kind, !.key = k, !.mode = mode,
                                              !.left = MaxStatements]]
  /\ UNCHANGED <<holder, leaked, faults>>

\* TransactionMiddleware: begins a transaction that the request never uses.
Middleware(c) ==
  /\ call[c].pc = "middleware"
  /\ Free > 0
  /\ call' = [call EXCEPT ![c].pc = "begin", ![c].middleware = TRUE]
  /\ UNCHANGED <<holder, leaked, faults>>

\* newTransaction: begun, but the id cannot be read; the transaction is dropped.
MiddlewareLeaks(c) ==
  /\ call[c].pc = "middleware"
  /\ Free > 0
  /\ Fault("txid")
  /\ leaked' = leaked + 1
  /\ call' = [call EXCEPT ![c].pc = "end"]
  /\ UNCHANGED holder

\* newAdvisoryLock: the transaction of the lock.
Begin(c) ==
  /\ call[c].pc = "begin"
  /\ Free > 0
  /\ call' = [call EXCEPT ![c].pc = "lock", ![c].tx = TRUE]
  /\ UNCHANGED <<holder, leaked, faults>>

BeginFails(c) ==
  /\ call[c].pc \in {"middleware", "begin"}
  /\ Fault("begin")
  /\ call' = [call EXCEPT ![c].pc = "end"]
  /\ UNCHANGED <<holder, leaked>>

\* NewAdvisoryLock.
Lock(c) ==
  /\ call[c].pc = "lock"
  /\ call[c].mode = "block"
  /\ holder[call[c].key] = None
  /\ holder' = [holder EXCEPT ![call[c].key] = c]
  /\ call' = [call EXCEPT ![c].pc = "work", ![c].stored = TRUE]
  /\ UNCHANGED <<leaked, faults>>

\* Mutant: the answer of pg_try_advisory_xact_lock is not looked at.
TryLock_Ignored(c) ==
  /\ call[c].pc = "lock"
  /\ call[c].mode = "try"
  /\ holder' = [holder EXCEPT ![call[c].key] = IF @ = None THEN c ELSE @]
  /\ call' = [call EXCEPT ![c].pc = "work", ![c].stored = TRUE]
  /\ UNCHANGED <<leaked, faults>>

\* NewNonBlockingLock: without the lock the caller is done.
TryLock(c) ==
  /\ call[c].pc = "lock"
  /\ call[c].mode = "try"
  /\ holder' = [holder EXCEPT ![call[c].key] = IF @ = None THEN c ELSE @]
  /\ call' = [call EXCEPT ![c].pc = IF holder[call[c].key] = None THEN "work" ELSE "unlock",
                          ![c].stored = TRUE]
  /\ UNCHANGED <<leaked, faults>>

\* Both: the statement fails; the id of the lock is returned, yet the lock is
\* not in the store.
LockFails(c) ==
  /\ call[c].pc = "lock"
  /\ Fault("lock")
  /\ call' = [call EXCEPT ![c].pc = "unlock"]
  /\ UNCHANGED <<holder, leaked>>

\* A statement of the call, on a connection of the pool.
Issue(c) ==
  /\ call[c].pc = "work"
  /\ Free > 0
  /\ call' = [call EXCEPT ![c].pc = "statement", ![c].left = @ - 1]
  /\ UNCHANGED <<holder, leaked, faults>>

\* Its end: the call goes on, or returns. Nothing goes on without its context.
Done(c, more) ==
  /\ call[c].pc = "statement"
  /\ more => call[c].left > 0 /\ call[c].tx
  /\ call' = [call EXCEPT ![c].pc = IF more THEN "work" ELSE "unlock"]
  /\ UNCHANGED <<holder, leaked, faults>>

\* Mutant: Unlock waits for a lock that is not in the store.
Unlock_Waits(c) ==
  /\ call[c].pc = "unlock"
  /\ call[c].stored
  /\ call' = [call EXCEPT ![c].pc = "end", ![c].stored = FALSE, ![c].tx = FALSE]
  /\ holder' = Released(c)
  /\ UNCHANGED <<leaked, faults>>

\* Mutant: a lock of the session, which outlives the transaction.
Unlock_SessionLock(c) ==
  /\ call[c].pc = "unlock"
  /\ call' = [call EXCEPT ![c].pc = "end", ![c].stored = FALSE, ![c].tx = @ /\ ~call[c].stored]
  /\ UNCHANGED <<holder, leaked, faults>>

\* Unlock, deferred by every caller: a lock of the store is committed.
Unlock(c) ==
  /\ call[c].pc = "unlock"
  /\ call' = [call EXCEPT ![c].pc = "end", ![c].stored = FALSE, ![c].tx = @ /\ ~call[c].stored]
  /\ holder' = IF call[c].stored THEN Released(c) ELSE holder
  /\ UNCHANGED <<leaked, faults>>

\* The call is over: Resolve ends the transaction of the middleware, and the
\* end of a request's context rolls back a transaction that is still open. The
\* context of a loop does not end.
End(c) ==
  /\ call[c].pc = "end"
  /\ call' = [call EXCEPT ![c] = Idle]
  /\ leaked' = IF call[c].tx /\ call[c].kind = "background" THEN leaked + 1 ELSE leaked
  /\ holder' = IF call[c].kind = "background" THEN holder ELSE Released(c)
  /\ UNCHANGED faults

\* The context of a request ends early: the lock's transaction is rolled back
\* at once, on its own connection. A statement under way may still be executed.
Cancel(c) ==
  /\ call[c].kind # "background"
  /\ call[c].pc \in {"begin", "lock", "work", "statement"}
  /\ Fault("cancel")
  /\ call' = [call EXCEPT ![c].tx = FALSE,
                          ![c].pc = IF @ = "statement" THEN @ ELSE "unlock"]
  /\ holder' = Released(c)
  /\ UNCHANGED leaked

Step(c) ==
  \/ Middleware(c) \/ Begin(c) \/ Lock(c) \/ TryLock(c) \/ Issue(c)
  \/ Done(c, FALSE) \/ Unlock(c) \/ End(c)

Next ==
  \E c \in Calls :
    \/ \E kind \in Kinds, k \in Keys, mode \in {"block", "try"} : Start(c, kind, k, mode)
    \/ Step(c) \/ Done(c, TRUE)
    \/ MiddlewareLeaks(c) \/ BeginFails(c) \/ LockFails(c) \/ Cancel(c)

Spec == Init /\ [][Next]_vars

\* The pool hands out connections in the order of the requests, PostgreSQL its
\* locks in the order of the waiters: who waits is not overtaken for ever.
Fairness == \A c \in Calls : SF_vars(Step(c))

LiveSpec == Spec /\ Fairness

-----------------------------------------------------------------------------
\* While a statement of a call runs nobody else holds the call's lock: "the
\* advisory lock is used here to prevent the race conditions" of concurrent
\* reads, modifications and writes (Update, UpdateStatus, MarkAsDeleting).
StatementsUnderLock ==
  \A c \in Calls : call[c].pc = "statement" => holder[call[c].key] \in {c, None}

\* The same for calls that were not cancelled: a call whose transaction is open
\* runs its statements as the holder of its lock, whatever else fails.
OpenCallsUnderLock ==
  \A c \in Calls : call[c].pc = "statement" /\ call[c].tx => holder[call[c].key] = c

\* A held lock belongs to a call whose transaction is open: no failure leaves
\* a lock behind that nobody will ever release.
LocksHaveOwners ==
  \A k \in Keys : holder[k] # None => call[holder[k]].tx /\ call[holder[k]].key = k

\* Every call ends: none waits for ever for a lock, or for a connection that
\* is held by others that wait as well.
CallsFinish == \A c \in Calls : call[c].pc # "idle" ~> call[c].pc = "idle"

\* When no call is under way all connections are back in the pool, as Unlock
\* is deferred to "ensure that the transaction related to this lock always end".
ConnectionsReturned ==
  (\A c \in Calls : call[c].pc = "idle") => Free = Pool
====
