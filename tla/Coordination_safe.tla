-------------------------- MODULE Coordination_safe --------------------------
(***************************************************************************)
(* What lets several instances work on one database, for every value of    *)
(* the constants: the advisory locks are held by the calls they protect    *)
(* and the pool is not overdrawn (AdvisoryLocks); an instance that stores  *)
(* no heartbeats is not taken for ready for long by whichever instance     *)
(* checks (ServerInstances); and delete requests that a source repeats do  *)
(* not pile up events, whichever instance takes them (DeleteRepublish).    *)
(***************************************************************************)
EXTENDS AdvisoryLocks, ServerInstances, DeleteRepublish, FiniteSetTheorems, TLAPS

\* The advisory locks of one instance, with any number of calls, keys,
\* connections and faults.
CallTypes ==
  /\ call \in [Calls -> Call]
  /\ holder \in [Keys -> Calls \union {None}]
  /\ leaked \in Nat
  /\ faults \in 0..MaxFaults

\* What the place of a call says about it. Only a call between the lock
\* statement and Unlock has the lock in the store, and one that works without
\* having been cancelled is the holder.
Fits(c) ==
  /\ call[c].pc \in {"idle", "middleware", "begin"} => ~call[c].tx
  /\ call[c].pc \in {"idle", "middleware", "begin", "lock", "end"} => ~call[c].stored
  /\ call[c].pc \in {"middleware", "begin", "lock", "work"} => call[c].left > 0
  /\ call[c].pc \in {"lock", "work"} => call[c].tx
  /\ call[c].pc \in {"work", "statement"} /\ call[c].tx => holder[call[c].key] = c

\* The holder of a lock is a call that will release it: its transaction is open
\* and its lock is in the store, so that Unlock finds it.
HoldersRelease ==
  \A k \in Keys : holder[k] # None =>
    call[holder[k]].tx /\ call[holder[k]].stored /\ call[holder[k]].key = k

LockInv == CallTypes /\ (\A c \in Calls : Fits(c)) /\ HoldersRelease

-----------------------------------------------------------------------------
LEMMA CallRecords ==
  /\ \A c \in Call : /\ c.pc \in Places /\ c.kind \in AllKinds /\ c.key \in Keys
                     /\ c.mode \in {"block", "try"} /\ c.middleware \in BOOLEAN /\ c.tx \in BOOLEAN
                     /\ c.stored \in BOOLEAN /\ c.left \in 0..MaxStatements
  /\ Idle \in Call
  /\ Idle.pc = "idle" /\ ~Idle.tx /\ ~Idle.stored /\ ~Idle.middleware
<1>1. (CHOOSE k \in Keys : TRUE) \in Keys
  BY SetsAssumption
<1> QED
  BY <1>1, BoundsAssumption DEF Call, Idle, Places, AllKinds

\* The lock's transaction of a call ends: its lock is free, others stay.
LEMMA ReleasedLocks ==
  ASSUME holder \in [Keys -> Calls \union {None}], NEW c \in Calls
  PROVE  /\ Released(c) \in [Keys -> Calls \union {None}]
         /\ \A k \in Keys : Released(c)[k] # c
         /\ \A k \in Keys : Released(c)[k] = holder[k] \/ (holder[k] = c /\ Released(c)[k] = None)
BY NoneAssumption DEF Released

\* A step of one call that takes a free lock, or gives up locks it holds, leaves
\* the others as they are.
LEMMA OneCall ==
  ASSUME LockInv, NEW c \in Calls, CallTypes', Fits(c)',
         \A d \in Calls \ {c} : call'[d] = call[d],
         \A k \in Keys : \/ holder'[k] = holder[k]
                         \/ holder[k] = None /\ holder'[k] = c
                         \/ holder[k] = c /\ holder'[k] = None,
         \A k \in Keys : holder'[k] = c => call'[c].tx /\ call'[c].stored /\ call'[c].key = k
  PROVE  LockInv'
<1>0. /\ \A d \in Calls : call[d] \in Call /\ call[d].key \in Keys
      /\ \A k \in Keys : holder[k] \in Calls \union {None} /\ holder'[k] \in Calls \union {None}
  BY CallRecords DEF LockInv, CallTypes
<1>1. \A d \in Calls \ {c} : Fits(d)'
  <2> SUFFICES ASSUME NEW d \in Calls \ {c} PROVE Fits(d)'
    OBVIOUS
  <2>1. Fits(d) /\ call'[d] = call[d] /\ call[d].key \in Keys
    BY <1>0 DEF LockInv
  <2>2. holder[call[d].key] = d => holder'[call[d].key] = d
    BY <2>1, NoneAssumption
  <2> QED
    BY <2>1, <2>2 DEF Fits
<1>2. HoldersRelease'
  <2> SUFFICES ASSUME NEW k \in Keys, holder'[k] # None
               PROVE  call'[holder'[k]].tx /\ call'[holder'[k]].stored /\ call'[holder'[k]].key = k
    BY DEF HoldersRelease
  <2>1. CASE holder'[k] = c
    BY <2>1
  <2>2. CASE holder'[k] # c
    <3>1. holder'[k] = holder[k] /\ holder[k] \in Calls \ {c}
      BY <1>0, <2>2
    <3> QED
      BY <3>1 DEF LockInv, HoldersRelease
  <2> QED
    BY <2>1, <2>2
<1> QED
  BY <1>1, <1>2 DEF LockInv

-----------------------------------------------------------------------------
LEMMA InitLocks == Init => LockInv
<1> SUFFICES ASSUME Init PROVE LockInv
  OBVIOUS
<1>1. CallTypes
  BY CallRecords, FaultsAssumption DEF Init, CallTypes
<1>2. \A c \in Calls : call[c] = Idle
  BY DEF Init
<1>3. \A c \in Calls : Fits(c)
  BY <1>2, CallRecords DEF Fits
<1>4. HoldersRelease
  BY DEF Init, HoldersRelease
<1> QED
  BY <1>1, <1>3, <1>4 DEF LockInv

LEMMA StepLocks ==
  ASSUME LockInv, [Next]_vars
  PROVE  LockInv'
<1>0. /\ call \in [Calls -> Call] /\ holder \in [Keys -> Calls \union {None}]
      /\ leaked \in Nat /\ faults \in 0..MaxFaults /\ MaxFaults \in Nat
      /\ \A c \in Calls : Fits(c)
      /\ \A c \in Calls : call[c] \in Call /\ call[c].left \in 0..MaxStatements /\ call[c].key \in Keys
      /\ MaxStatements \in Nat \ {0}
  BY CallRecords, FaultsAssumption, BoundsAssumption DEF LockInv, CallTypes
<1>h. ASSUME NEW c \in Calls, NEW k \in Keys, holder[k] = c
      PROVE  call[c].tx /\ call[c].stored /\ call[c].key = k
  BY <1>h, NoneAssumption DEF LockInv, HoldersRelease
<1>f. ASSUME NEW f, Fault(f) PROVE faults' \in 0..MaxFaults
  BY <1>0, <1>f DEF Fault
<1>1. ASSUME NEW c \in Calls, NEW kind \in Kinds, NEW k \in Keys, NEW mode \in {"block", "try"},
             Start(c, kind, k, mode)
      PROVE  LockInv'
  <2> DEFINE new == [Idle EXCEPT !.pc = IF kind = "rest" THEN "middleware" ELSE "begin",
                                 !.kind = kind, !.key = k, !.mode = mode, !.left = MaxStatements]
  <2>1. /\ new \in Call /\ new.pc \in {"middleware", "begin"} /\ new.left = MaxStatements
        /\ ~new.tx /\ ~new.stored
    <3>1. kind \in AllKinds /\ MaxStatements \in 0..MaxStatements
      BY <1>0, KindsAssumption
    <3>2. /\ new.pc = (IF kind = "rest" THEN "middleware" ELSE "begin") /\ new.left = MaxStatements
          /\ new.tx = Idle.tx /\ new.stored = Idle.stored
      BY DEF Idle
    <3>3. new \in Call
      BY <3>1, CallRecords, ZenonT(30) DEF Call, Places
    <3> QED
      BY <3>2, <3>3, CallRecords
  <2>2. call' = [call EXCEPT ![c] = new] /\ UNCHANGED <<holder, leaked, faults>> /\ call[c].pc = "idle"
    BY <1>1 DEF Start
  <2>3. call'[c] = new /\ call' \in [Calls -> Call] /\ \A d \in Calls \ {c} : call'[d] = call[d]
    BY <1>0, <2>1, <2>2
  <2>4. Fits(c)'
    BY <1>0, <2>1, <2>3 DEF Fits
  <2>5. \A q \in Keys : holder'[q] # c
    BY <1>0, <1>h, <2>2 DEF Fits
  <2>6. CallTypes'
    BY <1>0, <2>2, <2>3 DEF CallTypes
  <2> QED
    BY <2>2, <2>3, <2>4, <2>5, <2>6, OneCall
<1>2. ASSUME NEW c \in Calls, Middleware(c) \/ Begin(c) \/ MiddlewareLeaks(c) \/ BeginFails(c)
      PROVE  LockInv'
  <2>1. /\ call[c].pc \in {"middleware", "begin"} /\ UNCHANGED holder
        /\ faults' \in 0..MaxFaults /\ leaked' \in Nat
    BY <1>0, <1>2, <1>f DEF Middleware, Begin, MiddlewareLeaks, BeginFails
  <2>2. /\ call' \in [Calls -> Call] /\ \A d \in Calls \ {c} : call'[d] = call[d]
        /\ call'[c].pc \in {"begin", "lock", "end"} /\ call'[c].left = call[c].left
        /\ call'[c].stored = call[c].stored
        /\ call'[c].pc = "begin" => call'[c].tx = call[c].tx
        /\ call'[c].pc = "lock" => call'[c].tx
    BY <1>0, <1>2 DEF Middleware, Begin, MiddlewareLeaks, BeginFails, Call, Places
  <2>3. Fits(c)'
    BY <1>0, <2>1, <2>2 DEF Fits
  <2>4. \A q \in Keys : holder'[q] # c
    BY <1>0, <1>h, <2>1 DEF Fits
  <2>5. CallTypes'
    BY <1>0, <2>1, <2>2 DEF CallTypes
  <2> QED
    BY <2>1, <2>2, <2>3, <2>4, <2>5, OneCall
<1>3. ASSUME NEW c \in Calls, Lock(c) \/ TryLock(c), holder[call[c].key] = None
      PROVE  LockInv'
  <2>1. /\ call[c].pc = "lock" /\ UNCHANGED <<leaked, faults>>
        /\ holder' = [holder EXCEPT ![call[c].key] = c]
    BY <1>0, <1>3 DEF Lock, TryLock
  <2>2. /\ call' \in [Calls -> Call] /\ \A d \in Calls \ {c} : call'[d] = call[d]
        /\ call'[c].pc = "work" /\ call'[c].stored
        /\ call'[c].left = call[c].left /\ call'[c].tx = call[c].tx /\ call'[c].key = call[c].key
    BY <1>0, <1>3, SMTT(30) DEF Lock, TryLock, Call, Places
  <2>3. \A q \in Keys : holder[q] # c
    BY <1>0, <1>h, <2>1 DEF Fits
  <2>4. Fits(c)'
    BY <1>0, <2>1, <2>2 DEF Fits
  <2>5. CallTypes'
    BY <1>0, <2>1, <2>2 DEF CallTypes
  <2>6. call[c].tx
    BY <1>0, <2>1 DEF Fits
  <2>7. /\ \A q \in Keys : holder'[q] = holder[q] \/ (holder[q] = None /\ holder'[q] = c)
        /\ \A q \in Keys : holder'[q] = c => q = call[c].key
    BY <1>0, <1>3, <2>1, <2>3
  <2> QED
    BY ZenonT(30), <2>2, <2>4, <2>5, <2>6, <2>7, OneCall
<1>4. ASSUME NEW c \in Calls, TryLock(c), holder[call[c].key] # None
      PROVE  LockInv'
  <2>1. call[c].pc = "lock" /\ UNCHANGED <<leaked, faults>> /\ holder' = holder
    BY <1>0, <1>4 DEF TryLock
  <2>2. /\ call' \in [Calls -> Call] /\ \A d \in Calls \ {c} : call'[d] = call[d]
        /\ call'[c].pc = "unlock"
    <3>1. call' = [call EXCEPT ![c] = [call[c] EXCEPT !.pc = "unlock", !.stored = TRUE]]
      BY <1>0, <1>4, ZenonT(30) DEF TryLock
    <3>2. [call[c] EXCEPT !.pc = "unlock", !.stored = TRUE] \in Call
      BY <1>0, ZenonT(30) DEF Call, Places
    <3> QED
      BY <1>0, <3>1, <3>2 DEF Call
  <2>3. \A q \in Keys : holder'[q] # c
    BY <1>0, <1>h, <2>1 DEF Fits
  <2>4. Fits(c)'
    BY <2>2 DEF Fits
  <2>5. CallTypes'
    BY <1>0, <2>1, <2>2 DEF CallTypes
  <2> QED
    BY <2>1, <2>2, <2>3, <2>4, <2>5, OneCall
<1>5. ASSUME NEW c \in Calls, LockFails(c)
      PROVE  LockInv'
  <2>1. call[c].pc = "lock" /\ UNCHANGED <<holder, leaked>> /\ faults' \in 0..MaxFaults
    BY <1>5, <1>f DEF LockFails
  <2>2. /\ call' \in [Calls -> Call] /\ \A d \in Calls \ {c} : call'[d] = call[d]
        /\ call'[c].pc = "unlock"
    BY <1>0, <1>5 DEF LockFails, Call, Places
  <2>3. \A q \in Keys : holder'[q] # c
    BY <1>0, <1>h, <2>1 DEF Fits
  <2>4. Fits(c)'
    BY <2>2 DEF Fits
  <2>5. CallTypes'
    BY <1>0, <2>1, <2>2 DEF CallTypes
  <2> QED
    BY <2>1, <2>2, <2>3, <2>4, <2>5, OneCall
<1>6. ASSUME NEW c \in Calls, NEW more \in BOOLEAN, Issue(c) \/ Done(c, more)
      PROVE  LockInv'
  <2>1. /\ call[c].pc \in {"work", "statement"} /\ UNCHANGED <<holder, leaked, faults>>
    BY <1>6 DEF Issue, Done
  <2>2. /\ call' \in [Calls -> Call] /\ \A d \in Calls \ {c} : call'[d] = call[d]
        /\ call'[c].pc \in {"work", "statement", "unlock"}
        /\ call'[c].tx = call[c].tx /\ call'[c].stored = call[c].stored /\ call'[c].key = call[c].key
        /\ call'[c].pc = "work" => call[c].tx /\ call'[c].left > 0
    <3>1. CASE Issue(c)
      BY <1>0, <3>1 DEF Issue, Fits, Call, Places
    <3>2. CASE Done(c, more)
      BY <1>0, <3>2 DEF Done, Call, Places
    <3> QED
      BY <1>6, <3>1, <3>2
  <2>3. \A q \in Keys : holder'[q] = c => call'[c].tx /\ call'[c].stored /\ call'[c].key = q
    BY <1>h, <2>1, <2>2
  <2>4. Fits(c)'
    BY <1>0, <2>1, <2>2 DEF Fits
  <2>5. CallTypes'
    BY <1>0, <2>1, <2>2 DEF CallTypes
  <2> QED
    BY <2>1, <2>2, <2>3, <2>4, <2>5, OneCall
<1>7. ASSUME NEW c \in Calls, Unlock(c)
      PROVE  LockInv'
  <2>1. /\ call[c].pc = "unlock" /\ UNCHANGED <<leaked, faults>>
        /\ holder' = IF call[c].stored THEN Released(c) ELSE holder
    BY <1>7 DEF Unlock
  <2>2. /\ call' \in [Calls -> Call] /\ \A d \in Calls \ {c} : call'[d] = call[d]
        /\ call'[c].pc = "end" /\ ~call'[c].stored
    <3> DEFINE open == call[c].tx /\ ~call[c].stored
    <3>1. call' = [call EXCEPT ![c] = [call[c] EXCEPT !.pc = "end", !.stored = FALSE, !.tx = open]]
      BY <1>0, <1>7, ZenonT(30) DEF Unlock, Call
    <3>2. open \in BOOLEAN
      OBVIOUS
    <3> HIDE DEF open
    <3>3. [call[c] EXCEPT !.pc = "end", !.stored = FALSE, !.tx = open] \in Call
      BY ZenonT(30), <1>0, <3>2 DEF Call, Places
    <3> QED
      BY <1>0, <3>1, <3>3 DEF Call
  <2>3. \A q \in Keys : holder'[q] # c /\ (holder'[q] = holder[q] \/ (holder[q] = c /\ holder'[q] = None))
    BY <1>0, <1>h, <2>1, ReleasedLocks DEF Fits
  <2>4. Fits(c)'
    BY <2>2 DEF Fits
  <2>5. CallTypes'
    BY <1>0, <2>1, <2>2, ReleasedLocks DEF CallTypes
  <2> QED
    BY <2>1, <2>2, <2>3, <2>4, <2>5, OneCall
<1>8. ASSUME NEW c \in Calls, End(c)
      PROVE  LockInv'
  <2>1. /\ call[c].pc = "end" /\ UNCHANGED faults /\ leaked' \in Nat
        /\ holder' = Released(c) \/ holder' = holder
    BY <1>0, <1>8 DEF End
  <2>2. call' \in [Calls -> Call] /\ (\A d \in Calls \ {c} : call'[d] = call[d]) /\ call'[c] = Idle
    BY <1>0, <1>8, CallRecords DEF End
  <2>3. \A q \in Keys : holder'[q] # c /\ (holder'[q] = holder[q] \/ (holder[q] = c /\ holder'[q] = None))
    BY <1>0, <1>h, <2>1, ReleasedLocks DEF Fits
  <2>4. Fits(c)'
    BY <2>2, CallRecords DEF Fits
  <2>5. CallTypes'
    BY <1>0, <2>1, <2>2, ReleasedLocks DEF CallTypes
  <2> QED
    BY <2>1, <2>2, <2>3, <2>4, <2>5, OneCall
<1>9. ASSUME NEW c \in Calls, Cancel(c)
      PROVE  LockInv'
  <2>1. /\ call[c].pc \in {"begin", "lock", "work", "statement"} /\ UNCHANGED leaked
        /\ holder' = Released(c) /\ faults' \in 0..MaxFaults
    BY <1>9, <1>f DEF Cancel
  <2>2. /\ call' \in [Calls -> Call] /\ \A d \in Calls \ {c} : call'[d] = call[d]
        /\ call'[c].pc \in {"statement", "unlock"} /\ ~call'[c].tx
    <3> DEFINE next == IF call[c].pc = "statement" THEN "statement" ELSE "unlock"
    <3>1. call' = [call EXCEPT ![c] = [call[c] EXCEPT !.tx = FALSE, !.pc = next]]
      BY <1>0, <1>9, ZenonT(30) DEF Cancel, Call
    <3>2. next \in {"statement", "unlock"}
      OBVIOUS
    <3> HIDE DEF next
    <3>3. [call[c] EXCEPT !.tx = FALSE, !.pc = next] \in Call
      BY ZenonT(30), <1>0, <3>2 DEF Call, Places
    <3> QED
      BY <1>0, <3>1, <3>2, <3>3 DEF Call
  <2>3. \A q \in Keys : holder'[q] # c /\ (holder'[q] = holder[q] \/ (holder[q] = c /\ holder'[q] = None))
    BY <1>0, <1>h, <2>1, ReleasedLocks DEF Fits
  <2>4. Fits(c)'
    BY <2>2 DEF Fits
  <2>5. CallTypes'
    BY <1>0, <2>1, <2>2, ReleasedLocks DEF CallTypes
  <2> QED
    BY <2>1, <2>2, <2>3, <2>4, <2>5, OneCall
<1>10. CASE UNCHANGED vars
  BY <1>10 DEF vars, LockInv, CallTypes, Fits, HoldersRelease
<1>11. ASSUME NEW c \in Calls, Step(c) \/ Done(c, TRUE) PROVE LockInv'
  <2>1. CASE Middleware(c) \/ Begin(c)
    BY <1>2, <2>1
  <2>2. CASE Lock(c) \/ TryLock(c)
    <3>1. Lock(c) => holder[call[c].key] = None
      BY DEF Lock
    <3> QED
      BY <1>3, <1>4, <2>2, <3>1
  <2>3. CASE Issue(c) \/ Done(c, FALSE) \/ Done(c, TRUE)
    BY ZenonT(30), <1>6, <2>3
  <2>4. CASE Unlock(c) \/ End(c)
    BY <1>7, <1>8, <2>4
  <2> QED
    BY <1>11, <2>1, <2>2, <2>3, <2>4, ZenonT(30) DEF Step
<1>12. ASSUME NEW c \in Calls, MiddlewareLeaks(c) \/ BeginFails(c) \/ LockFails(c) \/ Cancel(c)
       PROVE  LockInv'
  BY <1>2, <1>5, <1>9, <1>12, SMTT(30)
<1> QED
  BY <1>1, <1>10, <1>11, <1>12, ZenonT(30) DEF Next

-----------------------------------------------------------------------------
\* The calls that hold a connection, for each of the three reasons.
InMiddleware == {c \in Calls : call[c].middleware}
InLock == {c \in Calls : call[c].tx}
InStatement == {c \in Calls : call[c].pc = "statement"}

LEMMA FreeCount ==
  /\ Free = Pool - leaked - Cardinality(InMiddleware) - Cardinality(InLock) - Cardinality(InStatement)
  /\ IsFiniteSet(InMiddleware) /\ IsFiniteSet(InLock) /\ IsFiniteSet(InStatement)
  /\ IsFiniteSet(InMiddleware') /\ IsFiniteSet(InLock') /\ IsFiniteSet(InStatement')
  /\ Free' = Pool - leaked' - Cardinality(InMiddleware') - Cardinality(InLock') - Cardinality(InStatement')
<1>1. /\ InMiddleware \subseteq Calls /\ InLock \subseteq Calls /\ InStatement \subseteq Calls
      /\ InMiddleware' \subseteq Calls /\ InLock' \subseteq Calls /\ InStatement' \subseteq Calls
  BY DEF InMiddleware, InLock, InStatement
<1>2. /\ IsFiniteSet(InMiddleware) /\ IsFiniteSet(InLock) /\ IsFiniteSet(InStatement)
      /\ IsFiniteSet(InMiddleware') /\ IsFiniteSet(InLock') /\ IsFiniteSet(InStatement')
  BY <1>1, SetsAssumption, FS_Subset
<1> QED
  BY <1>2 DEF Free, InMiddleware, InLock, InStatement

\* A set that one element joins at most, and one that an element leaves.
LEMMA OneMore ==
  ASSUME NEW S, NEW T, NEW x, IsFiniteSet(S), T \subseteq S \union {x}
  PROVE  Cardinality(T) \in Nat /\ Cardinality(S) \in Nat /\ Cardinality(T) <= Cardinality(S) + 1
<1>1. IsFiniteSet(S \union {x}) /\ Cardinality(S \union {x}) <= Cardinality(S) + 1 /\ Cardinality(S) \in Nat
  BY SMTT(30), FS_AddElement, FS_CardinalityType
<1>2. /\ IsFiniteSet(T) /\ Cardinality(T) <= Cardinality(S \union {x}) /\ Cardinality(T) \in Nat
      /\ Cardinality(S \union {x}) \in Nat
  BY <1>1, FS_Subset, FS_CardinalityType
<1> QED
  BY <1>1, <1>2

LEMMA NoMore ==
  ASSUME NEW S, NEW T, IsFiniteSet(S), T \subseteq S
  PROVE  /\ Cardinality(T) \in Nat /\ Cardinality(S) \in Nat /\ Cardinality(T) <= Cardinality(S)
         /\ \A x \in S : x \notin T => Cardinality(T) + 1 <= Cardinality(S)
<1>1. IsFiniteSet(T) /\ Cardinality(T) <= Cardinality(S) /\ Cardinality(T) \in Nat /\ Cardinality(S) \in Nat
  BY FS_Subset, FS_CardinalityType
<1>2. ASSUME NEW x \in S, x \notin T PROVE Cardinality(T) + 1 <= Cardinality(S)
  <2>1. IsFiniteSet(S \ {x}) /\ Cardinality(S \ {x}) = Cardinality(S) - 1
    BY FS_RemoveElement
  <2>2. T \subseteq S \ {x}
    BY <1>2
  <2>3. Cardinality(T) <= Cardinality(S \ {x})
    BY <2>1, <2>2, FS_Subset
  <2> QED
    BY <1>1, <2>1, <2>3
<1> QED
  BY <1>1, <1>2

LEMMA StepPool ==
  ASSUME LockInv, Free >= 0, [Next]_vars
  PROVE  Free' >= 0
<1>0. /\ call \in [Calls -> Call] /\ leaked \in Nat /\ Pool \in Nat
      /\ \A c \in Calls : call[c] \in Call
  BY BoundsAssumption DEF LockInv, CallTypes
<1>1. ASSUME UNCHANGED leaked, InMiddleware' \subseteq InMiddleware,
             InLock' \subseteq InLock, InStatement' \subseteq InStatement
      PROVE  Free' >= 0
  BY <1>0, <1>1, FreeCount, NoMore
\* A step of one call that takes a connection: one was free.
<1>2. ASSUME NEW c \in Calls, UNCHANGED leaked, Free > 0, InMiddleware' \subseteq InMiddleware \union {c},
             InLock' \subseteq InLock, InStatement' \subseteq InStatement
      PROVE  Free' >= 0
  <2>1. Cardinality(InMiddleware') <= Cardinality(InMiddleware) + 1 /\ Cardinality(InMiddleware') \in Nat /\ Cardinality(InMiddleware) \in Nat
    BY ZenonT(30), <1>2, FreeCount, OneMore
  <2>2. /\ Cardinality(InLock') <= Cardinality(InLock) /\ Cardinality(InLock') \in Nat /\ Cardinality(InLock) \in Nat
        /\ Cardinality(InStatement') <= Cardinality(InStatement) /\ Cardinality(InStatement') \in Nat /\ Cardinality(InStatement) \in Nat
    BY <1>2, FreeCount, NoMore
  <2> QED
    BY <1>0, <1>2, <2>1, <2>2, FreeCount
<1>3. ASSUME NEW c \in Calls, UNCHANGED leaked, Free > 0, InMiddleware' \subseteq InMiddleware,
             InLock' \subseteq InLock \union {c}, InStatement' \subseteq InStatement
      PROVE  Free' >= 0
  <2>1. Cardinality(InLock') <= Cardinality(InLock) + 1 /\ Cardinality(InLock') \in Nat /\ Cardinality(InLock) \in Nat
    BY ZenonT(30), <1>3, FreeCount, OneMore
  <2>2. /\ Cardinality(InMiddleware') <= Cardinality(InMiddleware) /\ Cardinality(InMiddleware') \in Nat /\ Cardinality(InMiddleware) \in Nat
        /\ Cardinality(InStatement') <= Cardinality(InStatement) /\ Cardinality(InStatement') \in Nat /\ Cardinality(InStatement) \in Nat
    BY <1>3, FreeCount, NoMore
  <2> QED
    BY <1>0, <1>3, <2>1, <2>2, FreeCount
<1>4. ASSUME NEW c \in Calls, UNCHANGED leaked, Free > 0, InMiddleware' \subseteq InMiddleware,
             InLock' \subseteq InLock, InStatement' \subseteq InStatement \union {c}
      PROVE  Free' >= 0
  <2>1. Cardinality(InStatement') <= Cardinality(InStatement) + 1 /\ Cardinality(InStatement') \in Nat /\ Cardinality(InStatement) \in Nat
    BY ZenonT(30), <1>4, FreeCount, OneMore
  <2>2. /\ Cardinality(InMiddleware') <= Cardinality(InMiddleware) /\ Cardinality(InMiddleware') \in Nat /\ Cardinality(InMiddleware) \in Nat
        /\ Cardinality(InLock') <= Cardinality(InLock) /\ Cardinality(InLock') \in Nat /\ Cardinality(InLock) \in Nat
    BY <1>4, FreeCount, NoMore
  <2> QED
    BY <1>0, <1>4, <2>1, <2>2, FreeCount
\* One that leaks a connection: a free one, or the one of the lock.
<1>5. ASSUME leaked' = leaked + 1, Free > 0, InMiddleware' \subseteq InMiddleware,
             InLock' \subseteq InLock, InStatement' \subseteq InStatement
      PROVE  Free' >= 0
  BY <1>0, <1>5, FreeCount, NoMore
<1>6. ASSUME NEW c \in Calls, leaked' = leaked + 1, InMiddleware' \subseteq InMiddleware,
             c \in InLock, InLock' \subseteq InLock \ {c}, InStatement' \subseteq InStatement
      PROVE  Free' >= 0
  <2>1. Cardinality(InLock') + 1 <= Cardinality(InLock) /\ Cardinality(InLock') \in Nat
    BY <1>6, FreeCount, NoMore
  <2> QED
    BY <1>0, <1>6, <2>1, FreeCount, NoMore
<1>7. ASSUME NEW c \in Calls, \A d \in Calls \ {c} : call'[d] = call[d]
      PROVE  /\ InMiddleware' \subseteq InMiddleware \union {c}
             /\ InLock' \subseteq InLock \union {c}
             /\ InStatement' \subseteq InStatement \union {c}
             /\ (call'[c].middleware => call[c].middleware) => InMiddleware' \subseteq InMiddleware
             /\ (call'[c].tx => call[c].tx) => InLock' \subseteq InLock
             /\ ~call'[c].tx => InLock' \subseteq InLock \ {c}
             /\ (call'[c].pc = "statement" => call[c].pc = "statement") => InStatement' \subseteq InStatement
  BY <1>7 DEF InMiddleware, InLock, InStatement
<1>8. ASSUME NEW c \in Calls, NEW kind \in Kinds, NEW k \in Keys, NEW mode \in {"block", "try"},
             Start(c, kind, k, mode)
      PROVE  Free' >= 0
  <2>1. /\ \A d \in Calls \ {c} : call'[d] = call[d]
        /\ UNCHANGED leaked
        /\ call'[c].pc # "statement" /\ call'[c].tx = Idle.tx /\ call'[c].middleware = Idle.middleware
    BY <1>0, <1>8 DEF Start, Idle
  <2> QED
    BY <1>1, <1>7, <2>1, CallRecords
<1>9. ASSUME NEW c \in Calls, Middleware(c) PROVE Free' >= 0
  <2>1. /\ \A d \in Calls \ {c} : call'[d] = call[d]
        /\ UNCHANGED leaked /\ Free > 0
        /\ call'[c].pc # "statement" /\ call'[c].tx = call[c].tx
    BY <1>0, <1>9 DEF Middleware, Call
  <2> QED
    BY <1>2, <1>7, <2>1
<1>10. ASSUME NEW c \in Calls, Begin(c) PROVE Free' >= 0
  <2>1. /\ \A d \in Calls \ {c} : call'[d] = call[d]
        /\ UNCHANGED leaked /\ Free > 0
        /\ call'[c].pc # "statement" /\ call'[c].middleware = call[c].middleware
    BY <1>0, <1>10 DEF Begin, Call
  <2> QED
    BY <1>3, <1>7, <2>1
<1>11. ASSUME NEW c \in Calls, Issue(c) PROVE Free' >= 0
  <2>1. /\ \A d \in Calls \ {c} : call'[d] = call[d]
        /\ UNCHANGED leaked /\ Free > 0
        /\ call'[c].tx = call[c].tx /\ call'[c].middleware = call[c].middleware
    BY <1>0, <1>11 DEF Issue, Call
  <2> QED
    BY <1>4, <1>7, <2>1
<1>12. ASSUME NEW c \in Calls, MiddlewareLeaks(c) PROVE Free' >= 0
  <2>1. /\ \A d \in Calls \ {c} : call'[d] = call[d]
        /\ leaked' = leaked + 1 /\ Free > 0
        /\ call'[c].pc # "statement"
        /\ call'[c].tx = call[c].tx /\ call'[c].middleware = call[c].middleware
    BY <1>0, <1>12 DEF MiddlewareLeaks, Call
  <2> QED
    BY <1>5, <1>7, <2>1
<1>13. ASSUME NEW c \in Calls, NEW more \in BOOLEAN,
              Lock(c) \/ TryLock(c) \/ BeginFails(c) \/ LockFails(c) \/ Done(c, more)
       PROVE  Free' >= 0
  <2>1. /\ \A d \in Calls \ {c} : call'[d] = call[d]
        /\ UNCHANGED leaked /\ call'[c].pc # "statement"
        /\ call'[c].tx = call[c].tx /\ call'[c].middleware = call[c].middleware
    BY <1>0, <1>13, SMTT(30) DEF Lock, TryLock, BeginFails, LockFails, Done, Call
  <2> QED
    BY <1>1, <1>7, <2>1
<1>14. ASSUME NEW c \in Calls, Unlock(c) \/ Cancel(c) PROVE Free' >= 0
  <2>1. /\ \A d \in Calls \ {c} : call'[d] = call[d]
        /\ UNCHANGED leaked /\ call'[c].middleware = call[c].middleware
        /\ call'[c].tx => call[c].tx
        /\ call'[c].pc = "statement" => call[c].pc = "statement"
    BY <1>0, <1>14 DEF Unlock, Cancel, Call
  <2> QED
    BY <1>1, <1>7, <2>1
<1>15. ASSUME NEW c \in Calls, End(c) PROVE Free' >= 0
  <2>1. (\A d \in Calls \ {c} : call'[d] = call[d]) /\ call'[c] = Idle
    BY <1>0, <1>15 DEF End
  <2>2. InMiddleware' \subseteq InMiddleware /\ InLock' \subseteq InLock \ {c} /\ InStatement' \subseteq InStatement
    BY <1>7, <2>1, CallRecords
  <2>3. CASE call[c].tx /\ call[c].kind = "background"
    BY <1>6, <1>15, <2>2, <2>3, SMTT(30) DEF End, InLock
  <2>4. CASE ~(call[c].tx /\ call[c].kind = "background")
    BY <1>1, <1>15, <2>2, <2>4 DEF End
  <2> QED
    BY <2>3, <2>4
<1>16. CASE UNCHANGED vars
  <2>1. UNCHANGED <<leaked, InMiddleware, InLock, InStatement>>
    BY <1>16 DEF vars, InMiddleware, InLock, InStatement
  <2> QED
    BY <1>1, <2>1
<1>17. ASSUME NEW c \in Calls, Step(c) \/ Done(c, TRUE) PROVE Free' >= 0
  BY <1>9, <1>10, <1>11, <1>13, <1>14, <1>15, <1>17, ZenonT(30) DEF Step
<1>18. ASSUME NEW c \in Calls, MiddlewareLeaks(c) \/ BeginFails(c) \/ LockFails(c) \/ Cancel(c)
       PROVE  Free' >= 0
  BY ZenonT(30), <1>12, <1>13, <1>14, <1>18
<1> QED
  BY <1>8, <1>16, <1>17, <1>18, ZenonT(30) DEF Next

LEMMA InitPool == Init => Free >= 0
<1> SUFFICES ASSUME Init PROVE Free >= 0
  OBVIOUS
<1>1. InMiddleware = {} /\ InLock = {} /\ InStatement = {}
  BY CallRecords DEF Init, InMiddleware, InLock, InStatement
<1>2. Cardinality({}) = 0
  BY FS_EmptySet
<1> QED
  BY <1>1, <1>2, FreeCount, BoundsAssumption DEF Init

-----------------------------------------------------------------------------
IInv == LockInv /\ Free >= 0

LEMMA AlwaysIInv == Spec => []IInv
<1>1. Init => IInv
  BY InitLocks, InitPool DEF IInv
<1>2. IInv /\ [Next]_vars => IInv'
  BY StepLocks, StepPool DEF IInv
<1> QED
  BY <1>1, <1>2, PTL DEF Spec

\* Every call is in one of its places with values of their kinds, and the pool
\* is never overdrawn: the connections of the middleware, of the locks, of the
\* statements and the leaked ones together are never more than Pool.
THEOREM PoolNotOverdrawn == Spec => []TypeOK
<1>1. IInv => TypeOK
  <2> SUFFICES ASSUME IInv PROVE TypeOK
    OBVIOUS
  <2>1. CallTypes /\ Free >= 0 /\ leaked \in Nat /\ Pool \in Nat
    BY BoundsAssumption DEF IInv, LockInv, CallTypes
  <2>2. leaked <= Pool
    BY SMTT(30), <2>1, FreeCount, FS_CardinalityType
  <2> QED
    BY <2>1, <2>2 DEF TypeOK, CallTypes
<1> QED
  BY <1>1, AlwaysIInv, PTL

\* A call whose lock transaction is open runs its statements as the holder of
\* its lock, whichever begin, lock statement or client fails on the way
\* (Update, UpdateStatus and MarkAsDeleting between NewAdvisoryLock and Unlock).
THEOREM StatementsOwnTheirLock == Spec => []OpenCallsUnderLock
<1>1. IInv => OpenCallsUnderLock
  BY DEF IInv, LockInv, Fits, OpenCallsUnderLock
<1> QED
  BY <1>1, AlwaysIInv, PTL

\* A held lock belongs to a call whose transaction is open and that asked for
\* this lock: no path through Unlock, Resolve or a cancelled context leaves a
\* lock behind.
THEOREM NoLockLeftBehind == Spec => []LocksHaveOwners
<1>1. IInv => LocksHaveOwners
  BY DEF IInv, LockInv, HoldersRelease, LocksHaveOwners
<1> QED
  BY <1>1, AlwaysIInv, PTL

-----------------------------------------------------------------------------
\* The health check, with any number of instances, crashes, failures and losses.

\* What a heartbeat of an instance that is marked ready may have come to. A
\* run of the check that was started before the last tick is the only one that
\* can have missed a late heartbeat; it has not completed in this interval, as
\* the next tick waits for one that does. So a run that is open has seen the
\* heartbeats as they are, or, if no run has completed yet, one interval ago.
OpenCheckRecent ==
  check.pc # "idle" => \A i \in Instances :
    LET since == IF checked THEN 0 ELSE 1 IN
    /\ i \in check.active => inst[i].age < Late + since
    /\ inst[i].ready /\ i \notin check.inactive => inst[i].age <= Late + since

ReadyNotLate ==
  \A i \in Instances :
    /\ inst[i].ready => inst[i].age <= IF checked THEN Late + 1 ELSE Late + 2
    /\ ~inst[i].row => inst[i].age = 0

HealthInv == HealthTypeOK /\ OpenCheckRecent /\ ReadyNotLate

-----------------------------------------------------------------------------
\* The records of the rows and of the two loops.
LEMMA Records ==
  /\ \A h \in Heartbeat : h.row \in BOOLEAN /\ h.ready \in BOOLEAN /\ h.age \in 0..Oldest
  /\ \A p \in Pulse : p.pc \in {"idle", "save"} /\ p.found \in Heartbeat
  /\ NoHeartbeat \in Heartbeat
  /\ IdlePulse \in Pulse
  /\ IdleCheck \in Check
  /\ IdleCheck.pc = "idle" /\ IdleCheck.by = NoInstance
BY DEF Heartbeat, Pulse, Check, NoHeartbeat, IdlePulse, IdleCheck, Oldest, Late

LEMMA HealthInitInv == HealthInit => HealthInv
<1> SUFFICES ASSUME HealthInit PROVE HealthInv
  OBVIOUS
<1>1. HealthTypeOK
  <2>1. inst \in [Instances -> Heartbeat] /\ pulse \in [Instances -> Pulse]
    BY Records DEF HealthInit
  <2>2. check \in Check /\ (check.pc = "idle" <=> check.by = NoInstance)
    BY Records DEF HealthInit
  <2>3. changes \in 0..MaxChanges
    BY ChangesAssumption DEF HealthInit
  <2> QED
    BY <2>1, <2>2, <2>3, ZenonT(30) DEF HealthInit, HealthTypeOK
<1>2. OpenCheckRecent
  BY Records DEF HealthInit, OpenCheckRecent
<1>3. ReadyNotLate
  BY SMTT(30) DEF HealthInit, ReadyNotLate, NoHeartbeat, Late
<1> QED
  BY <1>1, <1>2, <1>3 DEF HealthInv

LEMMA HealthStepTypes ==
  ASSUME HealthTypeOK, [HealthNext]_healthVars
  PROVE  HealthTypeOK'
<1> USE Records, ChangesAssumption, InstancesAssumption DEF HealthTypeOK
<1>1. ASSUME NEW i \in Instances, PulseRead(i) PROVE HealthTypeOK'
  <2>1. [pc |-> "save", found |-> inst[i]] \in Pulse
    BY SMTT(30) DEF Pulse
  <2> QED
    BY <1>1, <2>1, ZenonT(30) DEF PulseRead
<1>2. ASSUME NEW i \in Instances, PulseSave(i) PROVE HealthTypeOK'
  <2>a. PICK t \in BOOLEAN : t = TRUE
    BY ZenonT(30)
  <2>b. PICK ready \in BOOLEAN : ready = (pulse[i].found.row /\ pulse[i].found.ready)
    OBVIOUS
  <2>c. 0 \in 0..Oldest
    BY DEF Oldest, Late
  <2>d. [row |-> t, age |-> 0, ready |-> ready] \in Heartbeat
    BY <2>c, ZenonT(30) DEF Heartbeat
  <2>1. [row |-> TRUE, age |-> 0, ready |-> pulse[i].found.row /\ pulse[i].found.ready] \in Heartbeat
    BY <2>a, <2>b, <2>d, ZenonT(30)
  <2> QED
    BY <1>2, <2>1 DEF PulseSave
<1>3. ASSUME NEW i \in Instances, CheckRead(i) PROVE HealthTypeOK'
  <2>1. check' \in Check /\ check'.pc = "ready" /\ check'.by = i
    BY <1>3 DEF CheckRead, Check
  <2> QED
    BY <1>3, <2>1, SMTT(30) DEF CheckRead
<1>4. ASSUME NEW i \in Instances, PulseFails(i) PROVE HealthTypeOK'
  BY <1>4, SMTT(30) DEF PulseFails
<1>5. ASSUME NEW i \in Instances, Crash(i) PROVE HealthTypeOK'
  BY <1>5, SMTT(30) DEF Crash
<1>6. ASSUME NEW i \in Instances, Restart(i) \/ Disconnect(i) \/ Reconnect(i) PROVE HealthTypeOK'
  BY <1>6 DEF Restart, Disconnect, Reconnect
<1>7. CASE CheckMarkReady
  <2>1. \A i \in Instances : [inst[i] EXCEPT !.ready = TRUE] \in Heartbeat
    BY ZenonT(30) DEF Heartbeat
  <2>2. check' \in Check /\ check'.pc = "unready" /\ check'.by = check.by
    BY <1>7 DEF CheckMarkReady, Check
  <2> QED
    BY <1>7, <2>1, <2>2 DEF CheckMarkReady
<1>8. CASE CheckMarkUnready
  <2>1. \A i \in Instances : [inst[i] EXCEPT !.ready = FALSE] \in Heartbeat
    BY ZenonT(30) DEF Heartbeat
  <2> QED
    BY <1>8, <2>1 DEF CheckMarkUnready
<1>9. CASE CheckFails
  <2>1. check' = IdleCheck \/ (check' \in Check /\ check'.pc = "unready" /\ check'.by = check.by)
    BY <1>9 DEF CheckFails, Check
  <2> QED
    BY <1>9, <2>1 DEF CheckFails
<1>10. CASE Tick
  <2>1. \A i \in Instances : inst[i].age < Oldest => [inst[i] EXCEPT !.age = @ + 1] \in Heartbeat
    BY DEF Heartbeat, Oldest, Late
  <2> QED
    BY <1>10, <2>1, ZenonT(30) DEF Tick
<1>11. CASE UNCHANGED healthVars
  BY <1>11, SMTT(30) DEF healthVars
<1> QED
  BY <1>1, <1>2, <1>3, <1>4, <1>5, <1>6, <1>7, <1>8, <1>9, <1>10, <1>11, ZenonT(30) DEF HealthNext

-----------------------------------------------------------------------------
\* Steps that touch neither the rows nor an open run of the check: it stays
\* open, or is cut off.
LEMMA Kept ==
  ASSUME HealthTypeOK, OpenCheckRecent, ReadyNotLate, UNCHANGED <<inst, checked>>,
         \/ check'.pc = "idle"
         \/ check'.pc # "idle" /\ check.pc # "idle" /\ check'.active = check.active
              /\ check'.inactive = check.inactive
  PROVE  OpenCheckRecent' /\ ReadyNotLate'
BY SMTT(30) DEF OpenCheckRecent, ReadyNotLate

LEMMA StepRecent ==
  ASSUME HealthTypeOK, OpenCheckRecent, ReadyNotLate, [HealthNext]_healthVars
  PROVE  OpenCheckRecent' /\ ReadyNotLate'
<1>0. /\ inst \in [Instances -> Heartbeat] /\ checked \in BOOLEAN /\ check \in Check
      /\ \A i \in Instances : inst[i].age \in Nat /\ inst[i].ready \in BOOLEAN /\ inst[i].row \in BOOLEAN
  BY Records DEF HealthTypeOK, Oldest, Late
<1>1. ASSUME NEW i \in Instances, PulseSave(i) PROVE OpenCheckRecent' /\ ReadyNotLate'
  <2>1. \A j \in Instances : inst'[j] = inst[j] \/ (inst'[j].age = 0 /\ inst'[j].row)
    BY <1>0, <1>1 DEF PulseSave
  <2>2. UNCHANGED <<check, checked>>
    BY <1>1, SMTT(30) DEF PulseSave
  <2>3. OpenCheckRecent'
    BY <1>0, <2>1, <2>2 DEF OpenCheckRecent, Late
  <2>4. ReadyNotLate'
    BY <1>0, <2>1, <2>2, SMTT(30) DEF ReadyNotLate, Late
  <2> QED
    BY <2>3, <2>4, SMTT(30)
<1>2. ASSUME NEW i \in Instances, CheckRead(i) PROVE OpenCheckRecent' /\ ReadyNotLate'
  <2>1. /\ check'.active = {j \in Instances : inst[j].row /\ inst[j].age < Late /\ ~inst[j].ready}
        /\ check'.inactive = {j \in Instances : inst[j].row /\ inst[j].age > Late /\ inst[j].ready}
        /\ UNCHANGED <<inst, checked>>
    BY <1>2, SMTT(30) DEF CheckRead
  <2>2. OpenCheckRecent'
    BY <1>0, <2>1, SMTT(30) DEF OpenCheckRecent, ReadyNotLate, Late
  <2>3. ReadyNotLate'
    BY <2>1 DEF ReadyNotLate
  <2> QED
    BY <2>2, <2>3
<1>3. CASE CheckMarkReady
  <2>1. \A j \in Instances : /\ inst'[j].age = inst[j].age /\ inst'[j].row = inst[j].row
                             /\ inst'[j].ready => inst[j].ready \/ j \in check.active
    BY <1>0, <1>3 DEF CheckMarkReady, Heartbeat
  <2>2. /\ check'.active = check.active /\ check'.inactive = check.inactive
        /\ check.pc # "idle" /\ UNCHANGED checked
    BY <1>0, <1>3, SMTT(30) DEF CheckMarkReady, Check
  <2>3. OpenCheckRecent'
    BY <1>0, <2>1, <2>2, SMTT(30) DEF OpenCheckRecent, Late
  <2>4. ReadyNotLate'
    BY <1>0, <2>1, <2>2 DEF ReadyNotLate, OpenCheckRecent, Late
  <2> QED
    BY <2>3, <2>4
<1>4. CASE CheckMarkUnready
  <2>1. \A j \in Instances : /\ inst'[j].age = inst[j].age /\ inst'[j].row = inst[j].row
                             /\ inst'[j].ready => inst[j].ready /\ j \notin check.inactive
    BY <1>0, <1>4 DEF CheckMarkUnready, Heartbeat
  <2>2. check.pc # "idle" /\ check'.pc = "idle" /\ checked'
    BY <1>4, SMTT(30) DEF CheckMarkUnready, IdleCheck
  <2>3. OpenCheckRecent'
    BY <2>2, SMTT(30) DEF OpenCheckRecent
  <2>4. ReadyNotLate'
    BY <1>0, <2>1, <2>2 DEF ReadyNotLate, OpenCheckRecent, Late
  <2> QED
    BY <2>3, <2>4
<1>5. CASE Tick
  <2>1. \A j \in Instances : /\ inst'[j].ready = inst[j].ready /\ inst'[j].row = inst[j].row
                             /\ inst'[j].age = inst[j].age \/ inst'[j].age = inst[j].age + 1
                             /\ ~inst[j].row => inst'[j].age = inst[j].age
    BY <1>0, <1>5 DEF Tick, Heartbeat
  <2>2. checked /\ ~checked' /\ UNCHANGED check
    BY <1>5, SMTT(30) DEF Tick
  <2>3. OpenCheckRecent'
    BY <1>0, <2>1, <2>2, SMTT(30) DEF OpenCheckRecent, Late
  <2>4. ReadyNotLate'
    BY <1>0, <2>1, <2>2, SMTT(30) DEF ReadyNotLate, Late
  <2> QED
    BY <2>3, <2>4
<1>6. CASE CheckFails
  <2>1. UNCHANGED <<inst, checked>>
    BY <1>6 DEF CheckFails
  <2>2. \/ check'.pc = "idle"
        \/ check'.pc # "idle" /\ check.pc # "idle" /\ check'.active = check.active
             /\ check'.inactive = check.inactive
    BY <1>0, <1>6 DEF CheckFails, Check, IdleCheck
  <2> QED
    BY <2>1, <2>2, Kept
<1>7. ASSUME NEW i \in Instances, Crash(i) PROVE OpenCheckRecent' /\ ReadyNotLate'
  BY <1>7, Kept DEF Crash, IdleCheck
<1>8. CASE UNCHANGED <<inst, check, checked>>
  BY <1>8, Kept
<1> QED
  BY <1>1, <1>2, <1>3, <1>4, <1>5, <1>6, <1>7, <1>8, SMTT(30)
     DEF HealthNext, healthVars, PulseRead, PulseFails, Restart, Disconnect, Reconnect

-----------------------------------------------------------------------------
\* The table and the two loops keep their types.
THEOREM InstancesTypeCorrect == HealthSpec => []HealthTypeOK
<1>1. HealthInit => HealthTypeOK
  BY HealthInitInv DEF HealthInv
<1>2. HealthTypeOK /\ [HealthNext]_healthVars => HealthTypeOK'
  BY HealthStepTypes
<1> QED
  BY <1>1, <1>2, PTL DEF HealthSpec

\* However many instances check each other, crash in the middle of a check or
\* save a Ready they read before, none is marked ready with a heartbeat
\* more than two intervals older than the limit of checkInstances.
THEOREM DeadSoonUnready == HealthSpec => []DeadNotReadyForLong
<1>1. HealthInit => HealthInv
  BY HealthInitInv
<1>2. HealthInv /\ [HealthNext]_healthVars => HealthInv'
  BY HealthStepTypes, StepRecent DEF HealthInv
<1>3. HealthInv => DeadNotReadyForLong
  <2> SUFFICES ASSUME HealthInv, NEW i \in Instances, inst[i].ready PROVE inst[i].age <= Late + 2
    BY DEF DeadNotReadyForLong
  <2>1. inst[i].age \in Nat
    BY Records DEF HealthInv, HealthTypeOK, Oldest, Late
  <2> QED
    BY <2>1 DEF HealthInv, ReadyNotLate, Late
<1> QED
  BY <1>1, <1>2, <1>3, PTL DEF HealthSpec

-----------------------------------------------------------------------------
\* Repeated delete requests, with any interval, threshold, number of events,
\* lost deletions and failures.

\* A call that is about to store an event has found none that is younger than
\* the interval; time only makes the others older. The call that marks the row
\* finds no event at all.
CallMayCreate ==
  /\ request = "create" => Stored = {}
  /\ request = "republish" => \A e \in Stored : events[e].age >= Interval
  /\ resource.state = "live" => request = "idle"

DeletionInv == DeletionTypeOK /\ CallMayCreate /\ PendingSpaced

-----------------------------------------------------------------------------
\* The bounds as numbers.
LEMMA Bounds ==
  /\ Interval \in Nat /\ MaxAge \in Nat /\ MaxAge > Interval /\ Ages = 0..MaxAge
  /\ \A a \in Ages : a \in Nat /\ a <= MaxAge /\ Older(a) \in Ages /\ Older(a) >= a
  /\ \A a \in Ages : a # MaxAge => Older(a) = a + 1
BY DeletionBounds DEF Ages, Older

LEMMA Events ==
  /\ NoEvent \in Event /\ NoEvent.state = "none" /\ NoEvent.age = 0
  /\ [state |-> "pending", age |-> 0] \in Event
  /\ \A e \in Event : e.state \in {"none", "pending", "reconciled"} /\ e.age \in Ages
  /\ \A e \in Event : [e EXCEPT !.state = "reconciled"] \in Event
  /\ \A e \in Event, a \in Ages : [e EXCEPT !.age = a] \in Event
BY Bounds DEF Event, NoEvent

\* An event is stored when its state is not "none".
LEMMA StoredStates ==
  ASSUME events \in [EventIds -> Event]
  PROVE  /\ Pending \subseteq Stored /\ Stored \subseteq EventIds
         /\ \A e \in EventIds : e \in Stored <=> events[e].state # "none"
         /\ \A e \in EventIds : e \in Pending <=> events[e].state = "pending"
BY SMTT(30) DEF Stored, Pending

\* An invariant about the events' ages is kept by a step that adds none, makes
\* none pending and changes no age of a stored one.
LEMMA FewerEvents ==
  ASSUME DeletionTypeOK, CallMayCreate, PendingSpaced, UNCHANGED request,
         Stored' \subseteq Stored, Pending' \subseteq Pending,
         \A e \in Stored' : events'[e].age = events[e].age,
         Pending' \subseteq Stored', resource'.state = "live" => resource.state = "live"
  PROVE  CallMayCreate' /\ PendingSpaced'
BY DEF CallMayCreate, PendingSpaced

-----------------------------------------------------------------------------
LEMMA DeletionInitInv == DeletionInit => DeletionInv
<1> SUFFICES ASSUME DeletionInit PROVE DeletionInv
  OBVIOUS
<1>1. Stored = {} /\ Pending = {}
  BY Events DEF DeletionInit, Stored, Pending
<1>2. resource \in [state: {"live", "deleting", "gone"}, age: Ages] /\ last \in Ages
  BY Bounds DEF DeletionInit
<1>3. count \in [forgets: 0..MaxForgets, faults: 0..MaxFailures]
  BY DeletionBounds DEF DeletionInit
<1> QED
  BY <1>1, <1>2, <1>3, Events DEF DeletionInit, DeletionInv, DeletionTypeOK, CallMayCreate, PendingSpaced

LEMMA DeletionStepTypes ==
  ASSUME DeletionTypeOK, CallMayCreate, [DeletionNext]_deletionVars
  PROVE  DeletionTypeOK'
<1> DEFINE Res == [state: {"live", "deleting", "gone"}, age: Ages]
           Count == [forgets: 0..MaxForgets, faults: 0..MaxFailures]
<1>0. /\ events \in [EventIds -> Event] /\ resource \in Res /\ last \in Ages /\ 0 \in Ages
      /\ \A e \in EventIds : events[e] \in Event
      /\ resource.state = "live" => Stored = {} /\ agent = "applies" /\ request = "idle"
  BY Bounds, SMTT(30) DEF DeletionTypeOK, CallMayCreate
<1>1. CASE MarkAsDeleting
  <2>1. resource' \in Res /\ resource'.state # "live"
    BY <1>0, <1>1, SMTT(30) DEF MarkAsDeleting
  <2> QED
    BY <1>1, <2>1 DEF MarkAsDeleting, DeletionTypeOK
<1>2. CASE CreateEvent
  <2>1. PICK e \in EventIds : events' = [events EXCEPT ![e] = [state |-> "pending", age |-> 0]]
    BY <1>2, ZenonT(30) DEF CreateEvent
  <2>2. events' \in [EventIds -> Event]
    BY <1>0, <2>1, Events, SMTT(30)
  <2>3. resource'.state # "live"
    BY <1>0, <1>2 DEF CreateEvent
  <2> QED
    BY <1>0, <1>2, <2>2, <2>3 DEF CreateEvent, DeletionTypeOK
<1>3. CASE CreateFails
  <2>1. count' \in Count
    BY <1>3, DeletionBounds DEF CreateFails, DeletionTypeOK
  <2> QED
    BY <1>3, <2>1 DEF CreateFails, DeletionTypeOK, Stored
<1>4. ASSUME NEW e \in EventIds, HandleEvent(e) PROVE DeletionTypeOK'
  <2>1. events' \in [EventIds -> Event]
    BY <1>0, <1>4, Events DEF HandleEvent
  <2>2. resource'.state # "live"
    BY <1>0, <1>4, StoredStates DEF HandleEvent
  <2> QED
    BY <1>4, <2>1, <2>2 DEF HandleEvent, DeletionTypeOK
<1>5. CASE ReconcileStaleDeleteEvents
  <2>1. events' \in [EventIds -> Event]
    BY <1>0, <1>5, Events DEF ReconcileStaleDeleteEvents
  <2>2. resource'.state # "live"
    BY <1>5 DEF ReconcileStaleDeleteEvents
  <2> QED
    BY <1>5, <2>1, <2>2 DEF ReconcileStaleDeleteEvents, DeletionTypeOK
<1>6. CASE DeleteAllReconciledEvents
  <2>1. events' \in [EventIds -> Event]
    BY <1>0, <1>6, Events DEF DeleteAllReconciledEvents
  <2>2. resource'.state # "live"
    BY <1>0, <1>6, StoredStates, ZenonT(30) DEF DeleteAllReconciledEvents
  <2> QED
    BY <1>6, <2>1, <2>2 DEF DeleteAllReconciledEvents, DeletionTypeOK
<1>7. CASE AgentDeletes \/ AgentAway \/ AgentBack \/ AgentForgets
  <2>1. count' \in Count
    BY <1>7, DeletionBounds DEF AgentDeletes, AgentAway, AgentBack, AgentForgets, DeletionTypeOK
  <2> QED
    BY <1>7, <2>1, ZenonT(30) DEF AgentDeletes, AgentAway, AgentBack, AgentForgets, DeletionTypeOK, Stored
<1>8. CASE HardDelete
  <2>1. resource' \in Res /\ resource'.state # "live"
    BY <1>0, <1>8 DEF HardDelete
  <2> QED
    BY <1>8, <2>1 DEF HardDelete, DeletionTypeOK
<1>9. CASE TimePasses
  <2>1. resource' \in Res /\ resource'.state = resource.state
    BY <1>0, <1>9, Bounds DEF TimePasses
  <2>2. events' \in [EventIds -> Event]
    BY <1>0, <1>9, Bounds, Events DEF TimePasses
  <2>3. resource.state = "live" => Stored' = {}
    BY <1>0, <1>9 DEF TimePasses, Stored
  <2>4. last' \in Ages
    BY <1>0, <1>9, Bounds, SMTT(30) DEF TimePasses
  <2> QED
    BY <1>9, <2>1, <2>2, <2>3, <2>4 DEF TimePasses, DeletionTypeOK
<1>10. CASE UNCHANGED deletionVars
  BY <1>10 DEF deletionVars, DeletionTypeOK, Stored
<1> QED
  BY <1>1, <1>2, <1>3, <1>4, <1>5, <1>6, <1>7, <1>8, <1>9, <1>10, SMTT(30) DEF DeletionNext

-----------------------------------------------------------------------------
LEMMA StepSpaced ==
  ASSUME DeletionTypeOK, CallMayCreate, PendingSpaced, [DeletionNext]_deletionVars
  PROVE  CallMayCreate' /\ PendingSpaced'
<1>0. /\ events \in [EventIds -> Event] /\ events' \in [EventIds -> Event]
      /\ \A e \in EventIds : events[e].age \in Nat /\ events[e].age <= MaxAge /\ events[e].age \in Ages
      /\ Interval \in Nat
  BY DeletionStepTypes, Events, Bounds, SMTT(30) DEF DeletionTypeOK
<1>s. /\ \A e \in EventIds : e \in Stored <=> events[e].state # "none"
      /\ \A e \in EventIds : e \in Pending <=> events[e].state = "pending"
      /\ \A e \in EventIds : e \in Stored' <=> events'[e].state # "none"
      /\ \A e \in EventIds : e \in Pending' <=> events'[e].state = "pending"
      /\ Pending \subseteq Stored /\ Stored \subseteq EventIds
      /\ Pending' \subseteq Stored' /\ Stored' \subseteq EventIds
  BY DEF Stored, Pending
<1>1. CASE MarkAsDeleting
  <2>1. UNCHANGED events /\ Stored' = Stored /\ Pending' = Pending
    BY <1>1 DEF MarkAsDeleting, Stored, Pending
  <2>2. resource.state = "live" => Stored = {}
    BY DEF DeletionTypeOK
  <2>3. ~Throttled => \A e \in Stored : events[e].age >= Interval
    BY <1>0, <1>s, SMTT(30) DEF Throttled
  <2>4. CallMayCreate'
    BY <1>1, <2>1, <2>2, <2>3 DEF MarkAsDeleting, CallMayCreate
  <2> QED
    BY <2>1, <2>4, SMTT(30) DEF PendingSpaced
<1>2. CASE CreateEvent
  <2>1. PICK e \in EventIds \ Stored : events' = [events EXCEPT ![e] = [state |-> "pending", age |-> 0]]
    BY <1>2, ZenonT(30) DEF CreateEvent
  <2>2. events'[e].age = 0 /\ \A f \in EventIds \ {e} : events'[f] = events[f]
    BY <1>0, <2>1, SMTT(30)
  <2>3. \A f \in Stored : events[f].age >= Interval
    BY <1>2, SMTT(30) DEF CreateEvent, CallMayCreate, DeletionTypeOK
  <2>4. \A f \in Pending' : f = e \/ f \in Pending
    BY <1>s, <2>2, SMTT(30)
  <2>5. PendingSpaced'
    <3> SUFFICES ASSUME NEW f \in Pending', NEW g \in Pending', f # g
                 PROVE  \/ events'[f].age >= events'[g].age + Interval
                        \/ events'[g].age >= events'[f].age + Interval
                        \/ MaxAge \in {events'[f].age, events'[g].age}
      BY SMTT(30) DEF PendingSpaced
    <3>1. CASE f # e /\ g # e
      BY <1>s, <2>2, <2>4, <3>1, SMTT(30) DEF PendingSpaced
    <3>2. CASE f = e
      BY <1>0, <1>s, <2>2, <2>3, <2>4, <3>2, SMTT(30)
    <3>3. CASE g = e
      BY <1>0, <1>s, <2>2, <2>3, <2>4, <3>3, SMTT(30)
    <3> QED
      BY <3>1, <3>2, <3>3, SMTT(30)
  <2>6. CallMayCreate'
    BY <1>2, SMTT(30) DEF CreateEvent, CallMayCreate
  <2> QED
    BY <2>5, <2>6
<1>3. CASE CreateFails
  <2>1. UNCHANGED <<events, resource>> /\ request' = "idle" /\ Stored' = Stored /\ Pending' = Pending
    BY <1>3 DEF CreateFails, Stored, Pending
  <2> QED
    BY <2>1 DEF CallMayCreate, PendingSpaced
<1>4. ASSUME NEW e \in EventIds, HandleEvent(e) PROVE CallMayCreate' /\ PendingSpaced'
  <2>1. \A f \in EventIds : events'[f].age = events[f].age
    BY <1>0, <1>4 DEF HandleEvent, Event
  <2>2. \A f \in EventIds \ {e} : events'[f] = events[f]
    BY <1>0, <1>4 DEF HandleEvent
  <2>3. e \in Pending /\ events'[e].state = "reconciled"
    BY <1>0, <1>4, SMTT(30) DEF HandleEvent, Event
  <2>4. Stored' \subseteq Stored /\ Pending' \subseteq Pending
    BY <1>s, <2>2, <2>3
  <2> QED
    BY <1>4, <1>s, <2>1, <2>4, FewerEvents, SMTT(30) DEF HandleEvent
<1>5. CASE ReconcileStaleDeleteEvents
  <2>1. \A f \in EventIds : /\ events'[f].age = events[f].age
                            /\ events'[f] = events[f] \/ (f \in Pending /\ events'[f].state = "reconciled")
    BY <1>0, <1>5 DEF ReconcileStaleDeleteEvents, Event
  <2>2. Stored' \subseteq Stored /\ Pending' \subseteq Pending
    BY <1>s, <2>1, SMTT(30)
  <2> QED
    BY <1>5, <1>s, <2>1, <2>2, FewerEvents DEF ReconcileStaleDeleteEvents
<1>6. CASE DeleteAllReconciledEvents
  <2>1. \A f \in EventIds : events'[f] = events[f] \/ events'[f] = NoEvent
    BY <1>0, <1>6 DEF DeleteAllReconciledEvents
  <2>2. Stored' \subseteq Stored /\ Pending' \subseteq Pending
    BY <1>s, <2>1, Events
  <2>3. \A f \in Stored' : events'[f].age = events[f].age
    BY <1>s, <2>1, Events
  <2> QED
    BY <1>6, <1>s, <2>2, <2>3, FewerEvents, SMTT(30) DEF DeleteAllReconciledEvents
<1>7. CASE TimePasses
  <2>1. \A f \in EventIds : /\ events'[f].state = events[f].state
                            /\ f \in Stored => events'[f].age = Older(events[f].age)
                            /\ f \notin Stored => events'[f] = events[f]
    BY <1>0, <1>7 DEF TimePasses, Event
  <2>2. Stored' = Stored /\ Pending' = Pending
    BY ZenonT(30), <1>s, <2>1
  <2>3. resource'.state = resource.state /\ UNCHANGED request
    BY <1>7 DEF TimePasses, DeletionTypeOK
  <2>4. CallMayCreate'
    <3>1. \A f \in Stored : events'[f].age \in Nat /\ events'[f].age >= events[f].age
      BY <1>0, <1>s, <2>1, Bounds, SMTT(30)
    <3>2. \A f \in Stored : events[f].age >= Interval => events'[f].age >= Interval
      BY <1>0, <1>s, <3>1, SMTT(30)
    <3> QED
      BY <2>2, <2>3, <3>2, SMTT(30) DEF CallMayCreate
  <2>5. PendingSpaced'
    <3> SUFFICES ASSUME NEW f \in Pending, NEW g \in Pending, f # g
                 PROVE  \/ events'[f].age >= events'[g].age + Interval
                        \/ events'[g].age >= events'[f].age + Interval
                        \/ MaxAge \in {events'[f].age, events'[g].age}
      BY <2>2, SMTT(30) DEF PendingSpaced
    <3> DEFINE a == events[f].age
               b == events[g].age
    <3>1. a \in Ages /\ b \in Ages /\ events'[f].age = Older(a) /\ events'[g].age = Older(b)
      BY <1>0, <1>s, <2>1, SMTT(30)
    <3>2. a >= b + Interval \/ b >= a + Interval \/ MaxAge \in {a, b}
      BY SMTT(30) DEF PendingSpaced
    <3>3. CASE MaxAge \in {a, b}
      <4>1. Older(MaxAge) = MaxAge
        BY Bounds, SMTT(30) DEF Older
      <4> QED
        BY <3>1, <3>3, <4>1, SMTT(30)
    <3>4. CASE a # MaxAge /\ b # MaxAge
      <4>1. Older(a) = a + 1 /\ Older(b) = b + 1
        BY <3>1, <3>4, Bounds, SMTT(30)
      <4>2. a \in Nat /\ b \in Nat
        BY <3>1, Bounds, SMTT(30)
      <4>3. a + 1 >= (b + 1) + Interval \/ b + 1 >= (a + 1) + Interval
        BY <1>0, <3>2, <3>4, <4>2, SMTT(30)
      <4> QED
        BY <3>1, <4>1, <4>3, SMTT(30)
    <3> QED
      BY <3>3, <3>4, SMTT(30)
  <2> QED
    BY <2>4, <2>5
<1>8. CASE AgentDeletes \/ HardDelete \/ AgentForgets \/ AgentAway \/ AgentBack \/ UNCHANGED deletionVars
  <2>1. UNCHANGED <<events, request>>
    BY <1>8 DEF AgentDeletes, HardDelete, AgentForgets, AgentAway, AgentBack, deletionVars
  <2>2. resource'.state = "live" => resource.state = "live"
    BY <1>8 DEF AgentDeletes, HardDelete, AgentForgets, AgentAway, AgentBack, deletionVars, DeletionTypeOK
  <2>3. Stored' = Stored /\ Pending' = Pending
    BY <2>1, SMTT(30) DEF Stored, Pending
  <2> QED
    BY <1>s, <2>1, <2>2, <2>3, FewerEvents
<1> QED
  BY <1>1, <1>2, <1>3, <1>4, <1>5, <1>6, <1>7, <1>8, SMTT(30) DEF DeletionNext

-----------------------------------------------------------------------------
\* Delete events that wait for delivery are an interval apart, whatever is
\* purged, retired or lost in between, and however often the source repeats its
\* request (MarkAsDeleting, republishDeleteEvent).
THEOREM RequestsDoNotPileUp == DeletionSpec => []PendingSpaced
<1>1. DeletionInit => DeletionInv
  BY DeletionInitInv
<1>2. DeletionInv /\ [DeletionNext]_deletionVars => DeletionInv'
  BY DeletionStepTypes, StepSpaced DEF DeletionInv
<1>3. DeletionInv => PendingSpaced
  BY DEF DeletionInv
<1> QED
  BY <1>1, <1>2, <1>3, PTL DEF DeletionSpec
====
