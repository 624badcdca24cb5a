--------------------------- MODULE VersionedStore ---------------------------
(***************************************************************************)
(* What the resource service promises its callers: a store of objects that *)
(* carry a version, on which create, update and delete act at once, at one *)
(* moment between the call and its answer. A create names the version to   *)
(* begin with (0: the first); an update names the version it               *)
(* replaces (0: whatever is the latest). An "ok" means that the call took  *)
(* effect exactly once; an "error" leaves open whether it did.             *)
(***************************************************************************)
EXTENDS Naturals

CONSTANTS Objects, Values, Callers, NoValue

VARIABLES
  store,  \* the objects
  op      \* the call of each caller

Object == [state: {"none", "live", "deleting", "gone"}, version: Nat,
           value: Values \union {NoValue}]

Op == [kind: {"create", "update", "delete"}, o: Objects, base: Nat,
       value: Values \union {NoValue}, status: {"pending", "done", "ok", "error"}]

NoOp == [status |-> "idle"]

Init ==
  /\ store \in [Objects -> Object]
  /\ op = [c \in Callers |-> NoOp]

Invoke(c) ==
  /\ op[c].status = "idle"
  /\ op'[c] \in Op /\ op'[c].status = "pending"
  /\ op' = [op EXCEPT ![c] = op'[c]]
  /\ UNCHANGED store

Pending(c, kind) == op[c].status = "pending" /\ op[c].kind = kind

\* A call takes effect: its object becomes obj.
Effect(c, obj) ==
  /\ store' = [store EXCEPT ![op[c].o] = obj]
  /\ op' = [op EXCEPT ![c].status = "done"]

Create(c) ==
  /\ Pending(c, "create")
  /\ store[op[c].o].state \in {"none", "gone"}
  /\ Effect(c, [state |-> "live", version |-> IF op[c].base = 0 THEN 1 ELSE op[c].base,
                value |-> op[c].value])

\* The version an update names is the one it finds.
Current(c) ==
  /\ store[op[c].o].state = "live"
  /\ op[c].base \in {0, store[op[c].o].version}

Replace(c) ==
  /\ Pending(c, "update")
  /\ Current(c)
  /\ Effect(c, [state |-> "live", version |-> store[op[c].o].version + 1, value |-> op[c].value])

\* An update to the value the object has already changes nothing.
Keep(c) ==
  /\ Pending(c, "update")
  /\ Current(c)
  /\ store[op[c].o].value = op[c].value
  /\ op' = [op EXCEPT ![c].status = "ok"]
  /\ UNCHANGED store

Mark(c) ==
  /\ Pending(c, "delete")
  /\ store[op[c].o].state = "live"
  /\ Effect(c, [store[op[c].o] EXCEPT !.state = "deleting"])

\* A delete of what is deleted already succeeds.
Again(c) ==
  /\ Pending(c, "delete")
  /\ store[op[c].o].state # "live"
  /\ \E s \in {"done", "ok"} : op' = [op EXCEPT ![c].status = s]
  /\ UNCHANGED store

Confirm(c) ==
  /\ op[c].status = "done"
  /\ op' = [op EXCEPT ![c].status = "ok"]
  /\ UNCHANGED store

Fail(c) ==
  /\ op[c].status \in {"pending", "done"}
  /\ op' = [op EXCEPT ![c].status = "error"]
  /\ UNCHANGED store

Return(c) ==
  /\ op[c].status \in {"ok", "error"}
  /\ op' = [op EXCEPT ![c] = NoOp]
  /\ UNCHANGED store

\* The deletion of an object is completed.
Purge(o) ==
  /\ store[o].state = "deleting"
  /\ store' = [store EXCEPT ![o] = [state |-> "gone", version |-> 0, value |-> NoValue]]
  /\ UNCHANGED op

Next ==
  \/ \E c \in Callers :
       \/ Invoke(c) \/ Create(c) \/ Replace(c) \/ Keep(c) \/ Mark(c) \/ Again(c)
       \/ Confirm(c) \/ Fail(c) \/ Return(c)
  \/ \E o \in Objects : Purge(o)

Spec == Init /\ [][Next]_<<store, op>>
====
