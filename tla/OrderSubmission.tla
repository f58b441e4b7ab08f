--------------------------- MODULE OrderSubmission ---------------------------
(***************************************************************************)
(* What the execution coordinator promises its callers: a client order id  *)
(* has at most one request outstanding, every caller who asks for the same *)
(* order while it is known gets the answer of that one request, a failed   *)
(* order may be asked for again, and a settled one is forgotten only when  *)
(* more than Capacity of them are known.                                   *)
(***************************************************************************)
EXTENDS Integers, FiniteSets

CONSTANTS None, Caller, Id, Payload, Capacity

VARIABLES
    order,    \* the orders known, by client order id
    caller    \* what each caller waits for, or has been answered

vars == <<order, caller>>

Known(id) == order[id] # None
Settled == {id \in Id : Known(id) /\ order[id].state = "settled"}

Answer(state) ==
    CASE state = "outstanding" -> "waiting"
      [] state = "settled" -> "response"
      [] state = "failed" -> "error"

Init ==
    /\ order = [id \in Id |-> None]
    /\ caller = [c \in Caller |-> None]

Place(c, id, p) ==
    /\ caller[c] = None /\ ~Known(id)
    /\ order' = [order EXCEPT ![id] = [payload |-> p, state |-> "outstanding"]]
    /\ caller' = [caller EXCEPT ![c] = [id |-> id, payload |-> p,
                                        answer |-> "waiting"]]

Join(c, id) ==
    /\ caller[c] = None /\ Known(id)
    /\ caller' = [caller EXCEPT ![c] = [id |-> id, payload |-> order[id].payload,
                                        answer |-> Answer(order[id].state)]]
    /\ UNCHANGED order

\* The request ends; every caller waiting for it is answered alike.
End(id, state) ==
    /\ Known(id) /\ order[id].state = "outstanding"
    /\ order' = [order EXCEPT ![id].state = state]
    /\ caller' = [c \in Caller |->
          IF caller[c] # None /\ caller[c].id = id /\ caller[c].answer = "waiting"
          THEN [caller[c] EXCEPT !.answer = Answer(state)] ELSE caller[c]]

Forget(id) ==
    /\ Known(id)
    /\ \/ order[id].state = "failed"
       \/ order[id].state = "settled" /\ Cardinality(Settled) > Capacity
    /\ order' = [order EXCEPT ![id] = None]
    /\ UNCHANGED caller

\* A caller takes its answer, or stops waiting for it.
Leave(c) ==
    /\ caller[c] # None
    /\ caller' = [caller EXCEPT ![c] = None]
    /\ UNCHANGED order

Next ==
    \/ \E c \in Caller : Leave(c)
    \/ \E c \in Caller, id \in Id : Join(c, id) \/ \E p \in Payload : Place(c, id, p)
    \/ \E id \in Id : Forget(id) \/ \E state \in {"settled", "failed"} : End(id, state)

Spec == Init /\ [][Next]_vars
=============================================================================
