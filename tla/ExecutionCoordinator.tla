------------------------ MODULE ExecutionCoordinator ------------------------
(***************************************************************************)
(* execution/coordinator.py: one shared REST request per client order id,  *)
(* and a bounded memory of the responses.                                  *)
(*                                                                         *)
(* A request is an asyncio task of its own.  When it ends its done         *)
(* callback finalizes the entry in a later turn of the event loop, before  *)
(* any waiter resumes; other callers may come in between.  submit_market_  *)
(* open and submit_market_close differ in the payload and in the flag of   *)
(* the decision they read, and share every step modelled here; a call that *)
(* raises (other parameters for a known id) or returns None (refused)      *)
(* changes nothing.                                                        *)
(***************************************************************************)
EXTENDS Integers, Sequences, FiniteSets

CONSTANTS
    None,
    Caller,        \* coroutines that submit orders
    Id,            \* client order ids
    Payload,       \* order parameters
    MaxCompleted   \* max_completed_entries, 1024 in production

Ended == {"succeeded", "failed", "cancelled"}   \* task done, not yet finalized
States == {"running", "response"} \union Ended
Entry == [payload: Payload, state: States]
Waiter == [id: Id, payload: Payload, answer: {"waiting", "response", "error"}]

ASSUME CoordinatorConstants ==
    /\ MaxCompleted \in Nat
    /\ None \notin Entry /\ None \notin Waiter /\ None \notin Nat
    /\ None \notin [payload: Payload, state: {"outstanding", "settled", "failed"}]

VARIABLES
    inflight,    \* inflight_by_client_order_id
    completed,   \* completed_client_order_ids
    caller,      \* the call each coroutine is in
    accepted,    \* external: the orders the exchange has accepted, by id
    settledAgo   \* auxiliary: how many other ids settled since each id did

vars == <<inflight, completed, caller, accepted, settledAgo>>

Known(id) == inflight[id] # None

\* Mutants, here and below, are named ...Bug: a definition of the code with a
\* plausible mistake that one of the properties notices.
AnswerTaskStateBug(state) == IF state = "running" THEN "waiting" ELSE state

\* What awaiting the shielded task, or the stored response, yields.
Answer(state) ==
    CASE state = "running" -> "waiting"
      [] state \in {"succeeded", "response"} -> "response"
      [] OTHER -> "error"

JoinOtherParametersBug(c, id) ==
    /\ caller[c] = None /\ Known(id)
    /\ \E p \in Payload :
        caller' = [caller EXCEPT ![c] =
          [id |-> id, payload |-> p, answer |-> Answer(inflight[id].state)]]
    /\ UNCHANGED <<inflight, completed, accepted, settledAgo>>

\* The id is known with the same parameters.
Join(c, id) ==
    /\ caller[c] = None /\ Known(id)
    /\ caller' = [caller EXCEPT ![c] =
          [id |-> id, payload |-> inflight[id].payload,
           answer |-> Answer(inflight[id].state)]]
    /\ UNCHANGED <<inflight, completed, accepted, settledAgo>>

\* The id is not known and the decision allows the order.
Place(c, id, p) ==
    /\ caller[c] = None /\ ~Known(id)
    /\ inflight' = [inflight EXCEPT ![id] = [payload |-> p, state |-> "running"]]
    /\ caller' = [caller EXCEPT ![c] =
          [id |-> id, payload |-> p, answer |-> "waiting"]]
    /\ UNCHANGED <<completed, accepted, settledAgo>>

TaskEndsUnansweredBug(id, state, accept) ==
    /\ Known(id) /\ inflight[id].state = "running"
    /\ inflight' = [inflight EXCEPT ![id].state = state]
    /\ UNCHANGED <<completed, caller, accepted, settledAgo>>

\* place_order ends.  A failure says nothing about the exchange: the order may
\* have been accepted before the answer was lost.
TaskEnds(id, state, accept) ==
    /\ Known(id) /\ inflight[id].state = "running"
    /\ state = "succeeded" => accept
    /\ inflight' = [inflight EXCEPT ![id].state = state]
    /\ accepted' = IF accept
                   THEN [accepted EXCEPT ![id] = @ \union {inflight[id].payload}]
                   ELSE accepted
    /\ caller' = [c \in Caller |->
          IF caller[c] # None /\ caller[c].id = id /\ caller[c].answer = "waiting"
          THEN [caller[c] EXCEPT !.answer = Answer(state)] ELSE caller[c]]
    /\ UNCHANGED <<completed, settledAgo>>

ExcessEarlyBug(q) == IF Len(q) >= MaxCompleted THEN Len(q) - MaxCompleted + 1 ELSE 0
ExcessLateBug(q) == IF Len(q) > MaxCompleted + 1 THEN Len(q) - MaxCompleted - 1 ELSE 0

\* _prune_completed_entries, on the deque q and the entries e: how many ids are
\* popped, and the entries left.
Excess(q) == IF Len(q) > MaxCompleted THEN Len(q) - MaxCompleted ELSE 0
PrunedNewestBug(e, q) ==
    [id \in Id |->
        IF /\ e[id] # None /\ e[id].state = "response"
           /\ Excess(q) > 0 /\ q[Len(q)] = id
        THEN None ELSE e[id]]

Pruned(e, q) ==
    [id \in Id |->
        IF /\ e[id] # None /\ e[id].state = "response"
           /\ \E i \in 1 .. Excess(q) : q[i] = id
        THEN None ELSE e[id]]

\* _finalize_inflight_entry, the done callback of the task of id.
FinalizeFailed(id) ==
    /\ Known(id) /\ inflight[id].state \in {"failed", "cancelled"}
    /\ inflight' = [inflight EXCEPT ![id] = None]
    /\ UNCHANGED <<completed, caller, accepted, settledAgo>>

FinalizeSucceeded(id) ==
    LET q == Append(completed, id)
    IN  /\ Known(id) /\ inflight[id].state = "succeeded"
        /\ inflight' = Pruned([inflight EXCEPT ![id].state = "response"], q)
        /\ completed' = SubSeq(q, Excess(q) + 1, Len(q))
        /\ settledAgo' = [i \in Id |->
              IF i = id THEN 0
              ELSE IF settledAgo[i] \in {None, MaxCompleted} THEN settledAgo[i]
              ELSE settledAgo[i] + 1]
        /\ UNCHANGED <<caller, accepted>>

LeaveUnshieldedBug(c) ==
    /\ caller[c] # None
    /\ caller' = [caller EXCEPT ![c] = None]
    /\ inflight' = IF caller[c].answer = "waiting"
                   THEN [inflight EXCEPT ![caller[c].id] = None] ELSE inflight
    /\ UNCHANGED <<completed, accepted, settledAgo>>

\* A caller resumes with its answer, or is cancelled while it waits.
Leave(c) ==
    /\ caller[c] # None
    /\ caller' = [caller EXCEPT ![c] = None]
    /\ UNCHANGED <<inflight, completed, accepted, settledAgo>>

Init ==
    /\ inflight = [id \in Id |-> None]
    /\ completed = <<>>
    /\ caller = [c \in Caller |-> None]
    /\ accepted = [id \in Id |-> {}]
    /\ settledAgo = [id \in Id |-> None]

Submit(c, id) == Join(c, id) \/ \E p \in Payload : Place(c, id, p)
Finalize(id) == FinalizeFailed(id) \/ FinalizeSucceeded(id)
SomeTaskEnds(id) ==
    \E state \in Ended, accept \in BOOLEAN : TaskEnds(id, state, accept)

Next ==
    \/ \E c \in Caller : Leave(c) \/ \E id \in Id : Submit(c, id)
    \/ \E id \in Id : SomeTaskEnds(id) \/ Finalize(id)

(* The HTTP client's timeout ends every request, and the event loop runs    *)
(* every callback it has scheduled.                                         *)
Fairness == \A id \in Id : WF_vars(SomeTaskEnds(id)) /\ WF_vars(Finalize(id))

Spec == Init /\ [][Next]_vars
FairSpec == Spec /\ Fairness

-----------------------------------------------------------------------------
\* The type invariant: of the entries, the deque and the calls.
TypeOK ==
    /\ inflight \in [Id -> Entry \union {None}]
    /\ completed \in Seq(Id)
    /\ caller \in [Caller -> Waiter \union {None}]
    /\ accepted \in [Id -> SUBSET Payload]
    /\ settledAgo \in [Id -> 0 .. MaxCompleted \union {None}]

Stored == {id \in Id : Known(id) /\ inflight[id].state = "response"}

\* The deque lists exactly the ids whose response is stored, each once, and no
\* more than max_completed_entries: pruning never meets a missing entry or one
\* with a task, and no response is stored for ever.
CompletedAreStored ==
    /\ {completed[i] : i \in 1 .. Len(completed)} = Stored
    /\ \A i, j \in 1 .. Len(completed) : completed[i] = completed[j] => i = j
    /\ Len(completed) <= MaxCompleted

\* Whoever gets a response gets it for the parameters it passed, of an order
\* the exchange accepted under this id.
ResponsesMatchRequests ==
    \A c \in Caller :
        caller[c] # None /\ caller[c].answer = "response"
        => caller[c].payload \in accepted[caller[c].id]

\* Nobody waits for a request that has ended: a caller is waiting only while
\* the task of its id is running with its parameters.
WaitersHaveTask ==
    \A c \in Caller :
        caller[c] # None /\ caller[c].answer = "waiting"
        => /\ Known(caller[c].id)
           /\ inflight[caller[c].id] = [payload |-> caller[c].payload,
                                        state |-> "running"]

\* An order that has settled is not placed again under its id until
\* max_completed_entries other ids have settled.
SettledNotPlacedAgain ==
    [][\A id \in Id :
        inflight[id] = None /\ inflight'[id] # None
        => settledAgo[id] \in {None, MaxCompleted}]_vars

\* Every caller is answered.
CallersAnswered ==
    \A c \in Caller :
        (caller[c] # None /\ caller[c].answer = "waiting")
        ~> (caller[c] = None \/ caller[c].answer # "waiting")

(* The coordinator implements OrderSubmission.                              *)
Promise(id) ==
    IF ~Known(id) THEN None
    ELSE [payload |-> inflight[id].payload,
          state |-> CASE inflight[id].state = "running" -> "outstanding"
                      [] inflight[id].state \in {"succeeded", "response"} -> "settled"
                      [] OTHER -> "failed"]

Submission == INSTANCE OrderSubmission
    WITH order <- [id \in Id |-> Promise(id)], Capacity <- MaxCompleted

\* Seen by its callers, the coordinator keeps what OrderSubmission promises.
ImplementsSubmission == Submission!Spec
=============================================================================
