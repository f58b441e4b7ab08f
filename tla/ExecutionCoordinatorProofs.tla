--------------------- MODULE ExecutionCoordinatorProofs ---------------------
(***************************************************************************)
(* Theorems about ExecutionCoordinator, for every set of callers, ids and  *)
(* payloads and every max_completed_entries.                               *)
(***************************************************************************)
EXTENDS ExecutionCoordinator, SequenceTheorems, FiniteSetTheorems, TLAPS

-----------------------------------------------------------------------------
(* Types.                                                                   *)

LEMMA AnswerTypes ==
    ASSUME NEW state
    PROVE  Answer(state) \in {"waiting", "response", "error"}
  BY DEF Answer

LEMMA ExcessFacts ==
    ASSUME NEW q \in Seq(Id)
    PROVE  /\ Excess(q) \in Nat
           /\ Excess(q) <= Len(q)
           /\ Len(q) - Excess(q) <= MaxCompleted
  BY CoordinatorConstants DEF Excess

\* The deque after its oldest entries are popped.
LEMMA PoppedFacts ==
    ASSUME NEW q \in Seq(Id), NEW n \in Nat, n <= Len(q)
    PROVE  LET p == SubSeq(q, n + 1, Len(q)) IN
           /\ p \in Seq(Id)
           /\ Len(p) = Len(q) - n
           /\ \A i \in 1 .. Len(p) : p[i] = q[i + n]
  <1> DEFINE p == SubSeq(q, n + 1, Len(q))
  <1>1. p \in Seq(Id) /\ Len(p) = Len(q) - n
    BY SubSeqProperties
  <1>2. \A i \in 1 .. Len(p) : p[i] = q[i + n]
    BY <1>1, SubSeqProperties
  <1> QED
    BY <1>1, <1>2

LEMMA PrunedTypes ==
    ASSUME NEW e \in [Id -> Entry \union {None}], NEW q \in Seq(Id)
    PROVE  Pruned(e, q) \in [Id -> Entry \union {None}]
  BY DEF Pruned

-----------------------------------------------------------------------------
(* The steps, on what each of them leaves.                                  *)

LEMMA PlaceTypes ==
    ASSUME TypeOK, NEW c \in Caller, NEW id \in Id, NEW p \in Payload, Place(c, id, p)
    PROVE  TypeOK'
  <1>1. [payload |-> p, state |-> "running"] \in Entry
    BY DEF Entry, States
  <1>2. [id |-> id, payload |-> p, answer |-> "waiting"] \in Waiter
    BY DEF Waiter
  <1> QED
    BY <1>1, <1>2 DEF Place, TypeOK

LEMMA JoinTypes ==
    ASSUME TypeOK, NEW c \in Caller, NEW id \in Id, Join(c, id)
    PROVE  TypeOK'
  <1>1. inflight[id] \in Entry
    BY DEF Join, Known, TypeOK
  <1>2. [id |-> id, payload |-> inflight[id].payload,
         answer |-> Answer(inflight[id].state)] \in Waiter
    BY <1>1, AnswerTypes DEF Entry, Waiter
  <1> QED
    BY <1>2 DEF Join, TypeOK

LEMMA TaskEndsTypes ==
    ASSUME TypeOK, NEW id \in Id, NEW state \in Ended, NEW accept,
           TaskEnds(id, state, accept)
    PROVE  TypeOK'
  <1>1. inflight[id] \in Entry
    BY DEF TaskEnds, Known, TypeOK
  <1>2. inflight' \in [Id -> Entry \union {None}]
    BY <1>1 DEF TaskEnds, TypeOK, Entry, States
  <1>3. accepted' \in [Id -> SUBSET Payload]
    BY <1>1 DEF TaskEnds, TypeOK, Entry
  <1>4. caller' \in [Caller -> Waiter \union {None}]
    <2>1. ASSUME NEW w \in Waiter
          PROVE  [w EXCEPT !.answer = Answer(state)] \in Waiter
      BY AnswerTypes DEF Waiter
    <2>2. \A c \in Caller : caller[c] \in Waiter \union {None}
      BY DEF TypeOK
    <2> QED
      BY <2>1, <2>2 DEF TaskEnds
  <1> QED
    BY <1>2, <1>3, <1>4 DEF TaskEnds, TypeOK

LEMMA FinalizeFailedTypes ==
    ASSUME TypeOK, NEW id \in Id, FinalizeFailed(id)
    PROVE  TypeOK'
  BY DEF FinalizeFailed, TypeOK

LEMMA FinalizeSucceededTypes ==
    ASSUME TypeOK, NEW id \in Id, FinalizeSucceeded(id)
    PROVE  TypeOK'
  <1> DEFINE q == Append(completed, id)
             e == [inflight EXCEPT ![id].state = "response"]
  <1>1. q \in Seq(Id)
    BY AppendProperties DEF TypeOK
  <1>2. e \in [Id -> Entry \union {None}]
    <2>1. inflight[id] \in Entry
      BY DEF FinalizeSucceeded, Known, TypeOK
    <2> QED
      BY <2>1 DEF TypeOK, Entry, States
  <1>3. inflight' = Pruned(e, q) /\ completed' = SubSeq(q, Excess(q) + 1, Len(q))
    BY DEF FinalizeSucceeded
  <1> HIDE DEF q, e
  <1>4. inflight' \in [Id -> Entry \union {None}] /\ completed' \in Seq(Id)
    BY <1>1, <1>2, <1>3, PrunedTypes, PoppedFacts, ExcessFacts
  <1>5. settledAgo' \in [Id -> 0 .. MaxCompleted \union {None}]
    BY CoordinatorConstants DEF FinalizeSucceeded, TypeOK
  <1> QED
    BY <1>4, <1>5 DEF FinalizeSucceeded, TypeOK

LEMMA LeaveTypes ==
    ASSUME TypeOK, NEW c \in Caller, Leave(c)
    PROVE  TypeOK'
  BY DEF Leave, TypeOK

LEMMA TypeStep == TypeOK /\ [Next]_vars => TypeOK'
  <1> SUFFICES ASSUME TypeOK, [Next]_vars PROVE TypeOK'
    OBVIOUS
  <1>1. CASE Next
    BY <1>1, PlaceTypes, JoinTypes, TaskEndsTypes, FinalizeFailedTypes,
       FinalizeSucceededTypes, LeaveTypes
    DEF Next, Submit, SomeTaskEnds, Finalize
  <1>2. CASE UNCHANGED vars
    BY <1>2 DEF vars, TypeOK
  <1> QED
    BY <1>1, <1>2

\* Entries, deque and calls always have their types.
THEOREM CoordinatorTypes == Spec => []TypeOK
  <1>1. Init => TypeOK
    BY DEF Init, TypeOK
  <1> QED
    BY <1>1, TypeStep, PTL DEF Spec

-----------------------------------------------------------------------------
(* Waiters and responses.  What a response says follows from what the       *)
(* entries of ended requests say.                                           *)

SucceededAccepted ==
    \A id \in Id :
        Known(id) /\ inflight[id].state \in {"succeeded", "response"}
        => inflight[id].payload \in accepted[id]

Sound == TypeOK /\ WaitersHaveTask /\ ResponsesMatchRequests /\ SucceededAccepted

LEMMA PlaceSound ==
    ASSUME Sound, TypeOK', NEW c \in Caller, NEW id \in Id, NEW p \in Payload,
           Place(c, id, p)
    PROVE  Sound'
  <1>1. /\ caller' = [caller EXCEPT ![c] =
                        [id |-> id, payload |-> p, answer |-> "waiting"]]
        /\ inflight' = [inflight EXCEPT ![id] = [payload |-> p, state |-> "running"]]
        /\ accepted' = accepted /\ ~Known(id)
    BY DEF Place
  <1>2. inflight' \in [Id -> Entry \union {None}] /\ inflight'[id] # None
        /\ inflight'[id] = [payload |-> p, state |-> "running"]
    <2>1. [payload |-> p, state |-> "running"] \in Entry
      BY DEF Entry, States
    <2> QED
      BY <1>1, <2>1, CoordinatorConstants DEF Sound, TypeOK
  <1>3. WaitersHaveTask'
    BY <1>1, <1>2 DEF Sound, TypeOK, WaitersHaveTask, Known
  <1>4. ResponsesMatchRequests'
    BY <1>1 DEF Sound, TypeOK, ResponsesMatchRequests
  <1>5. SucceededAccepted'
    BY <1>1, <1>2 DEF Sound, TypeOK, SucceededAccepted, Known
  <1> QED
    BY <1>3, <1>4, <1>5 DEF Sound

LEMMA JoinSound ==
    ASSUME Sound, TypeOK', NEW c \in Caller, NEW id \in Id, Join(c, id)
    PROVE  Sound'
  <1> DEFINE w == [id |-> id, payload |-> inflight[id].payload,
                   answer |-> Answer(inflight[id].state)]
  <1>1. /\ caller' = [caller EXCEPT ![c] = w]
        /\ inflight' = inflight /\ accepted' = accepted /\ Known(id)
    BY DEF Join
  <1>2. inflight[id] \in Entry
    BY <1>1 DEF Known, Sound, TypeOK
  <1>3. w.id = id /\ w.payload = inflight[id].payload
        /\ w.answer = Answer(inflight[id].state)
    OBVIOUS
  <1> HIDE DEF w
  <1>4. w.answer = "waiting"
        => inflight[id] = [payload |-> w.payload, state |-> "running"]
    BY <1>2, <1>3 DEF Answer, Entry
  <1>5. w.answer = "response" => w.payload \in accepted[id]
    BY <1>1, <1>2, <1>3 DEF Answer, Sound, SucceededAccepted
  <1>6. WaitersHaveTask'
    BY <1>1, <1>3, <1>4 DEF Sound, TypeOK, WaitersHaveTask, Known
  <1>7. ResponsesMatchRequests'
    BY <1>1, <1>3, <1>5 DEF Sound, TypeOK, ResponsesMatchRequests
  <1>8. SucceededAccepted'
    BY <1>1 DEF Sound, SucceededAccepted, Known
  <1> QED
    BY <1>6, <1>7, <1>8 DEF Sound

LEMMA TaskEndsSound ==
    ASSUME Sound, TypeOK', NEW id \in Id, NEW state \in Ended, NEW accept \in BOOLEAN,
           TaskEnds(id, state, accept)
    PROVE  Sound'
  <1>1. /\ Known(id) /\ inflight[id].state = "running"
        /\ state = "succeeded" => accept
        /\ inflight' = [inflight EXCEPT ![id].state = state]
    BY DEF TaskEnds
  <1>2. inflight[id] \in Entry
    BY <1>1 DEF Known, Sound, TypeOK
  <1>3. /\ \A i \in Id : accepted[i] \subseteq accepted'[i]
        /\ state = "succeeded" => inflight[id].payload \in accepted'[id]
    BY <1>1 DEF TaskEnds, Sound, TypeOK
  <1>4. Answer(state) # "waiting" /\ (Answer(state) = "response" => state = "succeeded")
    BY DEF Answer, Ended
  <1>5. ASSUME NEW c \in Caller, caller'[c] # None
        PROVE  /\ caller[c] # None /\ caller[c] \in Waiter
               /\ caller'[c].id = caller[c].id
               /\ caller'[c].payload = caller[c].payload
               /\ IF caller[c].id = id /\ caller[c].answer = "waiting"
                  THEN caller'[c].answer = Answer(state)
                  ELSE caller'[c] = caller[c]
    <2>1. caller[c] \in Waiter \union {None}
      BY DEF Sound, TypeOK
    <2>2. caller'[c] = IF caller[c] # None /\ caller[c].id = id
                          /\ caller[c].answer = "waiting"
                       THEN [caller[c] EXCEPT !.answer = Answer(state)]
                       ELSE caller[c]
      BY DEF TaskEnds
    <2>3. caller[c] # None
      BY <1>5, <2>2
    <2>4. caller[c] \in Waiter
      BY <2>1, <2>3
    <2> QED
      BY <2>2, <2>3, <2>4 DEF Waiter
  <1>6. WaitersHaveTask'
    <2> SUFFICES ASSUME NEW c \in Caller, caller'[c] # None,
                        caller'[c].answer = "waiting"
                 PROVE  /\ inflight'[caller'[c].id] # None
                        /\ inflight'[caller'[c].id]
                             = [payload |-> caller'[c].payload, state |-> "running"]
      BY DEF WaitersHaveTask, Known
    <2>1. caller[c] = caller'[c] /\ caller[c].id # id /\ caller[c] \in Waiter
      BY <1>4, <1>5
    <2>2. inflight[caller[c].id] # None
          /\ inflight[caller[c].id] = [payload |-> caller[c].payload, state |-> "running"]
      BY <2>1 DEF Sound, WaitersHaveTask, Known
    <2>3. inflight'[caller[c].id] = inflight[caller[c].id]
      BY <1>1, <2>1 DEF Sound, TypeOK, Waiter
    <2> QED
      BY <2>1, <2>2, <2>3
  <1>7. ResponsesMatchRequests'
    <2> SUFFICES ASSUME NEW c \in Caller, caller'[c] # None,
                        caller'[c].answer = "response"
                 PROVE  caller'[c].payload \in accepted'[caller'[c].id]
      BY DEF ResponsesMatchRequests
    <2>1. CASE caller[c].id = id /\ caller[c].answer = "waiting"
      <3>1. inflight[id] = [payload |-> caller[c].payload, state |-> "running"]
        BY <1>5, <2>1 DEF Sound, WaitersHaveTask
      <3>2. inflight[id].payload = caller'[c].payload
        BY <1>5, <3>1
      <3> QED
        BY <1>3, <1>4, <1>5, <2>1, <3>2
    <2>2. CASE ~(caller[c].id = id /\ caller[c].answer = "waiting")
      <3>1. caller[c] # None /\ caller'[c] = caller[c] /\ caller[c].id \in Id
        BY <1>5, <2>2 DEF Waiter
      <3>2. caller[c].payload \in accepted[caller[c].id]
        BY <3>1 DEF Sound, ResponsesMatchRequests
      <3> QED
        BY <1>3, <3>1, <3>2
    <2> QED
      BY <2>1, <2>2
  <1>8. SucceededAccepted'
    <2> SUFFICES ASSUME NEW i \in Id, inflight'[i] # None,
                        inflight'[i].state \in {"succeeded", "response"}
                 PROVE  inflight'[i].payload \in accepted'[i]
      BY DEF SucceededAccepted, Known
    <2>1. CASE i = id
      BY <1>1, <1>2, <1>3, <2>1 DEF Sound, TypeOK, Entry, Ended
    <2>2. CASE i # id
      BY <1>1, <1>3, <2>2 DEF Sound, TypeOK, SucceededAccepted, Known
    <2> QED
      BY <2>1, <2>2
  <1> QED
    BY <1>6, <1>7, <1>8 DEF Sound

\* Finalizing, pruning included, touches no running entry, and leaves of an
\* ended one its payload or nothing.
LEMMA FinalizeEntries ==
    ASSUME TypeOK, NEW id \in Id, Finalize(id)
    PROVE  /\ caller' = caller /\ accepted' = accepted
           /\ \A i \in Id : Known(i) /\ inflight[i].state = "running"
                           => inflight'[i] = inflight[i]
           /\ \A i \in Id : inflight'[i] # None
                => \/ inflight'[i] = inflight[i]
                   \/ /\ inflight[i] # None /\ inflight[i].state = "succeeded"
                      /\ inflight'[i].payload = inflight[i].payload
  <1>1. CASE FinalizeFailed(id)
    BY <1>1 DEF FinalizeFailed, TypeOK, Known
  <1>2. CASE FinalizeSucceeded(id)
    <2> DEFINE q == Append(completed, id)
               e == [inflight EXCEPT ![id].state = "response"]
    <2>1. /\ inflight' = Pruned(e, q) /\ caller' = caller /\ accepted' = accepted
          /\ Known(id) /\ inflight[id].state = "succeeded"
      BY <1>2 DEF FinalizeSucceeded
    <2>2. inflight[id] \in Entry
      BY <2>1 DEF Known, TypeOK
    <2>3. /\ e[id].payload = inflight[id].payload /\ e[id].state = "response"
          /\ \A i \in Id \ {id} : e[i] = inflight[i]
      BY <2>2 DEF TypeOK, Entry
    <2> HIDE DEF e, q
    <2>4. \A i \in Id : inflight'[i] \in {None, e[i]}
      BY <2>1 DEF Pruned
    <2>5. \A i \in Id : e[i] # None /\ e[i].state # "response" => inflight'[i] = e[i]
      BY <2>1 DEF Pruned
    <2> QED
      BY <2>1, <2>3, <2>4, <2>5 DEF Known
  <1> QED
    BY <1>1, <1>2 DEF Finalize

LEMMA FinalizeSound ==
    ASSUME Sound, TypeOK', NEW id \in Id, Finalize(id)
    PROVE  Sound'
  <1>1. /\ caller' = caller /\ accepted' = accepted
        /\ \A i \in Id : Known(i) /\ inflight[i].state = "running"
                        => inflight'[i] = inflight[i]
        /\ \A i \in Id : inflight'[i] # None
             => \/ inflight'[i] = inflight[i]
                \/ /\ inflight[i] # None /\ inflight[i].state = "succeeded"
                   /\ inflight'[i].payload = inflight[i].payload
    BY FinalizeEntries DEF Sound
  <1>2. WaitersHaveTask'
    <2> SUFFICES ASSUME NEW c \in Caller, caller[c] # None, caller[c].answer = "waiting"
                 PROVE  inflight'[caller[c].id] = inflight[caller[c].id]
      BY <1>1 DEF Sound, WaitersHaveTask, Known
    <2>1. caller[c].id \in Id
      BY DEF Sound, TypeOK, Waiter
    <2>2. Known(caller[c].id)
          /\ inflight[caller[c].id] = [payload |-> caller[c].payload, state |-> "running"]
      BY DEF Sound, WaitersHaveTask
    <2>3. inflight[caller[c].id].state = "running"
      BY <2>2
    <2> QED
      BY <1>1, <2>1, <2>2, <2>3
  <1>3. ResponsesMatchRequests'
    BY <1>1 DEF Sound, ResponsesMatchRequests
  <1>4. SucceededAccepted'
    BY <1>1 DEF Sound, SucceededAccepted, Known
  <1> QED
    BY <1>2, <1>3, <1>4 DEF Sound

LEMMA LeaveSound ==
    ASSUME Sound, TypeOK', NEW c \in Caller, Leave(c)
    PROVE  Sound'
  <1>1. inflight' = inflight /\ accepted' = accepted
        /\ \A d \in Caller : caller'[d] \in {None, caller[d]}
    BY DEF Leave, Sound, TypeOK
  <1> QED
    BY <1>1 DEF Sound, WaitersHaveTask, ResponsesMatchRequests, SucceededAccepted, Known

LEMMA SoundStep == Sound /\ [Next]_vars => Sound'
  <1> SUFFICES ASSUME Sound, [Next]_vars PROVE Sound'
    OBVIOUS
  <1>1. TypeOK'
    BY TypeStep DEF Sound
  <1>2. CASE Next
    BY <1>1, <1>2, PlaceSound, JoinSound, TaskEndsSound, FinalizeSound, LeaveSound
    DEF Next, Submit, SomeTaskEnds
  <1>3. CASE UNCHANGED vars
    BY <1>1, <1>3 DEF vars, Sound, WaitersHaveTask, ResponsesMatchRequests,
                      SucceededAccepted, Known
  <1> QED
    BY <1>2, <1>3

LEMMA SoundHolds == Spec => []Sound
  <1>1. Init => Sound
    BY DEF Init, Sound, TypeOK, WaitersHaveTask, ResponsesMatchRequests,
           SucceededAccepted, Known
  <1> QED
    BY <1>1, SoundStep, PTL DEF Spec

\* A caller waits only while the task of its id runs with its parameters,
\* whatever pruning and other callers do.
THEOREM WaitersServed == Spec => []WaitersHaveTask
  <1>1. Sound => WaitersHaveTask
    BY DEF Sound
  <1> QED
    BY <1>1, SoundHolds, PTL

\* A response is for an order the exchange accepted with these parameters.
THEOREM ResponsesMatch == Spec => []ResponsesMatchRequests
  <1>1. Sound => ResponsesMatchRequests
    BY DEF Sound
  <1> QED
    BY <1>1, SoundHolds, PTL

-----------------------------------------------------------------------------
(* The memory of the responses.  An id that settled k settlements ago is    *)
(* the k-th entry from the end of the deque.                                *)

Remembered ==
    \A id \in Id :
        settledAgo[id] \notin {None, MaxCompleted}
        => /\ settledAgo[id] < Len(completed)
           /\ completed[Len(completed) - settledAgo[id]] = id

Kept == TypeOK /\ CompletedAreStored /\ Remembered

\* A step that changes no response, no deque and no age.
LEMMA SameKept ==
    ASSUME Kept, TypeOK', completed' = completed, settledAgo' = settledAgo,
           \A id \in Id : inflight'[id] = inflight[id]
              \/ /\ ~Known(id) \/ inflight[id].state # "response"
                 /\ inflight'[id] # None => inflight'[id].state # "response"
    PROVE  Kept'
  <1>1. Stored' = Stored
    BY DEF Stored, Known
  <1> QED
    BY <1>1 DEF Kept, CompletedAreStored, Remembered

LEMMA PlaceKept ==
    ASSUME Kept, TypeOK', NEW c \in Caller, NEW id \in Id, NEW p \in Payload,
           Place(c, id, p)
    PROVE  Kept'
  <1>1. inflight'[id] = [payload |-> p, state |-> "running"] /\ ~Known(id)
        /\ \A i \in Id \ {id} : inflight'[i] = inflight[i]
    BY DEF Place, Kept, TypeOK
  <1>2. inflight'[id].state # "response"
    BY <1>1
  <1> QED
    BY <1>1, <1>2, SameKept DEF Place

LEMMA TaskEndsKept ==
    ASSUME Kept, TypeOK', NEW id \in Id, NEW state \in Ended, NEW accept,
           TaskEnds(id, state, accept)
    PROVE  Kept'
  <1>1. inflight[id] \in Entry /\ inflight[id].state = "running"
    BY DEF TaskEnds, Known, Kept, TypeOK
  <1>2. inflight'[id].state = state
        /\ \A i \in Id \ {id} : inflight'[i] = inflight[i]
    BY <1>1 DEF TaskEnds, Kept, TypeOK, Entry
  <1> QED
    BY <1>1, <1>2, SameKept DEF TaskEnds, Ended

LEMMA FinalizeFailedKept ==
    ASSUME Kept, TypeOK', NEW id \in Id, FinalizeFailed(id)
    PROVE  Kept'
  <1>1. inflight[id].state # "response" /\ inflight'[id] = None
        /\ \A i \in Id \ {id} : inflight'[i] = inflight[i]
    BY DEF FinalizeFailed, Kept, TypeOK
  <1> QED
    BY <1>1, SameKept DEF FinalizeFailed

LEMMA FinalizeSucceededKept ==
    ASSUME Kept, TypeOK', NEW id \in Id, FinalizeSucceeded(id)
    PROVE  Kept'
  <1> DEFINE n == Len(completed)
             q == Append(completed, id)
             e == [inflight EXCEPT ![id].state = "response"]
             x == Excess(q)
  <1>1. /\ inflight' = Pruned(e, q)
        /\ completed' = SubSeq(q, x + 1, Len(q))
        /\ Known(id) /\ inflight[id].state = "succeeded"
    BY DEF FinalizeSucceeded
  <1>2. /\ n \in Nat /\ n <= MaxCompleted /\ MaxCompleted \in Nat
        /\ \A i, j \in 1 .. n : completed[i] = completed[j] => i = j
        /\ {completed[i] : i \in 1 .. n} = Stored
    BY CoordinatorConstants DEF Kept, TypeOK, CompletedAreStored
  <1>3. /\ q \in Seq(Id) /\ Len(q) = n + 1 /\ q[n + 1] = id
        /\ \A i \in 1 .. n : q[i] = completed[i]
    BY AppendProperties DEF Kept, TypeOK
  <1>4. x \in {0, 1} /\ x <= n + 1 /\ n + 1 - x <= MaxCompleted
        /\ (x = 1 => n = MaxCompleted)
    BY <1>2, <1>3 DEF Excess
  <1> HIDE DEF q, x, n
  <1>5. /\ Len(completed') = n + 1 - x
        /\ \A i \in 1 .. n + 1 - x : completed'[i] = q[i + x]
    <2>1. x \in Nat /\ x <= Len(q) /\ Len(q) - x = n + 1 - x
      BY <1>2, <1>3, <1>4
    <2>2. LET p == SubSeq(q, x + 1, Len(q)) IN
          Len(p) = Len(q) - x /\ \A i \in 1 .. Len(p) : p[i] = q[i + x]
      BY <1>3, <2>1, PoppedFacts
    <2> QED
      BY <1>1, <2>1, <2>2
  <1>6. \A i, j \in 1 .. n + 1 : q[i] = q[j] => i = j
    <2>1. \A i \in 1 .. n : q[i] # id
      <3>1. id \notin Stored
        BY <1>1 DEF Stored
      <3> QED
        BY <1>2, <1>3, <3>1
    <2> QED
      BY <1>2, <1>3, <2>1
  <1>7. \A i \in Id : e[i] # None /\ e[i].state = "response"
                   <=> i \in Stored \/ i = id
    <2>1. inflight[id] \in Entry
      BY <1>1 DEF Known, Kept, TypeOK
    <2>2. e[id] \in Entry /\ e[id].state = "response"
          /\ \A i \in Id \ {id} : e[i] = inflight[i]
      BY <2>1 DEF Kept, TypeOK, Entry, States
    <2>3. e[id] # None
      BY <2>2, CoordinatorConstants
    <2> HIDE DEF e
    <2> QED
      BY <2>2, <2>3 DEF Stored, Known
  <1> HIDE DEF e
  <1>8. \A i \in Id : i \in Stored \/ i = id <=> \E j \in 1 .. n + 1 : q[j] = i
    <2>1. \A i \in Id : i \in Stored <=> \E j \in 1 .. n : completed[j] = i
      BY <1>2
    <2> QED
      BY <1>2, <1>3, <2>1
  <1>9. \A i \in Id : i \in Stored' <=> \E j \in x + 1 .. n + 1 : q[j] = i
    <2>1. ASSUME NEW i \in Id
          PROVE  i \in Stored' <=> \E j \in x + 1 .. n + 1 : q[j] = i
      <3>1. i \in Stored' <=> inflight'[i] # None /\ inflight'[i].state = "response"
        BY DEF Stored, Known
      <3>2. inflight'[i] = IF /\ e[i] # None /\ e[i].state = "response"
                              /\ \E j \in 1 .. x : q[j] = i
                           THEN None ELSE e[i]
        BY <1>1 DEF Pruned, x
      <3>3. i \in Stored' <=> /\ e[i] # None /\ e[i].state = "response"
                             /\ ~\E j \in 1 .. x : q[j] = i
        BY <3>1, <3>2
      <3>4. i \in Stored' <=> /\ \E j \in 1 .. n + 1 : q[j] = i
                             /\ ~\E j \in 1 .. x : q[j] = i
        BY <1>7, <1>8, <3>3
      <3> QED
        BY <1>2, <1>4, <1>6, <3>4
    <2> QED
      BY <2>1
  <1>10. CompletedAreStored'
    <2>1. \A i \in 1 .. n + 1 - x : completed'[i] \in Id
      BY <1>5, ElementOfSeq DEF TypeOK
    <2>2. {completed'[i] : i \in 1 .. Len(completed')} = Stored'
      <3>1. \A i \in Id : (\E j \in 1 .. n + 1 - x : completed'[j] = i)
                        <=> (\E j \in x + 1 .. n + 1 : q[j] = i)
        <4>1. ASSUME NEW i \in Id, NEW j \in x + 1 .. n + 1, q[j] = i
              PROVE  j - x \in 1 .. n + 1 - x /\ completed'[j - x] = i
          BY <1>2, <1>4, <1>5, <4>1
        <4>2. ASSUME NEW i \in Id, NEW j \in 1 .. n + 1 - x, completed'[j] = i
              PROVE  j + x \in x + 1 .. n + 1 /\ q[j + x] = i
          BY <1>2, <1>4, <1>5, <4>2
        <4> QED
          BY <4>1, <4>2
      <3>2. Stored' \subseteq Id
        BY DEF Stored
      <3> QED
        BY <1>5, <1>9, <2>1, <3>1, <3>2
    <2>3. \A i, j \in 1 .. Len(completed') : completed'[i] = completed'[j] => i = j
      <3> SUFFICES ASSUME NEW i \in 1 .. n + 1 - x, NEW j \in 1 .. n + 1 - x,
                          completed'[i] = completed'[j]
                   PROVE  i = j
        BY <1>5
      <3>1. i + x \in 1 .. n + 1 /\ j + x \in 1 .. n + 1
        BY <1>2, <1>4
      <3>2. q[i + x] = q[j + x]
        BY <1>5
      <3>3. i + x = j + x
        BY <1>6, <3>1, <3>2
      <3> QED
        BY <1>2, <1>4, <3>3
    <2> QED
      BY <1>4, <1>5, <2>2, <2>3 DEF CompletedAreStored
  <1>11. Remembered'
    <2> SUFFICES ASSUME NEW i \in Id, settledAgo'[i] \notin {None, MaxCompleted}
                 PROVE  /\ settledAgo'[i] < Len(completed')
                        /\ completed'[Len(completed') - settledAgo'[i]] = i
      BY DEF Remembered
    <2> DEFINE l == n + 1 - x
               At == settledAgo'[i] < l /\ completed'[l - settledAgo'[i]] = i
    <2>0. Len(completed') = l
      BY <1>5
    <2>1. settledAgo'[i] = IF i = id THEN 0
                           ELSE IF settledAgo[i] \in {None, MaxCompleted}
                           THEN settledAgo[i] ELSE settledAgo[i] + 1
      BY DEF FinalizeSucceeded
    <2>2. ASSUME i = id PROVE At
      <3>1. settledAgo'[i] = 0 /\ MaxCompleted > 0
        BY <1>2, <2>1, <2>2
      <3>2. n + 1 - x \in 1 .. n + 1 - x
        BY <1>2, <1>4, <3>1
      <3> QED
        BY <1>2, <1>3, <1>4, <1>5, <2>2, <3>1, <3>2
    <2>3. ASSUME i # id PROVE At
      <3> DEFINE k == settledAgo[i]
      <3>1. k \notin {None, MaxCompleted} /\ settledAgo'[i] = k + 1
        BY <2>1, <2>3
      <3>2. k \in Nat /\ k < MaxCompleted
        BY <1>2, <3>1 DEF Kept, TypeOK
      <3>3. k < n /\ completed[n - k] = i
        BY <3>1 DEF Kept, Remembered, n
      <3> HIDE DEF k
      <3>4. k + 1 < MaxCompleted
        BY <1>2, <3>1, <3>2
      <3>5. n - k - x \in 1 .. n + 1 - x
        BY <1>2, <1>4, <3>2, <3>3, <3>4
      <3>6. completed'[n - k - x] = q[n - k]
        BY <1>2, <1>4, <1>5, <3>2, <3>5
      <3>7. q[n - k] = completed[n - k]
        BY <1>2, <1>3, <3>2, <3>3
      <3>8. n + 1 - x - (k + 1) = n - k - x
        BY <1>2, <1>4, <3>2
      <3> QED
        BY <1>2, <1>4, <3>1, <3>2, <3>3, <3>5, <3>6, <3>7, <3>8
    <2>4. At
      BY <2>2, <2>3
    <2> HIDE DEF l
    <2> QED
      BY <2>0, <2>4
  <1> QED
    BY <1>10, <1>11 DEF Kept

LEMMA KeptStep == Kept /\ [Next]_vars => Kept'
  <1> SUFFICES ASSUME Kept, [Next]_vars PROVE Kept'
    OBVIOUS
  <1>1. TypeOK'
    BY TypeStep DEF Kept
  <1>2. ASSUME NEW c \in Caller, NEW id \in Id, Join(c, id)
        PROVE  Kept'
    BY <1>1, <1>2, SameKept DEF Join
  <1>3. ASSUME NEW c \in Caller, Leave(c)
        PROVE  Kept'
    BY <1>1, <1>3, SameKept DEF Leave
  <1>4. CASE Next
    BY <1>1, <1>2, <1>3, <1>4, PlaceKept, TaskEndsKept, FinalizeFailedKept,
       FinalizeSucceededKept
    DEF Next, Submit, SomeTaskEnds, Finalize
  <1>5. CASE UNCHANGED vars
    BY <1>1, <1>5, SameKept DEF vars
  <1> QED
    BY <1>4, <1>5

LEMMA KeptHolds == Spec => []Kept
  <1>1. Init => Kept
    BY CoordinatorConstants
    DEF Init, Kept, TypeOK, CompletedAreStored, Stored, Known, Remembered
  <1> QED
    BY <1>1, KeptStep, PTL DEF Spec

\* The deque lists exactly the ids whose response is stored, once each, and
\* never more than max_completed_entries of them.
THEOREM CompletedStored == Spec => []CompletedAreStored
  <1>1. Kept => CompletedAreStored
    BY DEF Kept
  <1> QED
    BY <1>1, KeptHolds, PTL

\* No order that has settled is placed again under its id before
\* max_completed_entries other ids have settled.
THEOREM SettledOnce == Spec => SettledNotPlacedAgain
  <1> DEFINE A == \A id \in Id :
                    inflight[id] = None /\ inflight'[id] # None
                    => settledAgo[id] \in {None, MaxCompleted}
  <1>1. Kept => \A id \in Id :
          inflight[id] = None => settledAgo[id] \in {None, MaxCompleted}
    <2> SUFFICES ASSUME Kept, NEW id \in Id,
                        settledAgo[id] \notin {None, MaxCompleted}
                 PROVE  inflight[id] # None
      OBVIOUS
    <2>1. /\ settledAgo[id] \in Nat /\ settledAgo[id] < Len(completed)
          /\ completed[Len(completed) - settledAgo[id]] = id
      BY CoordinatorConstants DEF Kept, Remembered, TypeOK
    <2>2. Len(completed) - settledAgo[id] \in 1 .. Len(completed)
      BY <2>1 DEF Kept, TypeOK
    <2>3. id \in Stored
      BY <2>1, <2>2 DEF Kept, CompletedAreStored
    <2> QED
      BY <2>3 DEF Stored, Known
  <1>2. Kept => [A]_vars
    BY <1>1
  <1> QED
    BY <1>2, KeptHolds, PTL DEF SettledNotPlacedAgain

-----------------------------------------------------------------------------
(* The coordinator implements OrderSubmission: each of its steps is one of  *)
(* the promise, or changes nothing the callers can see.                     *)

Promises == [id \in Id |-> Promise(id)]

\* Only finitely many ids are known at a time, so they can be counted.
KnownFinite == IsFiniteSet({id \in Id : Known(id)})

\* What the promise shows of an entry.
LEMMA PromiseFacts ==
    ASSUME TypeOK, NEW id \in Id
    PROVE  /\ Promises[id] = Promise(id)
           /\ Promise(id) = None <=> ~Known(id)
           /\ Known(id) =>
                /\ inflight[id] \in Entry
                /\ Promise(id).payload = inflight[id].payload
                /\ Promise(id).state = CASE inflight[id].state = "running" -> "outstanding"
                      [] inflight[id].state \in {"succeeded", "response"} -> "settled"
                      [] OTHER -> "failed"
  <1>1. Promises[id] = Promise(id)
    BY DEF Promises
  <1>2. ASSUME Known(id)
        PROVE  /\ inflight[id] \in Entry
               /\ Promise(id) \in [payload: Payload, state: {"outstanding", "settled", "failed"}]
               /\ Promise(id).payload = inflight[id].payload
               /\ Promise(id).state = CASE inflight[id].state = "running" -> "outstanding"
                      [] inflight[id].state \in {"succeeded", "response"} -> "settled"
                      [] OTHER -> "failed"
    <2>1. inflight[id] \in Entry
      BY <1>2 DEF Known, TypeOK
    <2> QED
      BY <1>2, <2>1 DEF Promise, Entry
  <1>3. ~Known(id) => Promise(id) = None
    BY DEF Promise
  <1> QED
    BY <1>1, <1>2, <1>3, CoordinatorConstants

LEMMA SubmissionKnown ==
    ASSUME TypeOK, NEW id \in Id
    PROVE  Submission!Known(id) <=> Known(id)
  BY PromiseFacts DEF Submission!Known, Promises

\* A step that leaves the entries leaves the promises.
LEMMA SamePromises ==
    ASSUME inflight' = inflight
    PROVE  Promises' = Promises
  BY DEF Promises, Promise, Known

\* Entries that agree but for one id promise the same but for it.
LEMMA OtherPromises ==
    ASSUME NEW id \in Id, NEW promise,
           \A i \in Id \ {id} : inflight'[i] = inflight[i], Promise(id)' = promise
    PROVE  Promises' = [Promises EXCEPT ![id] = promise]
  <1>1. \A i \in Id \ {id} : Promise(i)' = Promise(i)
    BY DEF Promise, Known
  <1> QED
    BY <1>1 DEF Promises

LEMMA JoinSubmits ==
    ASSUME TypeOK, NEW c \in Caller, NEW id \in Id, Join(c, id)
    PROVE  Submission!Join(c, id)
  <1>1. Known(id) /\ Submission!Known(id) /\ Promises' = Promises
    BY SubmissionKnown, SamePromises DEF Join
  <1>2. /\ inflight[id] \in Entry /\ Promises[id].payload = inflight[id].payload
        /\ Promises[id].state = CASE inflight[id].state = "running" -> "outstanding"
              [] inflight[id].state \in {"succeeded", "response"} -> "settled"
              [] OTHER -> "failed"
    BY <1>1, PromiseFacts
  <1>3. Submission!Answer(Promises[id].state) = Answer(inflight[id].state)
    BY <1>2 DEF Submission!Answer, Answer
  <1> QED
    BY <1>1, <1>2, <1>3 DEF Join, Submission!Join, Promises

LEMMA PlaceSubmits ==
    ASSUME TypeOK, NEW c \in Caller, NEW id \in Id, NEW p \in Payload, Place(c, id, p)
    PROVE  Submission!Place(c, id, p)
  <1>1. ~Known(id) /\ ~Submission!Known(id)
    BY SubmissionKnown DEF Place
  <1>2. /\ inflight'[id] = [payload |-> p, state |-> "running"]
        /\ \A i \in Id \ {id} : inflight'[i] = inflight[i]
    BY DEF Place, TypeOK
  <1>3. inflight'[id] # None
    <2>1. [payload |-> p, state |-> "running"] \in Entry
      BY DEF Entry, States
    <2> QED
      BY <1>2, <2>1, CoordinatorConstants
  <1>4. Promise(id)' = [payload |-> p, state |-> "outstanding"]
    BY <1>2, <1>3 DEF Promise, Known
  <1>5. Promises' = [Promises EXCEPT ![id] = [payload |-> p, state |-> "outstanding"]]
    BY <1>2, <1>4, OtherPromises
  <1> QED
    BY <1>1, <1>5 DEF Place, Submission!Place, Promises

LEMMA TaskEndsSubmits ==
    ASSUME TypeOK, NEW id \in Id, NEW state \in Ended, NEW accept \in BOOLEAN,
           TaskEnds(id, state, accept)
    PROVE  Submission!End(id, IF state = "succeeded" THEN "settled" ELSE "failed")
  <1> DEFINE end == IF state = "succeeded" THEN "settled" ELSE "failed"
  <1>1. Known(id) /\ Submission!Known(id) /\ inflight[id].state = "running"
    BY SubmissionKnown DEF TaskEnds
  <1>2. inflight[id] \in Entry /\ Promise(id) = [payload |-> inflight[id].payload, state |-> "outstanding"]
    BY <1>1, PromiseFacts DEF Promise
  <1>3. /\ inflight'[id] = [payload |-> inflight[id].payload, state |-> state]
        /\ \A i \in Id \ {id} : inflight'[i] = inflight[i]
    BY <1>2 DEF TaskEnds, TypeOK, Entry
  <1>4. inflight'[id] # None
    <2>1. inflight'[id] \in Entry
      BY <1>2, <1>3 DEF Entry, States, Ended
    <2> QED
      BY <2>1, CoordinatorConstants
  <1>5. Promise(id)' = [payload |-> inflight[id].payload, state |-> end]
    BY <1>3, <1>4 DEF Promise, Known, Ended
  <1>6. Promises[id] = Promise(id)
    BY PromiseFacts
  <1>7. Promises' = [Promises EXCEPT ![id].state = end]
    <2>1. [Promise(id) EXCEPT !.state = end] = [payload |-> inflight[id].payload, state |-> end]
      BY <1>2
    <2>2. Promises' = [Promises EXCEPT ![id] = [payload |-> inflight[id].payload, state |-> end]]
      BY <1>3, <1>5, OtherPromises
    <2> QED
      BY <1>6, <2>1, <2>2
  <1>8. Submission!Answer(end) = Answer(state)
    BY DEF Submission!Answer, Answer, Ended
  <1>9. Promises[id].state = "outstanding"
    BY <1>2, <1>6
  <1> HIDE DEF end
  <1>10. Submission!End(id, end)
    BY <1>1, <1>7, <1>8, <1>9 DEF TaskEnds, Submission!End, Promises
  <1> QED
    BY <1>10 DEF end

LEMMA FinalizeFailedSubmits ==
    ASSUME TypeOK, NEW id \in Id, FinalizeFailed(id)
    PROVE  Submission!Forget(id)
  <1>1. Known(id) /\ Submission!Known(id)
    BY SubmissionKnown DEF FinalizeFailed
  <1>2. Promises[id].state = "failed"
    BY <1>1, PromiseFacts DEF FinalizeFailed
  <1>3. inflight'[id] = None /\ \A i \in Id \ {id} : inflight'[i] = inflight[i]
    BY DEF FinalizeFailed, TypeOK
  <1>4. Promise(id)' = None
    BY <1>3 DEF Promise, Known
  <1>5. Promises' = [Promises EXCEPT ![id] = None]
    BY <1>3, <1>4, OtherPromises
  <1> QED
    BY <1>1, <1>2, <1>5 DEF FinalizeFailed, Submission!Forget, Promises

LEMMA SameCardinality ==
    ASSUME NEW S
    PROVE  Submission!Cardinality(S) = Cardinality(S)
  BY DEF Submission!Cardinality, Cardinality

\* The responses that are stored and the one that joins them are settled: with
\* a full deque there are more of them than the capacity.
LEMMA SettledExceed ==
    ASSUME Kept, KnownFinite, NEW id \in Id, FinalizeSucceeded(id), Len(completed) = MaxCompleted
    PROVE  Submission!Cardinality(Submission!Settled) > MaxCompleted
  <1> DEFINE q == Append(completed, id)
             n == Len(completed)
  <1>1. /\ n \in Nat /\ q \in Seq(Id) /\ Len(q) = n + 1 /\ q[n + 1] = id
        /\ \A i \in 1 .. n : q[i] = completed[i]
    BY AppendProperties DEF Kept, TypeOK
  <1>2. \A i \in 1 .. n : q[i] \in Stored
    BY <1>1 DEF Kept, CompletedAreStored
  <1>3. TypeOK /\ Known(id) /\ inflight[id].state = "succeeded" /\ id \notin Stored
    BY DEF FinalizeSucceeded, Stored, Kept
  <1>4. \A i, j \in 1 .. n + 1 : q[i] = q[j] => i = j
    <2>1. \A i, j \in 1 .. n : q[i] = q[j] => i = j
      BY <1>1 DEF Kept, CompletedAreStored
    <2> QED
      BY <1>1, <1>2, <1>3, <2>1
  <1>5. \A i \in Id : (i \in Stored \/ i = id) => i \in Submission!Settled
    <2> SUFFICES ASSUME NEW i \in Id, i \in Stored \/ i = id
                 PROVE  i \in Submission!Settled
      OBVIOUS
    <2>1. Known(i) /\ inflight[i].state \in {"succeeded", "response"}
      BY <1>3 DEF Stored
    <2>2. Promises[i].state = "settled" /\ Submission!Known(i)
      BY <1>3, <2>1, PromiseFacts, SubmissionKnown
    <2> QED
      BY <2>2 DEF Submission!Settled, Promises
  <1>6. q \in [1 .. n + 1 -> Submission!Settled]
    <2>1. \A i \in 1 .. n + 1 : q[i] \in Id /\ (q[i] \in Stored \/ q[i] = id)
      BY <1>1, <1>2
    <2>2. \A i \in 1 .. n + 1 : q[i] \in Submission!Settled
      BY <1>5, <2>1
    <2>3. q \in [1 .. n + 1 -> Id]
      <3> HIDE DEF q, n
      <3> QED
        BY <1>1
    <2> QED
      BY <2>2, <2>3
  <1>7. IsFiniteSet(Submission!Settled)
    <2>1. Submission!Settled \subseteq {i \in Id : Known(i)}
      BY <1>3, SubmissionKnown DEF Submission!Settled
    <2> QED
      BY <2>1, FS_Subset DEF KnownFinite
  <1>8. IsFiniteSet(1 .. n + 1) /\ Cardinality(1 .. n + 1) = n + 1
    BY <1>1, FS_Interval
  <1>9. Cardinality(Submission!Settled) \in Nat
    BY <1>7, FS_CardinalityType
  <1> HIDE DEF q, n
  <1>10. ASSUME Cardinality(Submission!Settled) < Cardinality(1 .. n + 1)
         PROVE  FALSE
    <2> DEFINE S == Submission!Settled
               D == 1 .. n + 1
    <2>1. q \in [D -> S] /\ IsFiniteSet(S) /\ IsFiniteSet(D) /\ Cardinality(S) < Cardinality(D)
      BY <1>6, <1>7, <1>8, <1>10
    <2> HIDE DEF S, D
    <2>2. \E i, j \in D : i # j /\ q[i] = q[j]
      BY <2>1, FS_PigeonHole, Zenon
    <2> QED
      BY <1>4, <2>2 DEF D
  <1> QED
    BY <1>1, <1>8, <1>9, <1>10, SameCardinality DEF n

\* The request is settled already; a response that is pruned is forgotten.
LEMMA FinalizeSucceededSubmits ==
    ASSUME Kept, KnownFinite, NEW id \in Id, FinalizeSucceeded(id)
    PROVE  (Promises' = Promises /\ UNCHANGED caller) \/ \E i \in Id : Submission!Forget(i)
  <1> DEFINE n == Len(completed)
             q == Append(completed, id)
             e == [inflight EXCEPT ![id].state = "response"]
             x == Excess(q)
  <1>1. /\ inflight' = Pruned(e, q) /\ UNCHANGED caller
        /\ TypeOK /\ Known(id) /\ inflight[id].state = "succeeded"
    BY DEF FinalizeSucceeded, Kept
  <1>2. /\ n \in Nat /\ n <= MaxCompleted /\ MaxCompleted \in Nat
        /\ \A i \in 1 .. n : completed[i] \in Stored
    BY CoordinatorConstants DEF Kept, TypeOK, CompletedAreStored
  <1>3. /\ q \in Seq(Id) /\ Len(q) = n + 1 /\ q[n + 1] = id
        /\ \A i \in 1 .. n : q[i] = completed[i]
    BY AppendProperties DEF Kept, TypeOK
  <1>4. x \in {0, 1} /\ (x = 1 => n = MaxCompleted)
    BY <1>2, <1>3 DEF Excess
  <1>5. /\ e[id] = [payload |-> inflight[id].payload, state |-> "response"] /\ e[id] # None
        /\ \A i \in Id \ {id} : e[i] = inflight[i]
    <2>1. inflight[id] \in Entry
      BY <1>1 DEF Known, TypeOK
    <2>2. e[id] \in Entry /\ e[id] = [payload |-> inflight[id].payload, state |-> "response"]
      BY <1>1, <2>1 DEF TypeOK, Entry, States
    <2> QED
      BY <1>1, <2>2, CoordinatorConstants DEF TypeOK
  <1> HIDE DEF e, q, n, x
  <1>6. \A i \in Id : inflight'[i] = IF /\ e[i] # None /\ e[i].state = "response"
                                        /\ \E k \in 1 .. x : q[k] = i
                                     THEN None ELSE e[i]
    BY <1>1 DEF Pruned, x
  \* An entry that stays promises what it promised.
  <1>7. ASSUME NEW i \in Id, inflight'[i] = e[i]
        PROVE  Promise(i)' = Promise(i)
    <2>1. CASE i = id
      BY <1>1, <1>5, <1>7, <2>1 DEF Promise, Known
    <2>2. CASE i # id
      BY <1>5, <1>7, <2>2 DEF Promise, Known
    <2> QED
      BY <2>1, <2>2
  <1>8. CASE x = 0
    <2>1. \A i \in Id : Promise(i)' = Promise(i)
      BY <1>6, <1>7, <1>8
    <2> QED
      BY <1>1, <2>1 DEF Promises
  <1>9. CASE x = 1
    <2>1. PICK old \in Id : old = q[1] /\ (old \in Stored \/ old = id)
      BY <1>2, <1>3
    <2>2. e[old] # None /\ e[old].state = "response"
      <3>1. CASE old = id
        BY <1>5, <3>1
      <3>2. CASE old # id
        BY <1>5, <2>1, <3>2 DEF Stored, Known
      <3> QED
        BY <3>1, <3>2
    <2>3. inflight'[old] = None /\ \A i \in Id \ {old} : inflight'[i] = e[i]
      BY <1>6, <1>9, <2>1, <2>2
    <2>4. Promise(old)' = None
      BY <2>3 DEF Promise, Known
    <2>5. \A i \in Id \ {old} : Promise(i)' = Promise(i)
      BY <1>7, <2>3
    <2>6. Promises' = [Promises EXCEPT ![old] = None]
      BY <2>4, <2>5 DEF Promises
    <2>7. Known(old) /\ inflight[old].state \in {"succeeded", "response"}
      BY <1>1, <2>1 DEF Stored
    <2>8. Promises[old].state = "settled" /\ Submission!Known(old)
      BY <1>1, <2>7, PromiseFacts, SubmissionKnown
    <2>9. Submission!Cardinality(Submission!Settled) > MaxCompleted
      BY <1>4, <1>9, SettledExceed DEF n
    <2>10. Submission!Forget(old)
      BY <1>1, <2>6, <2>8, <2>9 DEF Submission!Forget, Promises
    <2> QED
      BY <2>10
  <1> QED
    BY <1>4, <1>8, <1>9

LEMMA LeaveSubmits ==
    ASSUME NEW c \in Caller, Leave(c)
    PROVE  Submission!Leave(c)
  BY SamePromises DEF Leave, Submission!Leave, Promises

\* Only placing an order makes an id known.
LEMMA KnownStep == TypeOK /\ KnownFinite /\ [Next]_vars => KnownFinite'
  <1> SUFFICES ASSUME TypeOK, KnownFinite, [Next]_vars PROVE KnownFinite'
    OBVIOUS
  <1> DEFINE K == {id \in Id : Known(id)}
  <1>1. ASSUME NEW id \in Id, \A i \in Id \ {id} : Known(i)' => Known(i)
        PROVE  KnownFinite'
    <2>1. IsFiniteSet(K \union {id})
      BY FS_AddElement DEF KnownFinite
    <2>2. {i \in Id : Known(i)'} \subseteq K \union {id}
      BY <1>1
    <2> HIDE DEF K
    <2>3. IsFiniteSet({i \in Id : Known(i)'})
      BY <2>1, <2>2, FS_Subset
    <2> QED
      BY <2>3 DEF KnownFinite
  <1>2. ASSUME inflight' = inflight
        PROVE  KnownFinite'
    BY <1>2 DEF KnownFinite, Known
  <1>3. ASSUME NEW c \in Caller, NEW id \in Id, NEW p \in Payload, Place(c, id, p)
        PROVE  KnownFinite'
    BY <1>1, <1>3 DEF Place, Known, TypeOK
  <1>4. ASSUME NEW id \in Id, NEW state, NEW accept, TaskEnds(id, state, accept)
        PROVE  KnownFinite'
    BY <1>1, <1>4 DEF TaskEnds, Known, TypeOK
  <1>5. ASSUME NEW id \in Id, FinalizeFailed(id)
        PROVE  KnownFinite'
    BY <1>1, <1>5 DEF FinalizeFailed, Known, TypeOK
  <1>6. ASSUME NEW id \in Id, FinalizeSucceeded(id)
        PROVE  KnownFinite'
    BY <1>1, <1>6 DEF FinalizeSucceeded, Pruned, Known, TypeOK
  <1>7. CASE Next
    BY <1>2, <1>3, <1>4, <1>5, <1>6, <1>7
    DEF Next, Submit, SomeTaskEnds, Finalize, Join, Leave
  <1>8. CASE UNCHANGED vars
    BY <1>2, <1>8 DEF vars
  <1> QED
    BY <1>7, <1>8

LEMMA StepSubmits == Kept /\ KnownFinite /\ [Next]_vars => [Submission!Next]_Submission!vars
  <1> SUFFICES ASSUME Kept, KnownFinite, [Next]_vars
               PROVE  Submission!Next \/ (Promises' = Promises /\ UNCHANGED caller)
    BY DEF Submission!vars, Promises
  <1>1. TypeOK
    BY DEF Kept
  <1>2. ASSUME NEW c \in Caller, NEW id \in Id, Submit(c, id)
        PROVE  Submission!Next
    BY <1>1, <1>2, JoinSubmits, PlaceSubmits DEF Submit, Submission!Next
  <1>3. ASSUME NEW c \in Caller, Leave(c)
        PROVE  Submission!Next
    BY <1>3, LeaveSubmits DEF Submission!Next
  <1>4. ASSUME NEW id \in Id, SomeTaskEnds(id)
        PROVE  Submission!Next
    <2>1. PICK state \in Ended, accept \in BOOLEAN : TaskEnds(id, state, accept)
      BY <1>4 DEF SomeTaskEnds
    <2>2. Submission!End(id, IF state = "succeeded" THEN "settled" ELSE "failed")
      BY <1>1, <2>1, TaskEndsSubmits
    <2>3. (IF state = "succeeded" THEN "settled" ELSE "failed") \in {"settled", "failed"}
      OBVIOUS
    <2> QED
      BY <2>2, <2>3 DEF Submission!Next
  <1>5. ASSUME NEW id \in Id, FinalizeFailed(id)
        PROVE  Submission!Next
    BY <1>1, <1>5, FinalizeFailedSubmits DEF Submission!Next
  <1>6. ASSUME NEW id \in Id, FinalizeSucceeded(id)
        PROVE  Submission!Next \/ (Promises' = Promises /\ UNCHANGED caller)
    BY <1>6, FinalizeSucceededSubmits DEF Submission!Next
  <1>7. CASE UNCHANGED vars
    BY <1>7, SamePromises DEF vars
  <1> QED
    BY <1>2, <1>3, <1>4, <1>5, <1>6, <1>7 DEF Next, Finalize

\* For any number of callers and ids and any capacity the coordinator keeps the
\* promise of OrderSubmission: one outstanding request per id, one answer for
\* all who ask, and nothing settled forgotten before the capacity is exceeded.
THEOREM Implements == Spec => ImplementsSubmission
  <1>1. Init => Submission!Init /\ KnownFinite
    BY FS_EmptySet DEF Init, Submission!Init, Promise, Known, KnownFinite
  <1>2. Spec => []KnownFinite
    <2>1. TypeOK /\ KnownFinite /\ [Next]_vars => KnownFinite'
      BY KnownStep
    <2> QED
      BY <1>1, <2>1, CoordinatorTypes, PTL DEF Spec
  <1> QED
    BY <1>1, <1>2, KeptHolds, StepSubmits, PTL DEF Spec, ImplementsSubmission, Submission!Spec
=============================================================================
