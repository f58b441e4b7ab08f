------------------------ MODULE TraderExecutionProofs ------------------------
(***************************************************************************)
(* Theorems about TraderExecution, for every set of order ids, every       *)
(* combination of faults and every bound on positions and feeds.           *)
(***************************************************************************)
EXTENDS TraderExecution, SequenceTheorems, TLAPS

-----------------------------------------------------------------------------
(* Types, with what a task carries at each of its awaits.                   *)

\* A task at an await carries what its request is made from: the position it
\* closes holds something, the open has a side.
CarriesWhatItNeeds ==
    \A t \in Task :
        /\ task[t].at = "exit" => task[t].held # None /\ task[t].held.quantity # 0
        /\ task[t].at \in {"leverage", "open"} => task[t].side # None

Typed == TypeOK /\ CarriesWhatItNeeds

Update == [id: Order, status: {"live", "filled", "canceled"}]

LEMMA NoneIsNoPosition ==
    None \notin Side /\ "open" # None /\ "close" # None /\ None \notin Order
  BY ExecutionConstants

LEMMA RestTypes ==
    /\ AtRest \in Await
    /\ AtRest.at = "idle" /\ AtRest.side = None /\ AtRest.held = None
  BY DEF AtRest, Await

LEMMA FinishTypes ==
    ASSUME Typed, NEW t \in Task, Finish(t)
    PROVE  task' \in [Task -> Await] /\ CarriesWhatItNeeds'
  BY RestTypes DEF Finish, Typed, TypeOK, CarriesWhatItNeeds

LEMMA UntrackTypes ==
    ASSUME TypeOK, NEW id
    PROVE  Untrack(id) \subseteq Tracked
  BY DEF Untrack, TypeOK

-----------------------------------------------------------------------------
(* The steps of the tasks.                                                  *)

LEMMA DecidesTypes ==
    ASSUME Typed, NEW t \in Task, Decides(t)
    PROVE  Typed'
  <1>1. CASE Skip(t)
    BY <1>1, FinishTypes DEF Skip, Typed, TypeOK, known, exchange
  <1>2. CASE BeginOpen(t)
    <2>1. PICK side \in IF reverse # None THEN {reverse} ELSE Yield \ {None} :
            task' = [task EXCEPT ![t] = [AtRest EXCEPT
              !.at = "leverage", !.side = side, !.reversing = reverse # None]]
      BY <1>2 DEF BeginOpen
    <2>2. side \in Side /\ side # None
      BY NoneIsNoPosition, ExecutionConstants DEF Typed, TypeOK, Yield
    <2>3. [AtRest EXCEPT !.at = "leverage", !.side = side, !.reversing = reverse # None]
            \in Await
      BY <2>2 DEF AtRest, Await
    <2>4. task' \in [Task -> Await] /\ CarriesWhatItNeeds'
      BY <2>1, <2>2, <2>3 DEF Typed, TypeOK, CarriesWhatItNeeds, AtRest
    <2> QED
      BY <1>2, <2>4 DEF BeginOpen, Typed, TypeOK, known, exchange
  <1>3. CASE CheckExit(t)
    <2>1. PICK side \in Yield :
            task' = [task EXCEPT ![t] = [AtRest EXCEPT
              !.at = "exit", !.side = side, !.held = position]]
      BY <1>3 DEF CheckExit
    <2>2. side \in Side \union {None}
      BY ExecutionConstants DEF Yield
    <2>3. position \in Position /\ position # None /\ position.quantity # 0
      BY <1>3 DEF CheckExit, Holding, Typed, TypeOK
    <2>4. [AtRest EXCEPT !.at = "exit", !.side = side, !.held = position] \in Await
      BY <2>2, <2>3 DEF AtRest, Await
    <2>5. task' \in [Task -> Await] /\ CarriesWhatItNeeds'
      BY <2>1, <2>3, <2>4 DEF Typed, TypeOK, CarriesWhatItNeeds, AtRest
    <2> QED
      BY <1>3, <2>5 DEF CheckExit, Typed, TypeOK, known, exchange
  <1> QED
    BY <1>1, <1>2, <1>3 DEF Decides

LEMMA StageTypes ==
    ASSUME Typed, NEW t \in Task, NEW kind \in {"open", "close"}, NEW side \in Side,
           NEW size \in 1 .. MaxPosition, NEW carried \in Await,
           carried.side # None \/ kind = "close",
           Stage(t, kind, side, size, carried)
    PROVE  Typed'
  <1>1. PICK id \in Order \ InUse :
          /\ orders' = orders \union {[id |-> id, intent |-> kind]}
          /\ pending' = kind
          /\ requests' = requests \union {[id |-> id, kind |-> kind, side |-> side,
                                           size |-> size, accepted |-> FALSE]}
          /\ task' = [task EXCEPT ![t] = [carried EXCEPT !.at = kind, !.id = id]]
    BY DEF Stage
  <1>2. [carried EXCEPT !.at = kind, !.id = id] \in Await
    BY DEF Await
  <1>3. task' \in [Task -> Await]
    BY <1>1, <1>2 DEF Typed, TypeOK
  <1>4. CarriesWhatItNeeds'
    BY <1>1 DEF Typed, TypeOK, CarriesWhatItNeeds, Await
  <1>5. [id |-> id, intent |-> kind] \in Tracked
    BY DEF Tracked
  <1>6. [id |-> id, kind |-> kind, side |-> side, size |-> size, accepted |-> FALSE]
          \in Request
    BY DEF Request
  <1>7. orders' \subseteq Tracked /\ requests' \subseteq Request
    BY <1>1, <1>5, <1>6 DEF Typed, TypeOK
  <1> QED
    BY <1>1, <1>3, <1>4, <1>7 DEF Stage, Typed, TypeOK

LEMMA SubmitsTypes ==
    ASSUME Typed, NEW t \in Task, Submits(t)
    PROVE  Typed'
  <1> USE NoneIsNoPosition
  <1>1. CASE SendClose(t)
    <2>1. PICK side \in {None} \union IF Opposite(t) THEN {task[t].side} ELSE {} :
            Stage(t, "close", task[t].held.side, task[t].held.quantity,
                  [AtRest EXCEPT !.side = side])
      BY <1>1 DEF SendClose
    <2>2. task[t].held \in Position /\ task[t].held.quantity # 0
      BY <1>1 DEF SendClose, Typed, TypeOK, CarriesWhatItNeeds, Await
    <2>3. task[t].held.side \in Side /\ task[t].held.quantity \in 1 .. MaxPosition
      BY <2>2, ExecutionConstants DEF Position
    <2>4. side \in Side \union {None}
      BY DEF Typed, TypeOK, Await
    <2>5. [AtRest EXCEPT !.side = side] \in Await
      BY <2>4 DEF AtRest, Await
    <2> QED
      BY <2>1, <2>3, <2>5, StageTypes
  <1>2. CASE NoExit(t)
    BY <1>2, FinishTypes DEF NoExit, Typed, TypeOK, known, exchange
  <1>3. CASE SendOpen(t)
    <2>1. task[t] \in Await /\ task[t].side \in Side /\ task[t].side # None
      BY <1>3 DEF SendOpen, Typed, TypeOK, CarriesWhatItNeeds, Await
    <2>2. 1 \in 1 .. MaxPosition
      BY ExecutionConstants
    <2> QED
      BY <1>3, <2>1, <2>2, StageTypes DEF SendOpen
  <1>4. CASE OpenRefused(t)
    BY <1>4, FinishTypes DEF OpenRefused, Typed, TypeOK, exchange
  <1>5. CASE LeverageFails(t)
    <2>1. task[t].side \in Side
      BY <1>5 DEF LeverageFails, Typed, TypeOK, CarriesWhatItNeeds, Await
    <2> QED
      BY <1>5, <2>1, FinishTypes DEF LeverageFails, Typed, TypeOK, exchange
  <1> QED
    BY <1>1, <1>2, <1>3, <1>4, <1>5 DEF Submits

LEMMA ConcludesTypes ==
    ASSUME Typed, NEW t \in Task, Concludes(t)
    PROVE  Typed'
  <1> USE NoneIsNoPosition
  <1>1. task[t] \in Await
    BY DEF Typed, TypeOK
  <1>2. CASE CloseSucceeds(t)
    BY <1>1, <1>2, FinishTypes DEF CloseSucceeds, Typed, TypeOK, exchange, Await
  <1>3. CASE CloseFails(t)
    BY <1>3, FinishTypes, UntrackTypes DEF CloseFails, Typed, TypeOK, exchange
  <1>4. CASE OpenSucceeds(t)
    BY <1>4, FinishTypes DEF OpenSucceeds, Typed, TypeOK, exchange
  <1>5. CASE OpenFails(t)
    <2>1. task[t].side \in Side
      BY <1>1, <1>5 DEF OpenFails, Typed, CarriesWhatItNeeds, Await
    <2> QED
      BY <1>5, <2>1, FinishTypes, UntrackTypes DEF OpenFails, Typed, TypeOK, exchange
  <1> QED
    BY <1>2, <1>3, <1>4, <1>5 DEF Concludes

-----------------------------------------------------------------------------
(* The steps of the streams and of the exchange.                            *)

LEMMA OrderUpdateTypes ==
    ASSUME Typed, ReceiveOrder
    PROVE  Typed'
  <1> DEFINE m == Head(orderFeed)
             intents == {o.intent : o \in {x \in orders : x.id = m.id}}
             intent == IF intents = {} THEN None ELSE CHOOSE i \in intents : TRUE
  <1>1. m \in Update /\ Tail(orderFeed) \in Seq(Update)
    BY HeadTailProperties DEF ReceiveOrder, Typed, TypeOK, Update
  <1>2. intents \subseteq {"open", "close", None}
    BY DEF Typed, TypeOK, Tracked
  <1>3. intent \in {"open", "close", None}
    BY <1>2
  <1>4. [id |-> m.id, intent |-> intent] \in Tracked
    BY <1>1, <1>3 DEF Tracked, Update
  <1>5. orders' \subseteq Tracked
    <2>1. Untrack(m.id) \subseteq Tracked
      BY UntrackTypes DEF Typed
    <2>2. orders' = IF m.status = "live"
                    THEN Untrack(m.id) \union {[id |-> m.id, intent |-> intent]}
                    ELSE Untrack(m.id)
      BY DEF ReceiveOrder
    <2> HIDE DEF m, intent
    <2> QED
      BY <1>4, <2>1, <2>2
  <1> QED
    BY <1>1, <1>5 DEF ReceiveOrder, Typed, TypeOK, CarriesWhatItNeeds, Update

LEMMA PositionUpdateTypes ==
    ASSUME Typed, ReceivePosition
    PROVE  Typed'
  <1> DEFINE m == Head(positionFeed)
  <1>1. m \in Position /\ Tail(positionFeed) \in Seq(Position)
    BY HeadTailProperties DEF ReceivePosition, Typed, TypeOK
  <1>2. orders' \subseteq Tracked /\ pending' \in {"open", "close", None}
    BY DEF ReceivePosition, Typed, TypeOK, SettledPending
  <1>3. task' \in [Task -> Await] /\ CarriesWhatItNeeds'
    <2>1. CASE UNCHANGED task
      BY <2>1 DEF Typed, TypeOK, CarriesWhatItNeeds
    <2>2. CASE task' = [task EXCEPT !["private"].at = "signals"]
      BY <2>2 DEF Typed, TypeOK, CarriesWhatItNeeds, Await, Task
    <2> QED
      BY <2>1, <2>2 DEF ReceivePosition
  <1> QED
    BY <1>1, <1>2, <1>3 DEF ReceivePosition, Typed, TypeOK

LEMMA AnsweredTypes ==
    ASSUME Typed, NEW r \in requests, NEW answer \in {"accepted", "rejected"},
           Answered(r, answer)
    PROVE  task' \in [Task -> Await] /\ CarriesWhatItNeeds'
  <1>1. \A t \in Task : task[t] \in Await
    BY DEF Typed, TypeOK
  <1>2. \A t \in Task : [task[t] EXCEPT !.answer = answer] \in Await
    BY <1>1 DEF Await
  <1>3. \A t \in Task : /\ task'[t] \in Await
                       /\ task'[t].at = task[t].at /\ task'[t].side = task[t].side
                       /\ task'[t].held = task[t].held
    BY <1>1, <1>2 DEF Answered, Await
  <1> QED
    BY <1>3 DEF Answered, Typed, CarriesWhatItNeeds

LEMMA ExecutesTypes ==
    ASSUME Typed, NEW r \in requests, Executes(r)
    PROVE  Typed'
  <1>1. r \in Request /\ r.id \in Order /\ r.side \in Side
    BY DEF Typed, TypeOK, Request
  <1>2. Filled(r) \in 0 .. MaxPosition
    BY <1>1, ExecutionConstants DEF Executes, Filled, Typed, TypeOK, Request
  <1>3. held' \in [Side -> 0 .. MaxPosition]
    BY <1>2 DEF Executes, Typed, TypeOK
  <1>4. orderFeed' \in Seq(Update)
    <2>1. PICK statuses \in {<<"filled">>, <<"live", "filled">>} :
            orderFeed' = orderFeed \o
              [i \in 1 .. Len(statuses) |-> [id |-> r.id, status |-> statuses[i]]]
      BY DEF Executes
    <2>2. statuses \in Seq({"live", "filled", "canceled"})
      <3>1. <<"filled">> \in Seq({"live", "filled", "canceled"})
        OBVIOUS
      <3>2. <<"live", "filled">> \in Seq({"live", "filled", "canceled"})
        OBVIOUS
      <3> QED
        BY <3>1, <3>2
    <2>3. [i \in 1 .. Len(statuses) |-> [id |-> r.id, status |-> statuses[i]]]
            \in Seq(Update)
      <3>1. \A i \in 1 .. Len(statuses) : statuses[i] \in {"live", "filled", "canceled"}
        BY <2>2, ElementOfSeq
      <3>2. \A i \in 1 .. Len(statuses) :
              [id |-> r.id, status |-> statuses[i]] \in Update
        BY <3>1, <1>1 DEF Update
      <3>3. Len(statuses) \in Nat
        BY <2>2
      <3> QED
        BY <3>2, <3>3, IsASeq
    <2> QED
      BY <2>1, <2>3, ConcatProperties DEF Typed, TypeOK, Update
  <1>5. positionFeed' \in Seq(Position)
    <2>1. [side |-> r.side, quantity |-> Filled(r)] \in Position
      BY <1>1, <1>2 DEF Position
    <2> QED
      BY <2>1, AppendProperties DEF Executes, Typed, TypeOK
  <1>6. task' \in [Task -> Await] /\ CarriesWhatItNeeds'
    BY AnsweredTypes DEF Executes
  <1>7. requests' \subseteq Request /\ exposed' \in BOOLEAN
    BY DEF Executes, Typed, TypeOK
  <1> QED
    BY <1>3, <1>4, <1>5, <1>6, <1>7 DEF Executes, known, Typed, TypeOK, Update

LEMMA ExchangeTypes ==
    ASSUME Typed, Exchange
    PROVE  Typed'
  <1>1. PICK r \in requests : Accepts(r) \/ Executes(r) \/ Rejects(r) \/ Cancels(r)
    BY DEF Exchange, Settles
  <1>2. r \in Request /\ r.id \in Order
    BY DEF Typed, TypeOK, Request
  <1>3. CASE Accepts(r)
    <2>1. [r EXCEPT !.accepted = TRUE] \in Request
      BY <1>2 DEF Request
    <2>2. requests' \subseteq Request
      BY <1>3, <2>1 DEF Accepts, Typed, TypeOK
    <2> QED
      BY <1>3, <2>2, AnsweredTypes DEF Accepts, known, Typed, TypeOK
  <1>4. CASE Executes(r)
    BY <1>4, ExecutesTypes
  <1>5. CASE Rejects(r)
    BY <1>5, AnsweredTypes DEF Rejects, known, Typed, TypeOK
  <1>6. CASE Cancels(r)
    <2>1. [id |-> r.id, status |-> "canceled"] \in Update
      BY <1>2 DEF Update
    <2>2. orderFeed' \in Seq(Update)
      BY <1>6, <2>1, AppendProperties DEF Cancels, Typed, TypeOK, Update
    <2> QED
      BY <1>6, <2>2, AnsweredTypes DEF Cancels, known, Typed, TypeOK, Update
  <1> QED
    BY <1>1, <1>3, <1>4, <1>5, <1>6

LEMMA ReportTypes ==
    ASSUME TypeOK, NEW side \in Side
    PROVE  Report(side) \in Seq(Position)
  <1>1. [side |-> side, quantity |-> held[side]] \in Position
    BY DEF TypeOK, Position
  <1> QED
    BY <1>1 DEF Report

LEMMA ReconnectTypes ==
    ASSUME Typed, Reconnect
    PROVE  Typed'
  <1>1. PICK first \in Side, second \in Side : positionFeed' = Report(first) \o Report(second)
    BY DEF Reconnect, Resubscribed
  <1>2. positionFeed' \in Seq(Position)
    BY <1>1, ReportTypes, ConcatProperties DEF Typed
  <1>3. orderFeed' \in Seq(Update)
    BY DEF Reconnect, Resubscribed
  <1> QED
    BY <1>2, <1>3 DEF Reconnect, known, Typed, TypeOK, CarriesWhatItNeeds, Update

LEMMA InitTypes == Init => Typed
  <1> SUFFICES ASSUME Init PROVE Typed
    OBVIOUS
  <1>1. task \in [Task -> Await] /\ CarriesWhatItNeeds
    BY RestTypes DEF Init, CarriesWhatItNeeds
  <1>2. held \in [Side -> 0 .. MaxPosition]
    BY ExecutionConstants DEF Init
  <1>3. orderFeed \in Seq(Update) /\ positionFeed \in Seq(Position)
    BY EmptySeq DEF Init
  <1> QED
    BY <1>1, <1>2, <1>3 DEF Init, Typed, TypeOK, Update

LEMMA NextTypes ==
    ASSUME Typed, [Next]_vars
    PROVE  Typed'
  <1>1. CASE Evaluate
    BY <1>1 DEF Evaluate, known, exchange, Typed, TypeOK, CarriesWhatItNeeds, Await, Task
  <1>2. CASE NewCandle \/ CooldownExpires
    BY <1>2 DEF NewCandle, CooldownExpires, exchange, Typed, TypeOK, CarriesWhatItNeeds
  <1>3. CASE \E t \in Task : TaskStep(t)
    BY <1>3, DecidesTypes, SubmitsTypes, ConcludesTypes DEF TaskStep
  <1>4. CASE Private
    BY <1>4, OrderUpdateTypes, PositionUpdateTypes DEF Private
  <1>5. CASE Exchange
    BY <1>5, ExchangeTypes
  <1>6. CASE Reconnect
    BY <1>6, ReconnectTypes
  <1>7. CASE UNCHANGED vars
    BY <1>7 DEF vars, known, exchange, Typed, TypeOK, CarriesWhatItNeeds
  <1> QED
    BY <1>1, <1>2, <1>3, <1>4, <1>5, <1>6, <1>7 DEF Next

LEMMA AlwaysTyped == Spec => []Typed
  BY InitTypes, NextTypes, PTL DEF Spec

\* Orders, tasks, requests and feeds keep their types: in particular no close
\* of nothing and no open without a side ever goes out.
THEOREM ExecutionTypes == Spec => []TypeOK
  <1>1. Typed => TypeOK
    BY DEF Typed
  <1> QED
    BY AlwaysTyped, <1>1, PTL

-----------------------------------------------------------------------------
(* A strategy of one side s.                                                *)

OpenRequested == \E r \in requests : r.kind = "open"

\* Nothing but s is ever signalled, so nothing is reversed.
OneSided(s) ==
    /\ reverse = None /\ task["private"].at = "idle"
    /\ \A t \in Task : task[t].side \in {s, None}
    /\ \A t \in Task : task[t].held # None => task[t].held.side = s
    /\ task["public"].at = "close" => task["public"].side = None
    /\ \A r \in requests : r.side = s
    /\ \A side \in Side \ {s} : held[side] = 0
    /\ \A i \in 1 .. Len(positionFeed) : positionFeed[i].side = s
    /\ position # None => position.side = s

\* The last message of the feed, or the last one read, says what is held.
Reported(s) ==
    IF positionFeed = <<>>
    THEN held[s] > 0 => position # None /\ position.quantity = held[s]
    ELSE positionFeed[Len(positionFeed)].quantity = held[s]

\* One open at a time is on its way, and none while something is held.
Apart(s) ==
    /\ OpenRequested => held[s] = 0
    /\ \A r1, r2 \in requests : r1.kind = "open" /\ r2.kind = "open" => r1 = r2
    /\ exposed => held[s] > 0

\* Nothing the trader knows of keeps it from opening.
Unaware(s) == ~Holding /\ pending # "open" /\ s \notin cooling

\* The trader is unaware only of nothing, and a flat position in the feed is
\* the last news there is.
Noticed(s) ==
    /\ Unaware(s) => positionFeed = <<>> /\ held[s] = 0 /\ ~OpenRequested
    /\ s \notin cooling =>
        \A i \in 1 .. Len(positionFeed) : positionFeed[i].quantity = 0
            => i = Len(positionFeed) /\ ~OpenRequested
    /\ task["public"].at = "leverage" => Unaware(s)
    /\ task["public"].at \in {"exit", "close"} => pending # "open"

SideInv(s) == Typed /\ OneSided(s) /\ Reported(s) /\ Apart(s) /\ Noticed(s)

LEMMA InitSide ==
    ASSUME NEW s \in Side, Init
    PROVE  SideInv(s)
  BY InitTypes, RestTypes
     DEF Init, SideInv, OneSided, Reported, Apart, Noticed, Unaware, OpenRequested, Task, AtRest

\* A step that leaves the exchange alone and the position too.
LEMMA QuietSide ==
    ASSUME NEW s \in Side, SideInv(s), UNCHANGED <<position, reverse, exchange>>,
           Typed',
           task'["private"].at = "idle",
           \A t \in Task : task'[t].side \in {s, None},
           \A t \in Task : task'[t].held # None => task'[t].held.side = s,
           task'["public"].at = "close" => task'["public"].side = None,
           cooling \subseteq cooling',
           Unaware(s)' => Unaware(s),
           task'["public"].at = "leverage" => Unaware(s)',
           task'["public"].at \in {"exit", "close"} => pending' # "open"
    PROVE  SideInv(s)'
  <1>1. OneSided(s)'
    BY DEF SideInv, OneSided, exchange
  <1>2. Reported(s)' /\ Apart(s)'
    BY DEF SideInv, Reported, Apart, OpenRequested, exchange
  <1>3. Noticed(s)'
    BY DEF SideInv, Noticed, OpenRequested, exchange
  <1> QED
    BY <1>1, <1>2, <1>3 DEF SideInv

\* What a finished task leaves behind.
LEMMA FinishSide ==
    ASSUME NEW s \in Side, SideInv(s), NEW t \in Task, Finish(t)
    PROVE  /\ task'["private"].at = "idle"
           /\ \A u \in Task : task'[u].side \in {s, None}
           /\ \A u \in Task : task'[u].held # None => task'[u].held.side = s
           /\ task'["public"].at \in {"idle", task["public"].at}
           /\ task'["public"].at = "close" => task'["public"].side = None
           /\ t = "public" => task'["public"].at = "idle"
  BY RestTypes DEF Finish, SideInv, OneSided, Typed, TypeOK, Task

\* Only the public task ever leaves its rest.
LEMMA PublicActs ==
    ASSUME NEW s \in Side, SideInv(s), NEW t \in Task, task[t].at # "idle"
    PROVE  t = "public"
  BY DEF SideInv, OneSided, Task

LEMMA NothingOpposite ==
    ASSUME NEW s \in Side, SignalSides = {s}, SideInv(s), NEW t \in Task,
           task[t].at = "exit"
    PROVE  ~Opposite(t)
  BY ExecutionConstants, NoneIsNoPosition
     DEF SideInv, OneSided, Opposite, Typed, CarriesWhatItNeeds

LEMMA DecidesSide ==
    ASSUME NEW s \in Side, SignalSides = {s}, SideInv(s), Typed', NEW t \in Task, Decides(t)
    PROVE  SideInv(s)'
  <1>1. t = "public" /\ task[t].at = "signals"
    BY PublicActs DEF Decides, Skip, BeginOpen, CheckExit, ActsOn
  <1>2. CASE Skip(t)
    BY <1>1, <1>2, FinishSide, QuietSide DEF Skip, known, Unaware, Holding
  <1>3. CASE BeginOpen(t)
    <2>1. PICK side \in Yield \ {None} :
            /\ side \notin cooling
            /\ task' = [task EXCEPT ![t] = [AtRest EXCEPT
                 !.at = "leverage", !.side = side, !.reversing = reverse # None]]
      BY <1>3 DEF BeginOpen, SideInv, OneSided
    <2>2. side = s
      BY <2>1 DEF Yield
    <2>3. Unaware(s)
      BY <1>3, <2>1, <2>2, NoneIsNoPosition DEF BeginOpen, ActsOn, Exposed, Unaware
    <2>4. /\ task'["public"].at = "leverage" /\ task'["public"].side = s
          /\ task'["public"].held = None /\ task'["private"] = task["private"]
      BY <1>1, <2>1, <2>2 DEF SideInv, Typed, TypeOK, AtRest, Task
    <2>5. /\ \A u \in Task : task'[u].side \in {s, None}
         /\ \A u \in Task : task'[u].held # None => task'[u].held.side = s
      BY <2>4 DEF SideInv, OneSided, Task
    <2>6. UNCHANGED <<position, orders, pending, reverse, cooling, entered, exchange>>
      BY <1>3 DEF BeginOpen, known
    <2>7. Unaware(s)' <=> Unaware(s)
      BY <2>6 DEF Unaware, Holding
    <2>8. task'["private"].at = "idle"
      BY <2>4 DEF SideInv, OneSided
    <2> QED
      BY <2>3, <2>4, <2>5, <2>6, <2>7, <2>8, QuietSide
  <1>4. CASE CheckExit(t)
    <2>1. PICK side \in Yield :
            task' = [task EXCEPT ![t] = [AtRest EXCEPT
              !.at = "exit", !.side = side, !.held = position]]
      BY <1>4 DEF CheckExit
    <2>2. side \in {s, None}
      BY DEF Yield
    <2>3. pending # "open" /\ position # None /\ position.side = s
      BY <1>4, NoneIsNoPosition DEF CheckExit, ActsOn, Holding, SideInv, OneSided
    <2>4. /\ task'["public"].at = "exit" /\ task'["public"].side \in {s, None}
          /\ task'["public"].held = position /\ task'["private"] = task["private"]
      BY <1>1, <2>1, <2>2 DEF SideInv, Typed, TypeOK, AtRest, Task
    <2>5. /\ \A u \in Task : task'[u].side \in {s, None}
         /\ \A u \in Task : task'[u].held # None => task'[u].held.side = s
      BY <2>3, <2>4 DEF SideInv, OneSided, Task
    <2>6. UNCHANGED <<position, orders, pending, reverse, cooling, entered, exchange>>
      BY <1>4 DEF CheckExit, known
    <2>7. Unaware(s)' <=> Unaware(s)
      BY <2>6 DEF Unaware, Holding
    <2>8. task'["private"].at = "idle"
      BY <2>4 DEF SideInv, OneSided
    <2> QED
      BY <2>3, <2>4, <2>5, <2>6, <2>7, <2>8, QuietSide
  <1> QED
    BY <1>2, <1>3, <1>4 DEF Decides

LEMMA SubmitsSide ==
    ASSUME NEW s \in Side, SignalSides = {s}, SideInv(s), Typed', NEW t \in Task, Submits(t)
    PROVE  SideInv(s)'
  <1>1. t = "public"
    BY PublicActs DEF Submits, SendClose, NoExit, SendOpen, OpenRefused, LeverageFails
  <1>2. CASE SendClose(t)
    <2>1. Stage(t, "close", task[t].held.side, task[t].held.quantity,
                [AtRest EXCEPT !.side = None])
      BY <1>2, NothingOpposite DEF SendClose
    <2>2. task[t].held.side = s /\ pending # "open" /\ task[t].at = "exit"
      BY <1>1, <1>2 DEF SendClose, SideInv, OneSided, Noticed, Typed, CarriesWhatItNeeds
    <2>3. PICK id \in Order \ InUse :
            /\ pending' = "close"
            /\ requests' = requests \union {[id |-> id, kind |-> "close", side |-> s,
                                             size |-> task[t].held.quantity, accepted |-> FALSE]}
            /\ task' = [task EXCEPT ![t] =
                          [[AtRest EXCEPT !.side = None] EXCEPT !.at = "close", !.id = id]]
            /\ UNCHANGED <<position, reverse, cooling, entered, held, orderFeed,
                           positionFeed, exposed>>
      BY <2>1, <2>2 DEF Stage
    <2>4. /\ task'["public"].at = "close" /\ task'["public"].side = None
          /\ task'["public"].held = None /\ task'["private"] = task["private"]
      BY <1>1, <2>3 DEF SideInv, Typed, TypeOK, AtRest, Task
    <2>5. OpenRequested' <=> OpenRequested
      BY <2>3 DEF OpenRequested
    <2>6. OneSided(s)'
      <3>1. /\ \A u \in Task : task'[u].side \in {s, None}
           /\ \A u \in Task : task'[u].held # None => task'[u].held.side = s
        BY <2>4 DEF SideInv, OneSided, Task
      <3>2. \A r \in requests' : r.side = s
        BY <2>3 DEF SideInv, OneSided
      <3>3. UNCHANGED <<reverse, held, position, positionFeed>>
        BY <2>3
      <3>4. /\ task'["private"].at = "idle"
            /\ task'["public"].at = "close" => task'["public"].side = None
        BY <2>4 DEF SideInv, OneSided
      <3> QED
        BY <3>1, <3>2, <3>3, <3>4 DEF SideInv, OneSided
    <2>7. Reported(s)' /\ Apart(s)'
      BY <2>3, <2>5 DEF SideInv, Reported, Apart
    <2>8. Noticed(s)'
      BY <2>2, <2>3, <2>4, <2>5 DEF SideInv, Noticed, Unaware, Holding
    <2> QED
      BY <2>6, <2>7, <2>8 DEF SideInv
  <1>3. CASE NoExit(t)
    BY <1>1, <1>3, FinishSide, QuietSide DEF NoExit, known, Unaware, Holding
  <1>4. CASE SendOpen(t)
    <2>1. task[t].side = s /\ task[t].at = "leverage"
      BY <1>4 DEF SendOpen, SideInv, OneSided, Typed, CarriesWhatItNeeds
    <2>2. Unaware(s) /\ positionFeed = <<>> /\ held[s] = 0 /\ ~OpenRequested
      BY <1>1, <2>1 DEF SideInv, Noticed
    <2>3. PICK id \in Order \ InUse :
            /\ pending' = "open"
            /\ requests' = requests \union {[id |-> id, kind |-> "open", side |-> s,
                                             size |-> 1, accepted |-> FALSE]}
            /\ task' = [task EXCEPT ![t] = [task[t] EXCEPT !.at = "open", !.id = id]]
            /\ UNCHANGED <<position, reverse, cooling, entered, held, orderFeed,
                           positionFeed, exposed>>
      BY <1>4, <2>1 DEF SendOpen, Stage
    <2>4. /\ task'["public"].at = "open" /\ task'["public"].side = task["public"].side
          /\ task'["public"].held = task["public"].held /\ task'["private"] = task["private"]
      BY <1>1, <2>3 DEF SideInv, Typed, TypeOK, Task, Await
    <2>5. OneSided(s)'
      <3>1. /\ \A u \in Task : task'[u].side \in {s, None}
           /\ \A u \in Task : task'[u].held # None => task'[u].held.side = s
        BY <2>4 DEF SideInv, OneSided, Task
      <3>2. \A r \in requests' : r.side = s
        BY <2>3 DEF SideInv, OneSided
      <3>3. UNCHANGED <<reverse, held, position, positionFeed>>
        BY <2>3
      <3>4. /\ task'["private"].at = "idle"
            /\ task'["public"].at = "close" => task'["public"].side = None
        BY <2>4 DEF SideInv, OneSided
      <3> QED
        BY <3>1, <3>2, <3>3, <3>4 DEF SideInv, OneSided
    <2>6. Reported(s)' /\ Apart(s)'
      BY <2>2, <2>3 DEF SideInv, Reported, Apart, OpenRequested
    <2>7. Noticed(s)'
      BY <2>2, <2>3, <2>4 DEF Noticed, Unaware
    <2> QED
      BY <2>5, <2>6, <2>7 DEF SideInv
  <1>5. CASE OpenRefused(t)
    <2>1. task["public"].at = "leverage" /\ Unaware(s)
      BY <1>1, <1>5 DEF OpenRefused, SideInv, Noticed
    <2> QED
      BY <1>1, <1>5, <2>1, FinishSide, QuietSide DEF OpenRefused, Unaware, Holding
  <1>6. CASE LeverageFails(t)
    <2>1. task[t].side = s
      BY <1>6 DEF LeverageFails, SideInv, OneSided, Typed, CarriesWhatItNeeds
    <2> QED
      BY <1>1, <1>6, <2>1, FinishSide, QuietSide DEF LeverageFails, Unaware, Holding
  <1> QED
    BY <1>2, <1>3, <1>4, <1>5, <1>6 DEF Submits

LEMMA ConcludesSide ==
    ASSUME NEW s \in Side, SignalSides = {s}, SideInv(s), Typed', NEW t \in Task, Concludes(t)
    PROVE  SideInv(s)'
  <1>1. t = "public"
    BY PublicActs DEF Concludes, CloseSucceeds, CloseFails, OpenSucceeds, OpenFails
  <1>2. CASE CloseSucceeds(t)
    <2>1. reverse' = reverse
      BY <1>1, <1>2 DEF CloseSucceeds, SideInv, OneSided
    <2> QED
      BY <1>1, <1>2, <2>1, FinishSide, QuietSide DEF CloseSucceeds, Unaware, Holding
  <1>3. CASE CloseFails(t)
    <2>1. pending # "open"
      BY <1>1, <1>3 DEF CloseFails, SideInv, Noticed
    <2> QED
      BY <1>1, <1>3, <2>1, FinishSide, QuietSide DEF CloseFails, Unaware, Holding
  <1>4. CASE OpenSucceeds(t)
    <2>1. reverse' = reverse
      BY <1>4 DEF OpenSucceeds, SideInv, OneSided
    <2> QED
      BY <1>1, <1>4, <2>1, FinishSide, QuietSide DEF OpenSucceeds, Unaware, Holding
  <1>5. CASE OpenFails(t)
    <2>1. task[t].side = s
      BY <1>5 DEF OpenFails, SideInv, OneSided, Typed, CarriesWhatItNeeds
    <2> QED
      BY <1>1, <1>5, <2>1, FinishSide, QuietSide DEF OpenFails, Unaware, Holding
  <1> QED
    BY <1>2, <1>3, <1>4, <1>5 DEF Concludes

LEMMA EvaluateSide ==
    ASSUME NEW s \in Side, SideInv(s), Typed', Evaluate
    PROVE  SideInv(s)'
  <1>1. /\ task'["public"].at = "signals" /\ task'["public"].side = task["public"].side
        /\ task'["public"].held = task["public"].held /\ task'["private"] = task["private"]
    BY DEF Evaluate, SideInv, Typed, TypeOK, Task, Await
  <1>2. /\ \A u \in Task : task'[u].side \in {s, None}
        /\ \A u \in Task : task'[u].held # None => task'[u].held.side = s
    BY <1>1 DEF SideInv, OneSided, Task
  <1>3. UNCHANGED <<position, orders, pending, reverse, cooling, entered, exchange>>
    BY DEF Evaluate, known
  <1>4. Unaware(s)' <=> Unaware(s)
    BY <1>3 DEF Unaware, Holding
  <1>5. task'["private"].at = "idle"
    BY <1>1 DEF SideInv, OneSided
  <1> QED
    BY <1>1, <1>2, <1>3, <1>4, <1>5, QuietSide

LEMMA NewCandleSide ==
    ASSUME NEW s \in Side, SideInv(s), Typed', NewCandle
    PROVE  SideInv(s)'
  <1>1. Unaware(s)' <=> Unaware(s)
    BY DEF NewCandle, Unaware, Holding
  <1> QED
    BY <1>1, QuietSide DEF NewCandle, SideInv, OneSided, Noticed

\* A cooldown ends only when the trader has read what the exchange did.
LEMMA CooldownSide ==
    ASSUME NEW s \in Side, SideInv(s), Typed', CooldownExpires
    PROVE  SideInv(s)'
  <1>1. requests = {} /\ positionFeed = <<>>
    BY DEF CooldownExpires
  <1>2. held[s] > 0 => Holding
    BY <1>1 DEF SideInv, Reported, Holding
  <1>3. held[s] \in Nat
    BY DEF SideInv, Typed, TypeOK
  <1>4. Unaware(s)' => held[s] = 0
    BY <1>2, <1>3 DEF CooldownExpires, Unaware, Holding
  <1>5. task["public"].at = "leverage" => Unaware(s)'
    BY DEF SideInv, Noticed, CooldownExpires, Unaware, Holding
  <1>6. OneSided(s)' /\ Reported(s)' /\ Apart(s)'
    BY DEF SideInv, OneSided, Reported, Apart, OpenRequested, CooldownExpires, exchange
  <1>7. Noticed(s)'
    BY <1>1, <1>4, <1>5 DEF SideInv, Noticed, OpenRequested, CooldownExpires, exchange
  <1> QED
    BY <1>6, <1>7 DEF SideInv

LEMMA OrderUpdateSide ==
    ASSUME NEW s \in Side, SideInv(s), Typed', ReceiveOrder
    PROVE  SideInv(s)'
  <1>1. UNCHANGED <<position, pending, reverse, cooling, task, requests, held,
                    positionFeed, exposed>>
    BY DEF ReceiveOrder
  <1>2. OneSided(s)' /\ Reported(s)' /\ Apart(s)'
    BY <1>1 DEF SideInv, OneSided, Reported, Apart, OpenRequested
  <1>3. Noticed(s)'
    BY <1>1 DEF SideInv, Noticed, Unaware, Holding, OpenRequested
  <1> QED
    BY <1>2, <1>3 DEF SideInv

\* What is left of a feed when its first message is read.
LEMMA TailFacts ==
    ASSUME NEW q \in Seq(Position), q # <<>>
    PROVE  /\ Head(q) = q[1] /\ Head(q) \in Position /\ 1 \in 1 .. Len(q)
           /\ Tail(q) \in Seq(Position) /\ Len(Tail(q)) = Len(q) - 1
           /\ \A i \in 1 .. Len(Tail(q)) : Tail(q)[i] = q[i + 1] /\ i + 1 \in 1 .. Len(q)
           /\ Tail(q) = <<>> <=> Len(q) = 1
  <1>1. Len(q) \in Nat /\ Len(q) > 0 /\ 1 \in 1 .. Len(q)
    BY EmptySeq, LenProperties
  <1>2. Head(q) = q[1] /\ Head(q) \in Position
    BY <1>1, ElementOfSeq
  <1>3. /\ Tail(q) \in Seq(Position) /\ Len(Tail(q)) = Len(q) - 1
        /\ \A i \in 1 .. Len(Tail(q)) : Tail(q)[i] = q[i + 1]
    BY <1>1, HeadTailProperties
  <1>4. \A i \in 1 .. Len(Tail(q)) : i + 1 \in 1 .. Len(q)
    BY <1>1, <1>3
  <1>5. Tail(q) = <<>> <=> Len(q) = 1
    BY <1>1, <1>3, EmptySeq
  <1> QED
    BY <1>1, <1>2, <1>3, <1>4, <1>5

LEMMA PositionUpdateSide ==
    ASSUME NEW s \in Side, SideInv(s), Typed', ReceivePosition
    PROVE  SideInv(s)'
  <1> DEFINE m == Head(positionFeed)
  <1>1. positionFeed \in Seq(Position) /\ positionFeed # <<>> /\ Len(positionFeed) \in Nat
    BY DEF ReceivePosition, SideInv, Typed, TypeOK
  <1>2. /\ UNCHANGED <<reverse, cooling, requests, held, exposed, task>>
        /\ position' = m /\ positionFeed' = Tail(positionFeed)
        /\ pending' = SettledPending(m.quantity)
    BY DEF ReceivePosition, SideInv, OneSided
  <1>3. m \in Position /\ m # None /\ m.side = s
    <2>1. m \in Position /\ m.side = s
      BY <1>1, TailFacts DEF SideInv, OneSided
    <2>2. m # None
      BY <2>1, ExecutionConstants DEF Position
    <2> QED
      BY <2>1, <2>2
  <1>4. OneSided(s)'
    <2>1. \A i \in 1 .. Len(positionFeed') : positionFeed'[i].side = s
      BY <1>1, <1>2, TailFacts DEF SideInv, OneSided
    <2> QED
      BY <1>2, <1>3, <2>1 DEF SideInv, OneSided
  <1>5. Reported(s)'
    BY <1>1, <1>2, <1>3, TailFacts DEF SideInv, Reported
  <1>6. Apart(s)'
    BY <1>2 DEF SideInv, Apart, OpenRequested
  <1>7. Unaware(s)' => positionFeed' = <<>> /\ held[s] = 0 /\ ~OpenRequested
    <2>1. SUFFICES ASSUME Unaware(s)'
                   PROVE  positionFeed' = <<>> /\ held[s] = 0 /\ ~OpenRequested
      OBVIOUS
    <2>2. m.quantity = 0 /\ s \notin cooling
      BY <1>2, <1>3, <2>1 DEF Unaware, Holding
    <2>3. 1 = Len(positionFeed) /\ ~OpenRequested
      BY <1>1, <2>2, TailFacts DEF SideInv, Noticed
    <2>4. positionFeed[Len(positionFeed)].quantity = 0
      BY <1>1, <2>2, <2>3, TailFacts
    <2> QED
      BY <1>1, <1>2, <2>3, <2>4, TailFacts DEF SideInv, Reported
  <1>8. s \notin cooling' => \A i \in 1 .. Len(positionFeed') :
          positionFeed'[i].quantity = 0 => i = Len(positionFeed') /\ ~OpenRequested'
    <2> SUFFICES ASSUME s \notin cooling, NEW i \in 1 .. Len(positionFeed'),
                        positionFeed'[i].quantity = 0
                 PROVE  i = Len(positionFeed') /\ ~OpenRequested
      BY <1>2 DEF OpenRequested
    <2>1. positionFeed[i + 1].quantity = 0 /\ i + 1 \in 1 .. Len(positionFeed)
      BY <1>1, <1>2, TailFacts
    <2>2. i + 1 = Len(positionFeed) /\ ~OpenRequested
      BY <2>1 DEF SideInv, Noticed
    <2> QED
      BY <1>1, <1>2, <2>2, TailFacts
  <1>9. task["public"].at # "leverage"
    BY <1>1 DEF SideInv, Noticed
  <1>10. task["public"].at \in {"exit", "close"} => pending' # "open"
    BY <1>2, NoneIsNoPosition DEF SettledPending, SideInv, Noticed
  <1>11. Noticed(s)'
    BY <1>2, <1>7, <1>8, <1>9, <1>10 DEF Noticed, OpenRequested
  <1> QED
    BY <1>4, <1>5, <1>6, <1>11 DEF SideInv

\* An answer changes nothing a task carries.
LEMMA AnsweredSide ==
    ASSUME NEW s \in Side, SideInv(s), NEW r \in requests,
           NEW answer \in {"accepted", "rejected"}, Answered(r, answer)
    PROVE  /\ task'["private"].at = "idle"
           /\ \A u \in Task : task'[u].side \in {s, None}
           /\ \A u \in Task : task'[u].held # None => task'[u].held.side = s
           /\ task'["public"].at = task["public"].at
           /\ task'["public"].side = task["public"].side
  <1>1. \A t \in Task : task[t] \in Await
    BY DEF SideInv, Typed, TypeOK
  <1>2. \A t \in Task : /\ task'[t].at = task[t].at /\ task'[t].side = task[t].side
                       /\ task'[t].held = task[t].held
    BY <1>1 DEF Answered, Await
  <1>3. "private" \in Task /\ "public" \in Task
    BY DEF Task
  <1> QED
    BY <1>2, <1>3 DEF SideInv, OneSided

\* A step that only drops a request, or notes that it was accepted.
LEMMA SettledSide ==
    ASSUME NEW s \in Side, SideInv(s), Typed', NEW r \in requests,
           NEW answer \in {"accepted", "rejected"}, Answered(r, answer),
           UNCHANGED <<known, held, positionFeed, exposed>>,
           \/ requests' = requests \ {r}
           \/ requests' = (requests \ {r}) \union {[r EXCEPT !.accepted = TRUE]}
    PROVE  SideInv(s)'
  <1>1. r \in Request /\ r.side = s
    BY DEF SideInv, Typed, TypeOK, OneSided
  <1> DEFINE a == [r EXCEPT !.accepted = TRUE]
  <1>2. a.side = s /\ a.kind = r.kind
    BY <1>1 DEF Request
  <1>3. /\ \A q \in requests' : q.side = s
        /\ OpenRequested' => OpenRequested
        /\ \A r1, r2 \in requests' : r1.kind = "open" /\ r2.kind = "open" => r1 = r2
    <2> HIDE DEF a
    <2>1. CASE requests' = requests \ {r}
      BY <2>1 DEF SideInv, OneSided, Apart, OpenRequested
    <2>2. CASE requests' = (requests \ {r}) \union {a}
      BY <1>1, <1>2, <2>2 DEF SideInv, OneSided, Apart, OpenRequested
    <2> QED
      BY <2>1, <2>2 DEF a
  <1>4. UNCHANGED <<position, pending, reverse, cooling, held, positionFeed, exposed>>
    BY DEF known
  <1>5. OneSided(s)'
    BY <1>3, <1>4, AnsweredSide DEF SideInv, OneSided
  <1>6. Reported(s)' /\ Apart(s)'
    BY <1>3, <1>4 DEF SideInv, Reported, Apart
  <1>7. Noticed(s)'
    BY <1>3, <1>4, AnsweredSide DEF SideInv, Noticed, Unaware, Holding
  <1> QED
    BY <1>5, <1>6, <1>7 DEF SideInv

LEMMA ExecutesSide ==
    ASSUME NEW s \in Side, SideInv(s), Typed', NEW r \in requests, Executes(r)
    PROVE  SideInv(s)'
  <1> DEFINE m == [side |-> r.side, quantity |-> Filled(r)]
  <1>1. r \in Request /\ r.side = s /\ r.kind \in {"open", "close"} /\ r.size \in Nat /\ r.size > 0
    BY DEF SideInv, Typed, TypeOK, OneSided, Request
  <1>2. held \in [Side -> Nat] /\ Filled(r) \in Nat /\ (r.kind = "open" => Filled(r) > 0)
    BY <1>1 DEF SideInv, Typed, TypeOK, Filled
  <1>3. /\ held' = [held EXCEPT ![s] = Filled(r)]
        /\ requests' = requests \ {r}
        /\ positionFeed' = Append(positionFeed, m)
        /\ exposed' = /\ \E side \in Side : held'[side] > 0
                      /\ exposed \/ r.kind = "open"
        /\ UNCHANGED <<position, orders, pending, reverse, cooling, entered>>
        /\ r.kind = "close" => held[s] > 0
    BY <1>1 DEF Executes, known
  <1>4. held'[s] = Filled(r) /\ \A side \in Side \ {s} : held'[side] = 0
    BY <1>2, <1>3 DEF SideInv, OneSided
  <1>5. positionFeed \in Seq(Position) /\ m \in Position
    BY <1>1, <1>2 DEF Executes, SideInv, Typed, TypeOK, Position
  <1>6. /\ Len(positionFeed') = Len(positionFeed) + 1 /\ Len(positionFeed) \in Nat
        /\ \A i \in 1 .. Len(positionFeed) : positionFeed'[i] = positionFeed[i]
        /\ positionFeed'[Len(positionFeed) + 1] = m
        /\ positionFeed' # <<>>
    BY <1>3, <1>5, AppendProperties
  <1>7. ~OpenRequested' \/ r.kind = "close"
    BY <1>1, <1>3 DEF SideInv, Apart, OpenRequested
  <1>8. OpenRequested' => OpenRequested
    BY <1>3 DEF OpenRequested
  <1>9. r.kind = "close" => ~OpenRequested
    BY <1>2, <1>3 DEF SideInv, Apart
  <1>10. OneSided(s)'
    <2>1. \A i \in 1 .. Len(positionFeed') : positionFeed'[i].side = s
      BY <1>1, <1>6 DEF SideInv, OneSided
    <2>2. \A q \in requests' : q.side = s
      BY <1>3 DEF SideInv, OneSided
    <2> QED
      BY <1>3, <1>4, <2>1, <2>2, AnsweredSide DEF Executes, SideInv, OneSided
  <1>11. Reported(s)'
    BY <1>4, <1>6 DEF Reported
  <1>12. Apart(s)'
    BY <1>3, <1>4, <1>7, <1>8, <1>9 DEF SideInv, Apart, OpenRequested
  <1>13. ~Unaware(s)
    BY <1>1, <1>2, <1>3 DEF SideInv, Noticed, OpenRequested
  <1>14. s \notin cooling' => \A i \in 1 .. Len(positionFeed') :
           positionFeed'[i].quantity = 0 => i = Len(positionFeed') /\ ~OpenRequested'
    <2> SUFFICES ASSUME s \notin cooling, NEW i \in 1 .. Len(positionFeed'),
                        positionFeed'[i].quantity = 0
                 PROVE  i = Len(positionFeed') /\ ~OpenRequested'
      BY <1>3
    <2>1. CASE i = Len(positionFeed')
      BY <2>1, <1>7, <1>8, <1>9
    <2>2. CASE i \in 1 .. Len(positionFeed)
      <3>1. i = Len(positionFeed) /\ ~OpenRequested
        BY <1>6, <2>2 DEF SideInv, Noticed
      <3>2. positionFeed # <<>>
        BY <2>2
      <3>3. held[s] = 0
        BY <3>1, <3>2, <1>6, <2>2 DEF SideInv, Reported
      <3> QED
        BY <1>1, <1>3, <3>1, <3>3 DEF OpenRequested
    <2> QED
      BY <1>6, <2>1, <2>2
  <1>15. Noticed(s)'
    <2>1. Unaware(s)' <=> Unaware(s)
      BY <1>3 DEF Unaware, Holding
    <2>2. task'["public"].at = task["public"].at
      BY AnsweredSide DEF Executes
    <2> QED
      BY <1>3, <1>13, <1>14, <2>1, <2>2 DEF SideInv, Noticed
  <1> QED
    BY <1>10, <1>11, <1>12, <1>15 DEF SideInv

LEMMA ExchangeSide ==
    ASSUME NEW s \in Side, SideInv(s), Typed', Exchange
    PROVE  SideInv(s)'
  <1>1. PICK r \in requests : Accepts(r) \/ Executes(r) \/ Rejects(r) \/ Cancels(r)
    BY DEF Exchange, Settles
  <1>2. CASE Accepts(r)
    BY <1>2, SettledSide DEF Accepts
  <1>3. CASE Executes(r)
    BY <1>3, ExecutesSide
  <1>4. CASE Rejects(r)
    BY <1>4, SettledSide DEF Rejects
  <1>5. CASE Cancels(r)
    BY <1>5, SettledSide DEF Cancels
  <1> QED
    BY <1>1, <1>2, <1>3, <1>4, <1>5

\* A new subscription starts with what is held, and nothing else.
LEMMA ReconnectSide ==
    ASSUME NEW s \in Side, SideInv(s), Typed', Reconnect
    PROVE  SideInv(s)'
  <1> DEFINE m == [side |-> s, quantity |-> held[s]]
  <1>1. PICK first \in Side : \E second \in Side \ {first} :
          positionFeed' = Report(first) \o Report(second)
    BY DEF Reconnect, Resubscribed
  <1>2. PICK second \in Side \ {first} : positionFeed' = Report(first) \o Report(second)
    BY <1>1
  <1>3. \A side \in Side \ {s} : Report(side) = <<>>
    BY DEF SideInv, OneSided, Report
  <1>4. first = s \/ second = s
    BY <1>2 DEF Side
  <1>5. positionFeed' = Report(s)
    BY <1>2, <1>3, <1>4, ReportTypes, ConcatEmptySeq DEF SideInv, Typed
  <1>6. held[s] \in Nat
    BY DEF SideInv, Typed, TypeOK
  <1>7. IF held[s] = 0 THEN positionFeed' = <<>> ELSE positionFeed' = <<m>>
    BY <1>5 DEF Report
  <1>8. UNCHANGED <<position, pending, reverse, cooling, task, requests, held, exposed>>
    BY DEF Reconnect, known
  <1>9. OneSided(s)'
    <2>1. \A i \in 1 .. Len(positionFeed') : positionFeed'[i].side = s
      BY <1>7
    <2> QED
      BY <1>8, <2>1 DEF SideInv, OneSided
  <1>10. Reported(s)' /\ Apart(s)'
    <2>1. <<m>> # <<>> /\ <<m>>[Len(<<m>>)].quantity = held[s]
      OBVIOUS
    <2>2. Reported(s)'
      <3>1. CASE held[s] = 0
        BY <1>6, <1>7, <1>8, <3>1 DEF Reported
      <3>2. CASE held[s] # 0
        <4> HIDE DEF m
        <4>1. positionFeed' = <<m>>
          BY <1>7, <3>2
        <4> QED
          BY <1>8, <2>1, <4>1 DEF Reported
      <3> QED
        BY <3>1, <3>2
    <2>3. Apart(s)'
      BY <1>8 DEF SideInv, Apart, OpenRequested
    <2> QED
      BY <2>2, <2>3
  <1>11. Noticed(s)'
    <2>1. \A i \in 1 .. Len(positionFeed') : positionFeed'[i].quantity # 0
      BY <1>7
    <2>2. Unaware(s)' <=> Unaware(s)
      BY <1>8 DEF Unaware, Holding
    <2>3. OpenRequested' <=> OpenRequested
      BY <1>8 DEF OpenRequested
    <2> QED
      BY <1>7, <1>8, <2>1, <2>2, <2>3 DEF SideInv, Noticed
  <1> QED
    BY <1>9, <1>10, <1>11 DEF SideInv

-----------------------------------------------------------------------------
LEMMA NextSide ==
    ASSUME NEW s \in Side, SignalSides = {s}, SideInv(s), [Next]_vars
    PROVE  SideInv(s)'
  <1>1. Typed'
    BY NextTypes DEF SideInv
  <1>2. CASE Evaluate \/ NewCandle \/ CooldownExpires
    BY <1>1, <1>2, EvaluateSide, NewCandleSide, CooldownSide
  <1>3. CASE \E t \in Task : TaskStep(t)
    BY <1>1, <1>3, DecidesSide, SubmitsSide, ConcludesSide DEF TaskStep
  <1>4. CASE Private
    BY <1>1, <1>4, OrderUpdateSide, PositionUpdateSide DEF Private
  <1>5. CASE Exchange
    BY <1>1, <1>5, ExchangeSide
  <1>6. CASE Reconnect
    BY <1>1, <1>6, ReconnectSide
  <1>7. CASE UNCHANGED vars
    BY <1>1, <1>7 DEF vars, known, exchange, SideInv, OneSided, Reported, Apart, Noticed,
                      Unaware, Holding, OpenRequested
  <1> QED
    BY <1>2, <1>3, <1>4, <1>5, <1>6, <1>7 DEF Next

\* Under a strategy of one side, the trader that has read all reports knows the
\* position the exchange holds, however many requests, answers and updates were
\* lost and however often the stream was connected again.
THEOREM PositionsKnownOneSide ==
    ASSUME NEW s \in Side, SignalSides = {s}
    PROVE  Spec => []PositionsKnown
  <1>1. Init => SideInv(s)
    BY InitSide
  <1>2. SideInv(s) /\ [Next]_vars => SideInv(s)'
    BY NextSide
  <1>3. SideInv(s) => PositionsKnown
    <2> SUFFICES ASSUME SideInv(s), positionFeed = <<>>, NEW side \in Side, held[side] > 0
                 PROVE  position = [side |-> side, quantity |-> held[side]]
      BY DEF PositionsKnown
    <2>1. side = s
      BY DEF SideInv, OneSided
    <2>2. position # None /\ position.quantity = held[s] /\ position.side = s
      BY <2>1 DEF SideInv, Reported, OneSided
    <2>3. position \in Position
      BY <2>2 DEF SideInv, Typed, TypeOK
    <2> QED
      BY <2>1, <2>2, <2>3 DEF Position
  <1> QED
    BY <1>1, <1>2, <1>3, PTL DEF Spec

\* Under a strategy of one side, an open goes out only when no earlier open is on
\* its way or has filled since the exchange was flat: pending action, position
\* and cooldown together never leave a gap, whatever the order of the reports.
THEOREM OneOpenOneSide ==
    ASSUME NEW s \in Side, SignalSides = {s}
    PROVE  Spec => OneOpenPerExposure
  <1>1. Init => SideInv(s)
    BY InitSide
  <1>2. SideInv(s) /\ [Next]_vars => SideInv(s)'
    BY NextSide
  <1> DEFINE Once == \A t \in Task : SendsOpen(t)
                       => ~exposed /\ ~\E r \in requests : r.kind = "open"
  <1>3. SideInv(s) => Once
    <2> SUFFICES ASSUME SideInv(s), NEW t \in Task, SendsOpen(t)
                 PROVE  ~exposed /\ ~OpenRequested
      BY DEF OpenRequested
    <2>1. t = "public"
      BY PublicActs DEF SendsOpen
    <2>2. held[s] = 0 /\ ~OpenRequested
      BY <2>1 DEF SendsOpen, SideInv, Noticed
    <2> QED
      BY <2>2 DEF SideInv, Apart
  <1>4. SideInv(s) /\ [Next]_vars => [Once]_vars
    BY <1>3
  <1> QED
    BY <1>1, <1>2, <1>4, PTL DEF Spec, OneOpenPerExposure

-----------------------------------------------------------------------------
(* A strategy of two sides, and two tasks; no answer is lost.               *)

Flat(i) == positionFeed[i].quantity = 0
Opening(t) == task[t].at \in {"leverage", "open"}
Busy == task["private"].at # "idle"

\* Requests, messages and tasks are told apart by their ids.
Identified ==
    /\ \A r1, r2 \in requests : r1.id = r2.id => r1 = r2
    /\ \A r \in requests, i \in 1 .. Len(orderFeed) : orderFeed[i].id # r.id
    /\ \A t \in Task : task[t].at \notin {"open", "close"} => task[t].id = None /\ task[t].answer = None
    /\ \A t \in Task, r \in requests : task[t].answer = "rejected" => r.id # task[t].id
    /\ task["public"].id # None => task["public"].id # task["private"].id

\* What is requested is tracked, and while the private task is busy nothing
\* that is tracked gets lost.
Tracks ==
    /\ \A r \in requests : \E o \in orders : o.id = r.id
    /\ Busy /\ task["public"].at = "open" => \E o \in orders : o.id = task["public"].id

\* The private task is busy with nothing but a reversal.  If that is done
\* already, the public task has done it and its order is tracked.
Reversing ==
    /\ Busy => ~Holding
    /\ task["private"].at \in {"idle", "signals", "leverage", "open"}
    /\ Opening("private") => task["private"].reversing
    /\ Busy /\ reverse = None =>
          /\ task["public"].at \in {"idle", "signals"}
          /\ \E o \in orders : o.id # task["private"].id

\* What the public task finds when it is the only one.
Alone ==
    /\ Opening("public") /\ ~task["public"].reversing => reverse = None /\ ~Busy
    /\ task["public"].at \in {"exit", "close"} => reverse = None /\ ~Busy
    /\ task["public"].at = "exit" => requests = {} /\ pending = None
    /\ task["public"].at = "close" /\ pending # "close" =>
          /\ pending = None /\ requests = {} /\ task["public"].answer = "accepted"
          /\ \A c \in Side : task["public"].side \notin {None, c} => held[c] = 0

\* A close of side c is the only request; its flat report is the last.
Closes(c) ==
    /\ reverse # c
    /\ task["public"].at = "close" => task["public"].side # c
    /\ \A r \in requests : r.kind = "close" /\ r.side = c
    /\ \A r1, r2 \in requests : r1 = r2
    /\ task["public"].at = "close" => \A r \in requests : r.id = task["public"].id
    /\ \A i \in 1 .. Len(positionFeed) : Flat(i) =>
          /\ i = Len(positionFeed) /\ requests = {} /\ held[c] = 0
          /\ task["public"].at = "close" => task["public"].answer = "accepted"

Closing ==
    /\ pending = "close" =>
          /\ ~Busy /\ task["public"].at \in {"idle", "signals", "close"}
          /\ \E c \in Side : Closes(c)
    /\ pending # "close" =>
          /\ \A i \in 1 .. Len(positionFeed) : ~Flat(i)
          /\ \A r \in requests : r.kind = "open"

\* Nothing of any other side is held or requested.
Only(s) ==
    /\ \A c \in Side \ {s} : held[c] = 0
    /\ \A r \in requests : r.kind = "open" /\ r.side = s

\* Once the close is over, until every task has opened that was going to.
Turned ==
    /\ reverse # None /\ pending # "close" => Only(reverse)
    /\ \A t \in Task : Opening(t) /\ task[t].reversing =>
          /\ Only(task[t].side) /\ pending # "close"
          /\ reverse # None => reverse = task[t].side
          /\ \A u \in Task : Opening(u) => task[u].side = task[t].side

TwoSided == Typed /\ Identified /\ Tracks /\ Reversing /\ Alone /\ Closing /\ Turned

LEMMA SidesTwo ==
    ASSUME NEW c \in Side, NEW d \in Side, NEW e \in Side, c # d, e # d
    PROVE  c = e
  BY DEF Side

\* What a finished task leaves behind.
LEMMA FinishedTask ==
    ASSUME Typed, NEW t \in Task, Finish(t)
    PROVE  /\ task'[t].at = "idle" /\ task'[t].id = None /\ task'[t].answer = None
           /\ \A u \in Task : u # t => task'[u] = task[u]
  BY DEF Finish, Typed, TypeOK, AtRest

LEMMA NotBusy ==
    ASSUME TwoSided, task["private"].at = "idle"
    PROVE  /\ ~Busy /\ task["private"].id = None /\ task["private"].answer = None
  BY DEF Busy, TwoSided, Identified, Task

\* A task ends, and what it staged and the exchange rejected is given up.
LEMMA FinishTwo ==
    ASSUME TwoSided, Typed', NEW t \in Task, task[t].at # "idle", Finish(t),
           UNCHANGED <<position, reverse, exchange>>,
           \/ UNCHANGED orders
           \/ orders' = Untrack(task[t].id) /\ task[t].answer = "rejected",
           \/ UNCHANGED pending
           \/ /\ pending' = None
              /\ \A i \in 1 .. Len(positionFeed) : ~Flat(i)
              /\ \A r \in requests : r.kind = "open"
              /\ reverse # None => pending # "close"
    PROVE  TwoSided'
  <1>1. /\ task'[t].at = "idle" /\ task'[t].id = None /\ task'[t].answer = None
        /\ \A u \in Task : u # t => task'[u] = task[u]
    BY FinishedTask DEF TwoSided
  <1>2. UNCHANGED <<position, reverse, requests, held, orderFeed, positionFeed>>
    BY DEF exchange
  <1>3. None # "close" /\ None # "rejected" /\ pending' \in {pending, None}
    BY ExecutionConstants
  <1>4. Identified'
    <2>1. \A u \in Task : task'[u].at \notin {"open", "close"}
                         => task'[u].id = None /\ task'[u].answer = None
      BY <1>1 DEF TwoSided, Identified
    <2>2. \A u \in Task, r \in requests :
            task'[u].answer = "rejected" => r.id # task'[u].id
      BY <1>1, <1>3 DEF TwoSided, Identified
    <2>3. task'["public"].id # None => task'["public"].id # task'["private"].id
      BY <1>1 DEF TwoSided, Identified, Task
    <2> QED
      BY <1>2, <2>1, <2>2, <2>3 DEF TwoSided, Identified
  <1>5. Tracks'
    <2>1. \A r \in requests : \E o \in orders' : o.id = r.id
      BY DEF TwoSided, Identified, Tracks, Untrack
    <2>2. ~(Busy' /\ task'["public"].at = "open")
      BY <1>1 DEF Busy, Task
    <2> QED
      BY <1>2, <2>1, <2>2 DEF Tracks
  <1>6. Reversing'
    <2>1. Busy' => t = "public" /\ Busy /\ task'["private"] = task["private"]
      BY <1>1 DEF Busy, Task
    <2>2. Busy' => ~Holding'
      BY <1>2, <2>1 DEF TwoSided, Reversing, Holding
    <2>3. task'["private"].at \in {"idle", "signals", "leverage", "open"}
      BY <1>1 DEF TwoSided, Reversing, Task
    <2>4. Opening("private")' => task'["private"].reversing
      BY <1>1, <2>1 DEF TwoSided, Reversing, Opening, Busy
    <2>5. ASSUME Busy', reverse' = None
          PROVE  /\ task'["public"].at \in {"idle", "signals"}
                 /\ \E o \in orders' : o.id # task'["private"].id
      <3>1. /\ task["public"].at \in {"idle", "signals"}
            /\ \E o \in orders : o.id # task["private"].id
        BY <1>2, <2>1, <2>5 DEF TwoSided, Reversing
      <3>2. task["public"].answer = None
        BY <3>1 DEF TwoSided, Identified, Task
      <3>3. UNCHANGED orders
        BY <1>3, <2>1, <2>5, <3>2
      <3> QED
        BY <1>1, <2>1, <2>5, <3>1, <3>3
    <2> QED
      BY <2>2, <2>3, <2>4, <2>5 DEF Reversing
  <1>7. Alone'
    <2>1. CASE t = "public"
      BY <1>1, <2>1 DEF Alone, Opening
    <2>2. CASE t = "private"
      <3>1. Busy /\ ~Busy' /\ task'["public"] = task["public"] /\ pending # "close"
        BY <1>1, <2>2 DEF Busy, Task, TwoSided, Closing
      <3> QED
        BY <1>2, <1>3, <3>1 DEF TwoSided, Alone, Opening
    <2> QED
      BY <2>1, <2>2 DEF Task
  <1>8. Closing'
    <2>1. ASSUME pending' = "close"
          PROVE  /\ ~Busy' /\ task'["public"].at \in {"idle", "signals", "close"}
                 /\ \E c \in Side : Closes(c)'
      <3>1. pending = "close"
        BY <1>3, <2>1
      <3>2. PICK c \in Side : Closes(c)
        BY <3>1 DEF TwoSided, Closing
      <3>3. ~Busy /\ t = "public"
        BY <3>1 DEF TwoSided, Closing, Busy, Task
      <3>4. ~Busy' /\ task'["public"].at = "idle"
        BY <1>1, <3>3 DEF Busy, Task
      <3>5. Closes(c)'
        BY <1>2, <3>2, <3>4 DEF Closes, Flat
      <3> QED
        BY <3>4, <3>5
    <2>2. ASSUME pending' # "close"
          PROVE  /\ \A i \in 1 .. Len(positionFeed') : ~Flat(i)'
                 /\ \A r \in requests' : r.kind = "open"
      BY <1>2, <2>2 DEF TwoSided, Closing, Flat
    <2> QED
      BY <2>1, <2>2 DEF Closing
  <1>9. Turned'
    <2>1. reverse # None /\ pending' # "close" => pending # "close"
      OBVIOUS
    <2>2. \A u \in Task : Opening(u)' => Opening(u) /\ task'[u] = task[u]
      BY <1>1 DEF Opening
    <2>3. pending # "close" => pending' # "close"
      BY <1>3
    <2>4. \A s : Only(s) => Only(s)'
      BY <1>2 DEF Only
    <2> QED
      BY <1>2, <2>1, <2>2, <2>3, <2>4 DEF TwoSided, Turned
  <1> QED
    BY <1>4, <1>5, <1>6, <1>7, <1>8, <1>9 DEF TwoSided

\* What is known of the requests of a symbol without a tracked order.
LEMMA NothingTracked ==
    ASSUME TwoSided, ~HasOrders
    PROVE  requests = {} /\ (Busy => reverse # None)
  BY DEF TwoSided, Tracks, Reversing, HasOrders

\* Only the public task looks for an exit, and only when it is alone.
LEMMA ExitIsPublic ==
    ASSUME TwoSided, NEW t \in Task, task[t].at \in {"exit", "close"}
    PROVE  /\ t = "public" /\ ~Busy /\ reverse = None
           /\ task["private"].at = "idle" /\ task["private"].id = None
           /\ task["private"].answer = None
  BY DEF TwoSided, Reversing, Alone, Identified, Busy, Task

\* While a task is about to open, no close is pending.
LEMMA OpeningFacts ==
    ASSUME TwoSided, NEW t \in Task, Opening(t)
    PROVE  /\ pending # "close"
           /\ \A i \in 1 .. Len(positionFeed) : ~Flat(i)
           /\ \A r \in requests : r.kind = "open"
           /\ t = "private" => Busy /\ task[t].reversing
           /\ ~task[t].reversing => t = "public" /\ reverse = None /\ ~Busy
  <1>1. pending # "close"
    BY DEF TwoSided, Closing, Busy, Opening, Task
  <1>2. t = "private" => Busy /\ task[t].reversing
    BY DEF TwoSided, Reversing, Busy, Opening
  <1>3. ~task[t].reversing => t = "public"
    BY <1>2 DEF Task
  <1> QED
    BY <1>1, <1>2, <1>3 DEF TwoSided, Closing, Alone

LEMMA BeginOpenTwo ==
    ASSUME TwoSided, Typed', NEW t \in Task, BeginOpen(t)
    PROVE  TwoSided'
  <1>1. PICK side \in IF reverse # None THEN {reverse} ELSE Yield \ {None} :
          task' = [task EXCEPT ![t] = [AtRest EXCEPT
            !.at = "leverage", !.side = side, !.reversing = reverse # None]]
    BY DEF BeginOpen
  <1>2. UNCHANGED <<position, orders, pending, reverse, requests, held, orderFeed, positionFeed>>
    BY DEF BeginOpen, known, exchange
  <1>3. /\ task[t].at = "signals" /\ pending = None /\ ~HasOrders /\ ~Holding
        /\ orders = {}
    BY DEF BeginOpen, ActsOn, Exposed, HasOrders
  <1>4. /\ task'[t].at = "leverage" /\ task'[t].side = side /\ task'[t].id = None
        /\ task'[t].answer = None
        /\ \A u \in Task : u # t => task'[u] = task[u]
    BY <1>1 DEF TwoSided, Typed, TypeOK, AtRest
  <1>5. task'[t].reversing <=> reverse # None
    BY <1>1 DEF TwoSided, Typed, TypeOK, AtRest
  <1>6. requests = {} /\ (Busy => reverse # None)
    BY <1>3, NothingTracked
  <1>7. None # "close" /\ (reverse # None => side = reverse)
    BY <1>1, ExecutionConstants
  <1>8. t = "private" => Busy
    BY <1>3 DEF Busy
  <1>9. ~Holding'
    BY <1>2, <1>3 DEF Holding
  <1>10. Identified'
    <2>1. \A u \in Task : task'[u].at \notin {"open", "close"}
                         => task'[u].id = None /\ task'[u].answer = None
      BY <1>4 DEF TwoSided, Identified
    <2>2. task'["public"].id # None => task'["public"].id # task'["private"].id
      BY <1>4 DEF TwoSided, Identified, Task
    <2> QED
      BY <1>2, <1>6, <2>1, <2>2 DEF Identified
  <1>11. Tracks'
    <2>1. task'["public"].at = "open" => task["public"].at = "open" /\ t = "private"
      BY <1>4 DEF Task
    <2>2. ~(task["public"].at = "open" /\ t = "private")
      BY <1>3, <1>8 DEF TwoSided, Tracks
    <2> QED
      BY <1>2, <1>6, <2>1, <2>2 DEF Tracks
  <1>12. Reversing'
    <2>1. task'["private"].at \in {"idle", "signals", "leverage", "open"}
      BY <1>4 DEF TwoSided, Reversing, Task
    <2>2. Opening("private")' => task'["private"].reversing
      BY <1>4, <1>5, <1>6, <1>8 DEF TwoSided, Reversing, Opening, Task
    <2>3. Busy' => reverse # None
      <3>1. CASE t = "private"
        BY <3>1, <1>6, <1>8
      <3>2. CASE t = "public"
        BY <3>2, <1>4, <1>6 DEF Busy, Task
      <3> QED
        BY <3>1, <3>2 DEF Task
    <2> QED
      BY <1>2, <1>9, <2>1, <2>2, <2>3 DEF Reversing
  <1>13. Alone'
    <2>1. CASE t = "public"
      <3>1. ~task'[t].reversing => reverse = None /\ ~Busy
        BY <1>5, <1>6
      <3>2. Busy' <=> Busy
        BY <2>1, <1>4 DEF Busy, Task
      <3> QED
        BY <2>1, <1>2, <1>4, <3>1, <3>2 DEF Alone
    <2>2. CASE t = "private"
      <3>1. task'["public"] = task["public"] /\ Busy
        BY <2>2, <1>4, <1>8 DEF Task
      <3>2. /\ task["public"].at \notin {"exit", "close"}
            /\ Opening("public") => task["public"].reversing
        BY <3>1 DEF TwoSided, Alone
      <3> QED
        BY <3>1, <3>2 DEF Alone, Opening
    <2> QED
      BY <2>1, <2>2 DEF Task
  <1>14. Closing'
    BY <1>2, <1>3, <1>7 DEF TwoSided, Closing, Flat
  <1>15. Turned'
    <2>1. reverse # None => Only(reverse)
      BY <1>3, <1>7 DEF TwoSided, Turned
    <2>2. \A s : Only(s) => Only(s)'
      BY <1>2 DEF Only
    <2>3. pending' # "close"
      BY <1>2, <1>3, <1>7
    <2>4. ASSUME NEW u \in Task, Opening(u)'
          PROVE  /\ task'[u].reversing => reverse # None
                 /\ reverse # None => task'[u].side = reverse
      <3>1. CASE u = t
        BY <3>1, <1>4, <1>5, <1>7
      <3>2. CASE u # t
        <4>1. Opening(u) /\ task'[u] = task[u]
          BY <3>2, <2>4, <1>4 DEF Opening
        <4>2. reverse # None => task[u].side = reverse
          BY <4>1, OpeningFacts DEF TwoSided, Turned
        <4>3. task[u].reversing => reverse # None
          <5>1. CASE u = "private"
            BY <5>1, <4>1, <1>6 DEF Busy, Opening
          <5>2. CASE u = "public"
            BY <5>2, <3>2, <1>6, <1>8 DEF Task
          <5> QED
            BY <5>1, <5>2 DEF Task
        <4> QED
          BY <4>1, <4>2, <4>3
      <3> QED
        BY <3>1, <3>2
    <2> QED
      BY <1>2, <2>1, <2>2, <2>3, <2>4 DEF Turned
  <1> QED
    BY <1>10, <1>11, <1>12, <1>13, <1>14, <1>15 DEF TwoSided

LEMMA CheckExitTwo ==
    ASSUME TwoSided, Typed', NEW t \in Task, CheckExit(t)
    PROVE  TwoSided'
  <1>1. PICK side \in Yield :
          task' = [task EXCEPT ![t] = [AtRest EXCEPT
            !.at = "exit", !.side = side, !.held = position]]
    BY DEF CheckExit
  <1>2. UNCHANGED <<position, orders, pending, reverse, requests, held, orderFeed, positionFeed>>
    BY DEF CheckExit, known, exchange
  <1>3. /\ task[t].at = "signals" /\ pending = None /\ ~HasOrders /\ Holding
        /\ reverse = None
    BY DEF CheckExit, ActsOn
  <1>4. /\ task'[t].at = "exit" /\ task'[t].id = None /\ task'[t].answer = None
        /\ \A u \in Task : u # t => task'[u] = task[u]
    BY <1>1 DEF TwoSided, Typed, TypeOK, AtRest
  <1>5. ~Busy /\ t = "public"
    BY <1>3 DEF TwoSided, Reversing, Busy, Task
  <1>6. requests = {}
    BY <1>3, NothingTracked
  <1>7. None # "close"
    BY ExecutionConstants
  <1>8. task'["private"] = task["private"] /\ task["private"].at = "idle" /\ ~Busy'
    BY <1>4, <1>5 DEF Busy, Task
  <1>9. Identified'
    BY <1>2, <1>4, <1>5, <1>6 DEF TwoSided, Identified
  <1>10. Tracks' /\ Reversing'
    BY <1>2, <1>6, <1>8 DEF Tracks, Reversing, Opening
  <1>11. Alone'
    BY <1>2, <1>3, <1>4, <1>5, <1>6, <1>8 DEF Alone, Opening
  <1>12. Closing'
    BY <1>2, <1>3, <1>7 DEF TwoSided, Closing, Flat
  <1>13. Turned'
    <2>1. \A u \in Task : ~Opening(u)'
      BY <1>4, <1>5, <1>8 DEF Opening, Task
    <2> QED
      BY <1>2, <1>3, <2>1 DEF Turned
  <1> QED
    BY <1>9, <1>10, <1>11, <1>12, <1>13 DEF TwoSided

LEMMA EvaluateTwo ==
    ASSUME TwoSided, Typed', Evaluate
    PROVE  TwoSided'
  <1>1. /\ task["public"].at = "idle" /\ task'["public"].at = "signals"
        /\ task'["public"].id = task["public"].id
        /\ task'["public"].answer = task["public"].answer
        /\ task'["private"] = task["private"]
    BY DEF Evaluate, TwoSided, Typed, TypeOK, Await, Task
  <1>2. UNCHANGED <<position, orders, pending, reverse, requests, held, orderFeed, positionFeed>>
    BY DEF Evaluate, known, exchange
  <1>3. Busy' <=> Busy
    BY <1>1 DEF Busy
  <1>4. Identified'
    <2>1. \A u \in Task : task'[u].at \notin {"open", "close"}
                         => task'[u].id = None /\ task'[u].answer = None
      BY <1>1 DEF TwoSided, Identified, Task
    <2>2. \A u \in Task, r \in requests :
            task'[u].answer = "rejected" => r.id # task'[u].id
      BY <1>1 DEF TwoSided, Identified, Task
    <2> QED
      BY <1>1, <1>2, <2>1, <2>2 DEF TwoSided, Identified
  <1>5. Tracks'
    BY <1>1, <1>2, <1>3 DEF TwoSided, Tracks
  <1>6. Reversing'
    BY <1>1, <1>2, <1>3 DEF TwoSided, Reversing, Opening, Holding
  <1>7. Alone'
    BY <1>1 DEF Alone, Opening
  <1>8. Closing'
    BY <1>1, <1>2, <1>3 DEF TwoSided, Closing, Closes, Flat
  <1>9. Turned'
    <2>1. \A u \in Task : Opening(u)' => Opening(u) /\ task'[u] = task[u]
      BY <1>1 DEF Opening, Task
    <2>2. \A s : Only(s) => Only(s)'
      BY <1>2 DEF Only
    <2> QED
      BY <1>2, <2>1, <2>2 DEF TwoSided, Turned
  <1> QED
    BY <1>4, <1>5, <1>6, <1>7, <1>8, <1>9 DEF TwoSided

\* A staged request has an id of its own.
LEMMA NewIdFacts ==
    ASSUME NEW id \in Order \ InUse
    PROVE  /\ id # None
           /\ \A o \in orders : o.id # id
           /\ \A r \in requests : r.id # id
           /\ \A u \in Task : task[u].id # id
           /\ \A i \in 1 .. Len(orderFeed) : orderFeed[i].id # id
  BY ExecutionConstants DEF InUse

LEMMA SendCloseTwo ==
    ASSUME TwoSided, Typed', NEW t \in Task, SendClose(t)
    PROVE  TwoSided'
  <1>0. PICK c \in Side : c = task[t].held.side
    BY DEF SendClose, TwoSided, Typed, TypeOK, CarriesWhatItNeeds, Await, Position
  <1>1. PICK side \in {None} \union IF Opposite(t) THEN {task[t].side} ELSE {} :
          Stage(t, "close", c, task[t].held.quantity, [AtRest EXCEPT !.side = side])
    BY <1>0 DEF SendClose
  <1>2. task[t].at = "exit"
    BY DEF SendClose
  <1>4. side # c
    BY <1>0, ExecutionConstants DEF Opposite
  <1>5. /\ t = "public" /\ ~Busy /\ reverse = None
        /\ task["private"].at = "idle" /\ task["private"].id = None
        /\ task["private"].answer = None
    BY <1>2, ExitIsPublic
  <1>6. requests = {} /\ pending = None
    BY <1>2, <1>5 DEF TwoSided, Alone
  <1>7. PICK id \in Order \ InUse :
          /\ orders' = orders \union {[id |-> id, intent |-> "close"]}
          /\ pending' = "close"
          /\ requests' = requests \union {[id |-> id, kind |-> "close", side |-> c,
                                           size |-> task[t].held.quantity, accepted |-> FALSE]}
          /\ task' = [task EXCEPT ![t] = [[AtRest EXCEPT !.side = side] EXCEPT
                                            !.at = "close", !.id = id]]
    BY <1>1 DEF Stage
  <1>8. UNCHANGED <<position, reverse, held, orderFeed, positionFeed>>
    BY <1>1 DEF Stage
  <1>9. /\ task'["public"].at = "close" /\ task'["public"].side = side
        /\ task'["public"].id = id /\ task'["public"].answer = None
        /\ task'["private"] = task["private"]
    BY <1>5, <1>7 DEF TwoSided, Typed, TypeOK, AtRest, Task
  <1>10. PICK r : requests' = {r} /\ r.id = id /\ r.kind = "close" /\ r.side = c
    <2> DEFINE n == [id |-> id, kind |-> "close", side |-> c,
                     size |-> task[t].held.quantity, accepted |-> FALSE]
    <2>1. requests' = {n}
      BY <1>6, <1>7
    <2>2. n.id = id /\ n.kind = "close" /\ n.side = c
      OBVIOUS
    <2> HIDE DEF n
    <2> QED
      BY <2>1, <2>2
  <1>11. /\ id # None /\ None # "rejected" /\ None # "close"
         /\ \A i \in 1 .. Len(orderFeed) : orderFeed[i].id # id
    BY NewIdFacts, ExecutionConstants
  <1>12. \A i \in 1 .. Len(positionFeed) : ~Flat(i)
    BY <1>6, <1>11 DEF TwoSided, Closing
  <1>13. ~Busy'
    BY <1>5, <1>9 DEF Busy
  <1>14. Identified'
    BY <1>5, <1>8, <1>9, <1>10, <1>11 DEF Identified, Task
  <1>15. Tracks' /\ Reversing'
    <2> DEFINE n == [id |-> id, intent |-> "close"]
    <2>1. n \in orders' /\ n.id = id
      BY <1>7
    <2> HIDE DEF n
    <2> QED
      BY <1>5, <1>9, <1>10, <1>13, <2>1 DEF Tracks, Reversing, Opening
  <1>16. Alone'
    BY <1>5, <1>7, <1>8, <1>9, <1>13 DEF Alone, Opening
  <1>17. Closing'
    <2>1. Closes(c)'
      BY <1>4, <1>5, <1>8, <1>9, <1>10, <1>12, ExecutionConstants DEF Closes, Flat
    <2> QED
      BY <1>7, <1>9, <1>13, <2>1 DEF Closing
  <1>18. Turned'
    <2>1. \A u \in Task : ~Opening(u)'
      BY <1>5, <1>9 DEF Opening, Task
    <2> QED
      BY <1>5, <1>8, <2>1 DEF Turned
  <1> QED
    BY <1>14, <1>15, <1>16, <1>17, <1>18 DEF TwoSided

LEMMA SendOpenTwo ==
    ASSUME TwoSided, Typed', NEW t \in Task, SendOpen(t)
    PROVE  TwoSided'
  <1>1. task[t].at = "leverage" /\ Opening(t)
    BY DEF SendOpen, Opening
  <1>2. PICK id \in Order \ InUse :
          /\ orders' = orders \union {[id |-> id, intent |-> "open"]}
          /\ pending' = "open"
          /\ requests' = requests \union {[id |-> id, kind |-> "open", side |-> task[t].side,
                                           size |-> 1, accepted |-> FALSE]}
          /\ task' = [task EXCEPT ![t] = [task[t] EXCEPT !.at = "open", !.id = id]]
    BY DEF SendOpen, Stage
  <1>3. UNCHANGED <<position, reverse, held, orderFeed, positionFeed>>
    BY DEF SendOpen, Stage
  <1>4. /\ task'[t].at = "open" /\ task'[t].id = id /\ task'[t].side = task[t].side
        /\ task'[t].answer = task[t].answer /\ task'[t].reversing = task[t].reversing
        /\ \A u \in Task : u # t => task'[u] = task[u]
    BY <1>2 DEF TwoSided, Typed, TypeOK, Await
  <1>5. PICK q : /\ requests' = requests \union {q}
                 /\ q.id = id /\ q.kind = "open" /\ q.side = task[t].side
    <2> DEFINE n == [id |-> id, kind |-> "open", side |-> task[t].side,
                     size |-> 1, accepted |-> FALSE]
    <2>1. requests' = requests \union {n}
      BY <1>2
    <2>2. n.id = id /\ n.kind = "open" /\ n.side = task[t].side
      OBVIOUS
    <2> HIDE DEF n
    <2> QED
      BY <2>1, <2>2
  <1>6. /\ id # None /\ id \in Order
        /\ \A o \in orders : o.id # id
        /\ \A r \in requests : r.id # id
        /\ \A u \in Task : task[u].id # id
        /\ \A i \in 1 .. Len(orderFeed) : orderFeed[i].id # id
    BY NewIdFacts
  <1>7. /\ pending # "close"
        /\ \A i \in 1 .. Len(positionFeed) : ~Flat(i)
        /\ \A r \in requests : r.kind = "open"
        /\ t = "private" => Busy /\ task[t].reversing
        /\ ~task[t].reversing => t = "public" /\ reverse = None /\ ~Busy
    BY <1>1, OpeningFacts
  <1>8. None # "rejected" /\ task[t].answer = None
    BY <1>1, ExecutionConstants DEF TwoSided, Identified
  <1>9. Busy' <=> Busy
    BY <1>1, <1>4 DEF Busy, Task
  <1>10. \A u \in Task : /\ Opening(u)' <=> Opening(u)
                         /\ task'[u].side = task[u].side
                         /\ task'[u].reversing = task[u].reversing
    BY <1>1, <1>4 DEF Opening
  <1>11. Identified'
    <2>1. \A r1, r2 \in requests' : r1.id = r2.id => r1 = r2
      BY <1>5, <1>6 DEF TwoSided, Identified
    <2>2. \A r \in requests', i \in 1 .. Len(orderFeed) : orderFeed[i].id # r.id
      BY <1>5, <1>6 DEF TwoSided, Identified
    <2>3. \A u \in Task : task'[u].at \notin {"open", "close"}
                         => task'[u].id = None /\ task'[u].answer = None
      BY <1>4 DEF TwoSided, Identified
    <2>4. \A u \in Task, r \in requests' :
            task'[u].answer = "rejected" => r.id # task'[u].id
      BY <1>4, <1>5, <1>6, <1>8 DEF TwoSided, Identified
    <2>5. task'["public"].id # None => task'["public"].id # task'["private"].id
      BY <1>4, <1>6 DEF TwoSided, Identified, Task
    <2> QED
      BY <1>3, <2>1, <2>2, <2>3, <2>4, <2>5 DEF Identified
  <1>12. Tracks'
    <2>1. (\E o \in orders' : o.id = id) /\ \A o \in orders : o \in orders'
      <3> DEFINE n == [id |-> id, intent |-> "open"]
      <3>1. n \in orders' /\ n.id = id /\ \A o \in orders : o \in orders'
        BY <1>2
      <3> HIDE DEF n
      <3> QED
        BY <3>1
    <2>2. \A r \in requests' : \E o \in orders' : o.id = r.id
      BY <1>5, <2>1 DEF TwoSided, Tracks
    <2>3. ASSUME Busy', task'["public"].at = "open"
          PROVE  \E o \in orders' : o.id = task'["public"].id
      <3>1. CASE t = "public"
        BY <3>1, <1>4, <2>1
      <3>2. CASE t = "private"
        BY <3>2, <1>4, <1>9, <2>1, <2>3 DEF TwoSided, Tracks, Task
      <3> QED
        BY <3>1, <3>2 DEF Task
    <2> QED
      BY <2>2, <2>3 DEF Tracks
  <1>13. Reversing'
    <2>1. Busy' => ~Holding'
      BY <1>3, <1>9 DEF TwoSided, Reversing, Holding
    <2>2. task'["private"].at \in {"idle", "signals", "leverage", "open"}
      BY <1>4 DEF TwoSided, Reversing, Task
    <2>3. Opening("private")' => task'["private"].reversing
      BY <1>10 DEF TwoSided, Reversing, Task
    <2>4. ASSUME Busy', reverse' = None
          PROVE  /\ task'["public"].at \in {"idle", "signals"}
                 /\ \E o \in orders' : o.id # task'["private"].id
      <3>1. /\ task["public"].at \in {"idle", "signals"}
            /\ \E o \in orders : o.id # task["private"].id
        BY <1>3, <1>9, <2>4 DEF TwoSided, Reversing
      <3>2. t = "private"
        BY <1>1, <3>1 DEF Task
      <3> QED
        BY <1>2, <1>4, <1>6, <3>1, <3>2 DEF Task
    <2> QED
      BY <2>1, <2>2, <2>3, <2>4 DEF Reversing
  <1>14. Alone'
    <2>1. task'["public"].at \notin {"exit", "close"}
      BY <1>1, <1>4, <1>7, ExitIsPublic DEF Task
    <2> QED
      BY <1>3, <1>9, <1>10, <2>1 DEF TwoSided, Alone, Task
  <1>15. Closing'
    <2>1. \A r \in requests' : r.kind = "open"
      BY <1>5, <1>7
    <2> QED
      BY <1>2, <1>3, <1>7, <2>1 DEF Closing, Flat
  <1>16. Turned'
    <2>1. \A s : s = task[t].side /\ Only(s) => Only(s)'
      BY <1>3, <1>5 DEF Only
    <2>2. reverse # None => reverse = task[t].side /\ Only(reverse)
      BY <1>1, <1>7 DEF TwoSided, Turned
    <2>3. \A u \in Task : Opening(u) /\ task[u].reversing =>
            /\ Only(task[u].side) /\ task[t].side = task[u].side
            /\ reverse # None => reverse = task[u].side
            /\ \A w \in Task : Opening(w) => task[w].side = task[u].side
      BY <1>1 DEF TwoSided, Turned
    <2>4. pending' # "close"
      BY <1>2
    <2>5. reverse' # None => Only(reverse)'
      BY <1>3, <2>1, <2>2
    <2>6. \A u \in Task : Opening(u)' /\ task'[u].reversing =>
            /\ Only(task[u].side)'
            /\ reverse' # None => reverse' = task'[u].side
            /\ \A w \in Task : Opening(w)' => task'[w].side = task'[u].side
      BY <1>3, <1>10, <2>1, <2>3
    <2> QED
      BY <2>4, <2>5, <2>6 DEF Turned
  <1> QED
    BY <1>11, <1>12, <1>13, <1>14, <1>15, <1>16 DEF TwoSided

LEMMA CloseSucceedsTwo ==
    ASSUME TwoSided, Typed', NEW t \in Task, CloseSucceeds(t)
    PROVE  TwoSided'
  <1>1. /\ task[t].at = "close" /\ task[t].answer = "accepted" /\ Finish(t)
        /\ UNCHANGED <<position, orders, pending, requests, held, orderFeed, positionFeed>>
    BY DEF CloseSucceeds, exchange
  <1>2. /\ t = "public" /\ ~Busy /\ reverse = None
        /\ task["private"].at = "idle" /\ task["private"].id = None
        /\ task["private"].answer = None
    BY <1>1, ExitIsPublic
  <1>3. /\ task'["public"].at = "idle" /\ task'["public"].id = None
        /\ task'["public"].answer = None /\ task'["private"] = task["private"]
    BY <1>1, <1>2, FinishedTask DEF TwoSided, Task
  <1>4. reverse' = task[t].side
    BY <1>2 DEF CloseSucceeds
  <1>5. ~Busy' /\ None # "rejected" /\ None # "close"
    BY <1>2, <1>3, ExecutionConstants DEF Busy
  <1>6. Identified'
    BY <1>1, <1>2, <1>3, <1>5 DEF TwoSided, Identified, Task
  <1>7. Tracks' /\ Reversing'
    BY <1>1, <1>2, <1>3, <1>5 DEF TwoSided, Tracks, Reversing, Opening
  <1>8. Alone'
    BY <1>3 DEF Alone, Opening
  <1>9. Closing'
    <2>1. \A c \in Side : Closes(c) => Closes(c)'
      BY <1>1, <1>2, <1>3, <1>4 DEF Closes, Flat
    <2> QED
      BY <1>1, <1>3, <1>5, <2>1 DEF TwoSided, Closing, Flat
  <1>10. Turned'
    <2>1. \A u \in Task : ~Opening(u)'
      BY <1>2, <1>3 DEF Opening, Task
    <2>2. ASSUME reverse' # None, pending # "close"
          PROVE  Only(reverse)'
      <3>1. /\ requests = {}
            /\ \A c \in Side : task["public"].side \notin {None, c} => held[c] = 0
        BY <1>1, <1>2, <2>2 DEF TwoSided, Alone
      <3> QED
        BY <1>1, <1>2, <1>4, <2>2, <3>1 DEF Only
    <2> QED
      BY <1>1, <2>1, <2>2 DEF Turned
  <1> QED
    BY <1>6, <1>7, <1>8, <1>9, <1>10 DEF TwoSided

LEMMA OpenSucceedsTwo ==
    ASSUME TwoSided, Typed', NEW t \in Task, OpenSucceeds(t)
    PROVE  TwoSided'
  <1>1. /\ task[t].at = "open" /\ Opening(t) /\ Finish(t)
        /\ UNCHANGED <<position, orders, pending, requests, held, orderFeed, positionFeed>>
    BY DEF OpenSucceeds, exchange, Opening
  <1>2. /\ task'[t].at = "idle" /\ task'[t].id = None /\ task'[t].answer = None
        /\ \A u \in Task : u # t => task'[u] = task[u]
    BY <1>1, FinishedTask DEF TwoSided
  <1>3. /\ pending # "close"
        /\ \A i \in 1 .. Len(positionFeed) : ~Flat(i)
        /\ \A r \in requests : r.kind = "open"
        /\ t = "private" => Busy /\ task[t].reversing
        /\ ~task[t].reversing => t = "public" /\ reverse = None /\ ~Busy
    BY <1>1, OpeningFacts
  <1>4. reverse' = None
    BY <1>3 DEF OpenSucceeds
  <1>5. None # "rejected"
    BY ExecutionConstants
  <1>6. \A u \in Task : Opening(u)' => Opening(u) /\ task'[u] = task[u]
    BY <1>2 DEF Opening
  <1>7. Identified'
    <2>1. \A u \in Task : task'[u].at \notin {"open", "close"}
                         => task'[u].id = None /\ task'[u].answer = None
      BY <1>2 DEF TwoSided, Identified
    <2>2. \A u \in Task, r \in requests :
            task'[u].answer = "rejected" => r.id # task'[u].id
      BY <1>2, <1>5 DEF TwoSided, Identified
    <2>3. task'["public"].id # None => task'["public"].id # task'["private"].id
      BY <1>2 DEF TwoSided, Identified, Task
    <2> QED
      BY <1>1, <2>1, <2>2, <2>3 DEF TwoSided, Identified
  <1>8. Busy' => t = "public" /\ Busy /\ task'["private"] = task["private"]
    BY <1>2 DEF Busy, Task
  <1>9. Tracks'
    BY <1>1, <1>2, <1>8 DEF TwoSided, Tracks
  <1>10. Reversing'
    <2>1. Busy' => ~Holding'
      BY <1>1, <1>8 DEF TwoSided, Reversing, Holding
    <2>2. task'["private"].at \in {"idle", "signals", "leverage", "open"}
      BY <1>2 DEF TwoSided, Reversing, Task
    <2>3. Opening("private")' => task'["private"].reversing
      BY <1>6 DEF TwoSided, Reversing, Task
    <2>4. ASSUME Busy'
          PROVE  /\ task'["public"].at \in {"idle", "signals"}
                 /\ \E o \in orders' : o.id # task'["private"].id
      <3>1. PICK o \in orders : o.id = task["public"].id
        BY <1>1, <1>8, <2>4 DEF TwoSided, Tracks
      <3>2. o.id # None
        BY <3>1, ExecutionConstants DEF TwoSided, Typed, TypeOK, Tracked
      <3>3. o.id # task["private"].id
        BY <3>1, <3>2 DEF TwoSided, Identified
      <3> QED
        BY <1>1, <1>2, <1>8, <2>4, <3>3
    <2> QED
      BY <2>1, <2>2, <2>3, <2>4 DEF Reversing
  <1>11. Alone'
    <2>1. CASE t = "public"
      BY <1>2, <2>1 DEF Alone, Opening
    <2>2. CASE t = "private"
      <3>1. task'["public"] = task["public"] /\ Busy
        BY <1>2, <1>3, <2>2 DEF Task
      <3>2. /\ task["public"].at \notin {"exit", "close"}
            /\ Opening("public") => task["public"].reversing
        BY <3>1 DEF TwoSided, Alone
      <3> QED
        BY <3>1, <3>2 DEF Alone, Opening
    <2> QED
      BY <2>1, <2>2 DEF Task
  <1>12. Closing'
    BY <1>1, <1>3 DEF Closing, Flat
  <1>13. Turned'
    <2>1. \A s : Only(s) => Only(s)'
      BY <1>1 DEF Only
    <2> QED
      BY <1>1, <1>4, <1>6, <2>1 DEF TwoSided, Turned
  <1> QED
    BY <1>7, <1>9, <1>10, <1>11, <1>12, <1>13 DEF TwoSided

LEMMA TaskStepTwo ==
    ASSUME TwoSided, Typed', "lost answer" \notin Faults, NEW t \in Task, TaskStep(t)
    PROVE  TwoSided'
  <1>1. CASE Skip(t)
    BY <1>1, FinishTwo DEF Skip, known
  <1>2. CASE BeginOpen(t)
    BY <1>2, BeginOpenTwo
  <1>3. CASE CheckExit(t)
    BY <1>3, CheckExitTwo
  <1>4. CASE SendClose(t)
    BY <1>4, SendCloseTwo
  <1>5. CASE NoExit(t)
    BY <1>5, FinishTwo DEF NoExit, known
  <1>6. CASE SendOpen(t)
    BY <1>6, SendOpenTwo
  <1>7. CASE OpenRefused(t)
    BY <1>7, OpeningFacts, FinishTwo DEF OpenRefused, Opening
  <1>8. CASE LeverageFails(t)
    BY <1>8, FinishTwo DEF LeverageFails
  <1>9. CASE CloseSucceeds(t)
    BY <1>9, CloseSucceedsTwo
  <1>10. CASE CloseFails(t)
    <2>1. task[t].at = "close" /\ task[t].answer = "rejected"
      BY <1>10 DEF CloseFails, Failed
    <2>2. t = "public" /\ reverse = None
      BY <2>1, ExitIsPublic
    <2>3. pending = "close"
      BY <2>1, <2>2 DEF TwoSided, Alone
    <2>4. PICK c \in Side : Closes(c)
      BY <2>3 DEF TwoSided, Closing
    <2>5. requests = {}
      BY <2>1, <2>2, <2>4 DEF TwoSided, Identified, Closes
    <2>6. \A i \in 1 .. Len(positionFeed) : ~Flat(i)
      BY <2>1, <2>2, <2>4 DEF Closes
    <2> QED
      BY <1>10, <2>1, <2>2, <2>5, <2>6, FinishTwo DEF CloseFails
  <1>11. CASE OpenSucceeds(t)
    BY <1>11, OpenSucceedsTwo
  <1>12. CASE OpenFails(t)
    <2>1. task[t].at = "open" /\ task[t].answer = "rejected" /\ Opening(t)
      BY <1>12 DEF OpenFails, Failed, Opening
    <2> QED
      BY <1>12, <2>1, OpeningFacts, FinishTwo DEF OpenFails
  <1> QED
    BY <1>1, <1>2, <1>3, <1>4, <1>5, <1>6, <1>7, <1>8, <1>9, <1>10, <1>11, <1>12
       DEF TaskStep, Decides, Submits, Concludes

-----------------------------------------------------------------------------
(* What the streams tell, for two sides.                                    *)

LEMMA OrderUpdateTwo ==
    ASSUME TwoSided, Typed', ReceiveOrder
    PROVE  TwoSided'
  <1> DEFINE m == Head(orderFeed)
  <1>1. /\ UNCHANGED <<position, pending, reverse, task, requests, held, positionFeed>>
        /\ orderFeed' = Tail(orderFeed) /\ orderFeed # <<>>
        /\ task["private"].at = "idle"
    BY DEF ReceiveOrder
  <1>2. orderFeed \in Seq(Update) /\ Len(orderFeed) \in Nat /\ Len(orderFeed) > 0
    BY <1>1, EmptySeq, LenProperties DEF TwoSided, Typed, TypeOK, Update
  <1>3. /\ m = orderFeed[1] /\ Len(Tail(orderFeed)) = Len(orderFeed) - 1
        /\ \A i \in 1 .. Len(Tail(orderFeed)) : Tail(orderFeed)[i] = orderFeed[i + 1]
    BY <1>1, <1>2, HeadTailProperties
  <1>4. \A r \in requests : r.id # m.id
    BY <1>2, <1>3 DEF TwoSided, Identified
  <1>5. \A o \in Untrack(m.id) : o \in orders'
    BY DEF ReceiveOrder
  <1>6. \A r \in requests : \E o \in orders' : o.id = r.id
    BY <1>4, <1>5 DEF TwoSided, Tracks, Untrack
  <1>7. ~Busy /\ ~Busy'
    BY <1>1 DEF Busy
  <1>8. Identified'
    <2>1. \A r \in requests, i \in 1 .. Len(orderFeed') : orderFeed'[i].id # r.id
      BY <1>1, <1>2, <1>3 DEF TwoSided, Identified
    <2> QED
      BY <1>1, <2>1 DEF TwoSided, Identified
  <1>9. Tracks' /\ Reversing'
    BY <1>1, <1>6, <1>7 DEF TwoSided, Tracks, Reversing, Opening
  <1>10. Alone' /\ Turned'
    BY <1>1 DEF TwoSided, Alone, Turned, Opening, Only, Busy
  <1>11. Closing'
    BY <1>1 DEF TwoSided, Closing, Closes, Flat, Busy
  <1> QED
    BY <1>8, <1>9, <1>10, <1>11 DEF TwoSided

\* The position is flat: the close is over, and a reversal may begin.
LEMMA FlatUpdateTwo ==
    ASSUME TwoSided, Typed', ReceivePosition, Flat(1)
    PROVE  TwoSided'
  <1>1. /\ positionFeed \in Seq(Position) /\ positionFeed # <<>> /\ Len(positionFeed) \in Nat
        /\ task["private"].at = "idle"
    BY DEF ReceivePosition, TwoSided, Typed, TypeOK
  <1>2. 1 \in 1 .. Len(positionFeed) /\ Head(positionFeed) = positionFeed[1]
    BY <1>1, TailFacts
  <1>3. pending = "close"
    BY <1>2 DEF TwoSided, Closing
  <1>4. PICK c \in Side : Closes(c)
    BY <1>3 DEF TwoSided, Closing
  <1>5. /\ 1 = Len(positionFeed) /\ requests = {} /\ held[c] = 0
        /\ task["public"].at = "close" => task["public"].answer = "accepted"
        /\ reverse # c /\ (task["public"].at = "close" => task["public"].side # c)
    BY <1>2, <1>4 DEF Closes
  <1>6. Head(positionFeed).quantity = 0
    BY <1>2 DEF Flat
  <1>7. /\ position' = Head(positionFeed) /\ positionFeed' = <<>> /\ pending' = None
        /\ UNCHANGED <<reverse, requests, held, orderFeed>>
    BY <1>1, <1>3, <1>5, <1>6, TailFacts DEF ReceivePosition, SettledPending
  <1>8. task' = IF reverse # None THEN [task EXCEPT !["private"].at = "signals"] ELSE task
    BY <1>6 DEF ReceivePosition
  <1>9. /\ task'["public"] = task["public"]
        /\ task'["private"].id = None /\ task'["private"].answer = None
        /\ task'["private"].at \in {"idle", "signals"}
        /\ task'["private"].at # "idle" => reverse # None
    <2>1. task["private"].id = None /\ task["private"].answer = None
      BY <1>1, NotBusy
    <2>2. CASE reverse # None
      BY <1>8, <2>1, <2>2 DEF TwoSided, Typed, TypeOK, Await, Task
    <2>3. CASE reverse = None
      BY <1>1, <1>8, <2>1, <2>3
    <2> QED
      BY <2>2, <2>3
  <1>10. task["public"].at \in {"idle", "signals", "close"}
    BY <1>3 DEF TwoSided, Closing
  <1>11. Identified'
    BY <1>5, <1>7, <1>9 DEF TwoSided, Identified, Task
  <1>12. Tracks'
    BY <1>5, <1>7, <1>9, <1>10 DEF Tracks
  <1>13. Reversing'
    BY <1>6, <1>7, <1>9 DEF Reversing, Holding, Opening, Busy
  <1>14. Alone'
    <2>1. ASSUME task["public"].at = "close"
          PROVE  /\ reverse = None
                 /\ \A d \in Side : task["public"].side \notin {None, d} => held[d] = 0
      <3>1. reverse = None
        BY <2>1 DEF TwoSided, Alone
      <3>2. task["public"].side \in Side \union {None}
        BY DEF TwoSided, Typed, TypeOK, Await, Task
      <3>3. \A d \in Side : task["public"].side \notin {None, d} => d = c
        BY <1>5, <2>1, <3>2, SidesTwo
      <3> QED
        BY <1>5, <3>1, <3>3
    <2> QED
      BY <1>5, <1>7, <1>9, <1>10, <2>1 DEF Alone, Opening, Busy
  <1>15. Closing'
    <2>1. None # "close" /\ Len(<<>>) = 0
      BY ExecutionConstants
    <2> QED
      BY <1>5, <1>7, <2>1 DEF Closing, Flat
  <1>16. Turned'
    <2>1. \A u \in Task : ~Opening(u)'
      BY <1>9, <1>10 DEF Opening, Task
    <2>2. reverse # None => \A d \in Side \ {reverse} : held[d] = 0
      <3>1. reverse \in Side \union {None}
        BY DEF TwoSided, Typed, TypeOK
      <3> QED
        BY <1>5, <3>1, SidesTwo
    <2> QED
      BY <1>5, <1>7, <2>1, <2>2 DEF Turned, Only
  <1> QED
    BY <1>11, <1>12, <1>13, <1>14, <1>15, <1>16 DEF TwoSided

LEMMA HeldUpdateTwo ==
    ASSUME TwoSided, Typed', ReceivePosition, ~Flat(1)
    PROVE  TwoSided'
  <1>1. /\ positionFeed \in Seq(Position) /\ positionFeed # <<>> /\ Len(positionFeed) \in Nat
        /\ task["private"].at = "idle"
    BY DEF ReceivePosition, TwoSided, Typed, TypeOK
  <1>2. Head(positionFeed).quantity # 0
    BY <1>1, TailFacts DEF Flat
  <1>3. /\ positionFeed' = Tail(positionFeed)
        /\ pending' = IF pending = "open" THEN None ELSE pending
        /\ UNCHANGED <<orders, task, reverse, requests, held, orderFeed>>
    BY <1>2 DEF ReceivePosition, SettledPending
  <1>4. /\ Len(positionFeed') = Len(positionFeed) - 1
        /\ \A i \in 1 .. Len(positionFeed') :
              positionFeed'[i] = positionFeed[i + 1] /\ i + 1 \in 1 .. Len(positionFeed)
    BY <1>1, <1>3, TailFacts
  <1>5. None # "close"
    BY ExecutionConstants
  <1>6. ~Busy /\ ~Busy'
    BY <1>1, <1>3 DEF Busy
  <1>7. Identified'
    BY <1>3 DEF TwoSided, Identified
  <1>8. Tracks' /\ Reversing'
    BY <1>3, <1>6 DEF TwoSided, Tracks, Reversing, Opening
  <1>9. Alone'
    BY <1>3, <1>5, <1>6 DEF TwoSided, Alone, Opening
  <1>10. \A i \in 1 .. Len(positionFeed') : Flat(i)' => Flat(i + 1)
    BY <1>4 DEF Flat
  <1>11. Closing'
    <2>1. ASSUME NEW c \in Side, Closes(c)
          PROVE  Closes(c)'
      <3>1. ASSUME NEW i \in 1 .. Len(positionFeed'), Flat(i)'
            PROVE  i + 1 = Len(positionFeed)
                   /\ requests = {} /\ held[c] = 0
                   /\ (task["public"].at = "close" => task["public"].answer = "accepted")
        BY <1>4, <1>10, <2>1, <3>1 DEF Closes
      <3>2. \A i \in 1 .. Len(positionFeed') : Flat(i)' =>
              /\ i = Len(positionFeed') /\ requests' = {} /\ held'[c] = 0
              /\ task'["public"].at = "close" => task'["public"].answer = "accepted"
        <4> TAKE i \in 1 .. Len(positionFeed')
        <4> HAVE Flat(i)'
        <4>1. /\ i + 1 = Len(positionFeed) /\ requests = {} /\ held[c] = 0
              /\ task["public"].at = "close" => task["public"].answer = "accepted"
          BY <3>1
        <4>2. i = Len(positionFeed')
          BY <1>1, <1>4, <4>1
        <4> QED
          BY <1>3, <4>1, <4>2
      <3> QED
        BY <1>3, <2>1, <3>2 DEF Closes
    <2>2. pending # "close" =>
            /\ \A i \in 1 .. Len(positionFeed') : ~Flat(i)'
            /\ \A r \in requests' : r.kind = "open"
      BY <1>3, <1>4, <1>10 DEF TwoSided, Closing
    <2>3. pending' = "close" <=> pending = "close"
      BY <1>3, <1>5
    <2> QED
      BY <1>3, <1>6, <2>1, <2>2, <2>3 DEF TwoSided, Closing
  <1>12. Turned'
    <2>1. pending' # "close" <=> pending # "close"
      BY <1>3, <1>5
    <2>2. \A s : Only(s) => Only(s)'
      BY <1>3 DEF Only
    <2> QED
      BY <1>3, <2>1, <2>2 DEF TwoSided, Turned, Opening
  <1> QED
    BY <1>7, <1>8, <1>9, <1>11, <1>12 DEF TwoSided

-----------------------------------------------------------------------------
(* What the exchange does, for two sides.                                   *)

LEMMA AnsweredTwo ==
    ASSUME Typed, NEW r, NEW answer, Answered(r, answer), NEW t \in Task
    PROVE  /\ task'[t].at = task[t].at /\ task'[t].side = task[t].side
           /\ task'[t].id = task[t].id /\ task'[t].reversing = task[t].reversing
           /\ task[t].id = r.id => task'[t].answer = answer
           /\ task[t].id # r.id => task'[t].answer = task[t].answer
  BY DEF Answered, Typed, TypeOK, Await

\* A request of the trader means that no reported position is flat yet.
LEMMA NothingFlat ==
    ASSUME TwoSided, requests # {}
    PROVE  \A i \in 1 .. Len(positionFeed) : ~Flat(i)
  BY DEF TwoSided, Closing, Closes

\* What is left of the requests keeps its ids, kinds and sides.
Remain ==
    /\ \A q \in requests' : \E p \in requests :
          q.id = p.id /\ q.kind = p.kind /\ q.side = p.side
    /\ \A q1, q2 \in requests' : q1.id = q2.id => q1 = q2
    /\ \A q \in requests', i \in 1 .. Len(orderFeed') : orderFeed'[i].id # q.id

LEMMA SettledTwo ==
    ASSUME TwoSided, NEW r \in requests, NEW answer \in {"accepted", "rejected"},
           Answered(r, answer), UNCHANGED known, Remain,
           answer = "rejected" => \A q \in requests' : q.id # r.id
    PROVE  Identified' /\ Tracks' /\ Reversing' /\ Alone'
  <1>1. \A t \in Task :
          /\ task'[t].at = task[t].at /\ task'[t].side = task[t].side
          /\ task'[t].id = task[t].id /\ task'[t].reversing = task[t].reversing
          /\ task[t].id = r.id => task'[t].answer = answer
          /\ task[t].id # r.id => task'[t].answer = task[t].answer
    BY AnsweredTwo DEF TwoSided
  <1>2. r.id \in Order /\ r.id # None
    BY ExecutionConstants DEF TwoSided, Typed, TypeOK, Request
  <1>3. UNCHANGED <<position, orders, pending, reverse>>
    BY DEF known
  <1>4. Busy' <=> Busy
    BY <1>1 DEF Busy, Task
  <1>5. Identified'
    <2>1. \A t \in Task : task'[t].at \notin {"open", "close"}
                         => task'[t].id = None /\ task'[t].answer = None
      BY <1>1, <1>2 DEF TwoSided, Identified
    <2>2. ASSUME NEW t \in Task, NEW q \in requests', task'[t].answer = "rejected"
          PROVE  q.id # task'[t].id
      <3>1. CASE task[t].id = r.id
        BY <1>1, <2>2, <3>1
      <3>2. CASE task[t].id # r.id
        BY <1>1, <2>2, <3>2 DEF TwoSided, Identified, Remain
      <3> QED
        BY <3>1, <3>2
    <2>3. task'["public"].id # None => task'["public"].id # task'["private"].id
      BY <1>1 DEF TwoSided, Identified, Task
    <2> QED
      BY <2>1, <2>2, <2>3 DEF Identified, Remain
  <1>6. Tracks'
    <2>1. \A q \in requests' : \E o \in orders' : o.id = q.id
      BY <1>3 DEF TwoSided, Tracks, Remain
    <2>2. Busy /\ task["public"].at = "open" => \E o \in orders' : o.id = task["public"].id
      BY <1>3 DEF TwoSided, Tracks
    <2> QED
      BY <1>1, <1>4, <2>1, <2>2 DEF Tracks, Task
  <1>7. Reversing'
    <2>1. Opening("private")' <=> Opening("private")
      BY <1>1 DEF Opening, Task
    <2>2. Holding' <=> Holding
      BY <1>3 DEF Holding
    <2> QED
      BY <1>1, <1>3, <1>4, <2>1, <2>2 DEF TwoSided, Reversing, Task
  <1>8. Alone'
    <2>1. Opening("public")' <=> Opening("public")
      BY <1>1 DEF Opening, Task
    <2>2. /\ task["public"].at # "exit"
          /\ task["public"].at = "close" => pending = "close"
      BY DEF TwoSided, Alone
    <2> QED
      BY <1>1, <1>3, <1>4, <2>1, <2>2 DEF TwoSided, Alone, Task
  <1> QED
    BY <1>5, <1>6, <1>7, <1>8

\* An answer, or the end of an order that does not fill, moves no units.
LEMMA UnfilledTwo ==
    ASSUME TwoSided, Typed', NEW r \in requests, NEW answer \in {"accepted", "rejected"},
           Answered(r, answer), UNCHANGED <<known, held, positionFeed>>, Remain,
           answer = "rejected" => \A q \in requests' : q.id # r.id
    PROVE  TwoSided'
  <1>1. \A t \in Task :
          /\ task'[t].at = task[t].at /\ task'[t].side = task[t].side
          /\ task'[t].id = task[t].id /\ task'[t].reversing = task[t].reversing
    BY AnsweredTwo DEF TwoSided
  <1>2. UNCHANGED <<pending, reverse>>
    BY DEF known
  <1>3. \A i \in 1 .. Len(positionFeed) : ~Flat(i)
    BY NothingFlat
  <1>4. (Busy' <=> Busy) /\ \A t \in Task : Opening(t)' <=> Opening(t)
    BY <1>1 DEF Busy, Task, Opening
  <1>5. Closing'
    <2>1. ASSUME NEW c \in Side, Closes(c)
          PROVE  Closes(c)'
      <3>1. /\ \A q \in requests' : q.kind = "close" /\ q.side = c
            /\ task["public"].at = "close" => \A q \in requests' : q.id = task["public"].id
        BY <2>1 DEF Closes, Remain
      <3>2. \A q1, q2 \in requests' : q1 = q2
        <4> TAKE q1, q2 \in requests'
        <4>1. PICK p1 \in requests : q1.id = p1.id
          BY DEF Remain
        <4>2. PICK p2 \in requests : q2.id = p2.id
          BY DEF Remain
        <4>3. p1 = p2
          BY <2>1 DEF Closes
        <4> QED
          BY <4>1, <4>2, <4>3 DEF Remain
      <3>3. \A i \in 1 .. Len(positionFeed') : ~Flat(i)'
        BY <1>3 DEF Flat
      <3> QED
        BY <1>1, <1>2, <2>1, <3>1, <3>2, <3>3 DEF Closes, Task
    <2>2. pending # "close" =>
            /\ \A i \in 1 .. Len(positionFeed') : ~Flat(i)'
            /\ \A q \in requests' : q.kind = "open"
      BY <1>3 DEF TwoSided, Closing, Remain, Flat
    <2> QED
      BY <1>1, <1>2, <1>4, <2>1, <2>2 DEF TwoSided, Closing, Task
  <1>6. Turned'
    <2>1. \A s : Only(s) => Only(s)'
      BY DEF Only, Remain
    <2> QED
      BY <1>1, <1>2, <1>4, <2>1 DEF TwoSided, Turned
  <1> QED
    BY <1>5, <1>6, SettledTwo DEF TwoSided

LEMMA AcceptsTwo ==
    ASSUME TwoSided, Typed', NEW r \in requests, Accepts(r)
    PROVE  TwoSided'
  <1> DEFINE n == [r EXCEPT !.accepted = TRUE]
  <1>1. /\ requests' = (requests \ {r}) \union {n} /\ Answered(r, "accepted")
        /\ UNCHANGED <<known, held, orderFeed, positionFeed>>
    BY DEF Accepts
  <1>2. n.id = r.id /\ n.kind = r.kind /\ n.side = r.side
    BY DEF TwoSided, Typed, TypeOK, Request
  <1> HIDE DEF n
  <1>3. Remain
    <2>1. \A q \in requests' : \E p \in requests :
            q.id = p.id /\ q.kind = p.kind /\ q.side = p.side
      BY <1>1, <1>2
    <2>2. \A q1, q2 \in requests' : q1.id = q2.id => q1 = q2
      BY <1>1, <1>2 DEF TwoSided, Identified
    <2>3. \A q \in requests', i \in 1 .. Len(orderFeed') : orderFeed'[i].id # q.id
      BY <1>1, <2>1 DEF TwoSided, Identified
    <2> QED
      BY <2>1, <2>2, <2>3 DEF Remain
  <1>4. "accepted" # "rejected"
    OBVIOUS
  <1> QED
    BY <1>1, <1>3, <1>4, UnfilledTwo

\* A request settles: the messages about it are the only new ones.
LEMMA SettledRemain ==
    ASSUME TwoSided, NEW r \in requests, requests' = requests \ {r},
           \A i \in 1 .. Len(orderFeed') :
              \/ orderFeed'[i].id = r.id
              \/ \E j \in 1 .. Len(orderFeed) : orderFeed'[i] = orderFeed[j]
    PROVE  Remain /\ \A q \in requests' : q.id # r.id
  <1>1. \A q \in requests' : q \in requests /\ q.id # r.id
    BY DEF TwoSided, Identified
  <1>2. ASSUME NEW q \in requests', NEW i \in 1 .. Len(orderFeed')
        PROVE  orderFeed'[i].id # q.id
    BY <1>1 DEF TwoSided, Identified
  <1> QED
    BY <1>1, <1>2 DEF Remain, TwoSided, Identified

LEMMA RejectsTwo ==
    ASSUME TwoSided, Typed', NEW r \in requests, Rejects(r)
    PROVE  TwoSided'
  <1>1. /\ requests' = requests \ {r} /\ Answered(r, "rejected")
        /\ UNCHANGED <<known, held, orderFeed, positionFeed>>
    BY DEF Rejects
  <1>2. Remain /\ \A q \in requests' : q.id # r.id
    BY <1>1, SettledRemain
  <1> QED
    BY <1>1, <1>2, UnfilledTwo

LEMMA CancelsTwo ==
    ASSUME TwoSided, Typed', NEW r \in requests, Cancels(r)
    PROVE  TwoSided'
  <1> DEFINE n == [id |-> r.id, status |-> "canceled"]
  <1>1. /\ requests' = requests \ {r} /\ Answered(r, "accepted")
        /\ orderFeed' = Append(orderFeed, n)
        /\ UNCHANGED <<known, held, positionFeed>>
    BY DEF Cancels
  <1>2. n.id = r.id /\ n \in Update
    BY DEF TwoSided, Typed, TypeOK, Request, Update
  <1> HIDE DEF n
  <1>3. orderFeed \in Seq(Update) /\ Len(orderFeed) \in Nat
    BY LenProperties DEF TwoSided, Typed, TypeOK, Update
  <1>4. \A i \in 1 .. Len(orderFeed') :
           orderFeed'[i].id = r.id \/ \E j \in 1 .. Len(orderFeed) : orderFeed'[i] = orderFeed[j]
    BY <1>1, <1>2, <1>3, AppendProperties
  <1>5. Remain /\ "accepted" # "rejected"
    BY <1>1, <1>4, SettledRemain
  <1> QED
    BY <1>1, <1>5, UnfilledTwo

\* The messages a fill adds are about the order that fills.
LEMMA ExecutesFeed ==
    ASSUME TwoSided, NEW r \in requests, Executes(r)
    PROVE  \A i \in 1 .. Len(orderFeed') :
             orderFeed'[i].id = r.id \/ \E j \in 1 .. Len(orderFeed) : orderFeed'[i] = orderFeed[j]
  <1>1. r.id \in Order
    BY DEF TwoSided, Typed, TypeOK, Request
  <1>2. PICK statuses \in {<<"filled">>, <<"live", "filled">>} :
          orderFeed' = orderFeed \o
            [i \in 1 .. Len(statuses) |-> [id |-> r.id, status |-> statuses[i]]]
    BY DEF Executes
  <1> DEFINE new == [i \in 1 .. Len(statuses) |-> [id |-> r.id, status |-> statuses[i]]]
  <1>3. statuses \in Seq({"live", "filled", "canceled"}) /\ Len(statuses) \in Nat
    <2>1. <<"filled">> \in Seq({"live", "filled", "canceled"})
      OBVIOUS
    <2>2. <<"live", "filled">> \in Seq({"live", "filled", "canceled"})
      OBVIOUS
    <2> QED
      BY <2>1, <2>2
  <1>4. \A i \in 1 .. Len(statuses) : [id |-> r.id, status |-> statuses[i]] \in Update
    BY <1>1, <1>3, ElementOfSeq DEF Update
  <1>5. new \in Seq(Update) /\ \A i \in 1 .. Len(new) : new[i].id = r.id
    BY <1>3, <1>4, IsASeq
  <1>6. orderFeed' = orderFeed \o new
    BY <1>2
  <1> HIDE DEF new
  <1>7. orderFeed \in Seq(Update)
    BY DEF TwoSided, Typed, TypeOK, Update
  <1> DEFINE old == Len(orderFeed)
  <1>8. old \in Nat /\ Len(new) \in Nat /\ Len(orderFeed') = old + Len(new)
    BY <1>5, <1>6, <1>7, ConcatProperties
  <1> TAKE i \in 1 .. Len(orderFeed')
  <1>9. CASE i <= old
    BY <1>5, <1>6, <1>7, <1>8, <1>9, ConcatProperties
  <1>10. CASE i > old
    <2>1. i - old \in 1 .. Len(new) /\ orderFeed'[i] = new[i - old]
      BY <1>5, <1>6, <1>7, <1>8, <1>10, ConcatProperties
    <2> QED
      BY <1>5, <2>1
  <1> QED
    BY <1>8, <1>9, <1>10

\* A fill moves the units of the side that is closed or opened.
LEMMA ExecutesTwo ==
    ASSUME TwoSided, Typed', NEW r \in requests, Executes(r)
    PROVE  TwoSided'
  <1> DEFINE m == [side |-> r.side, quantity |-> Filled(r)]
  <1>1. /\ r.side \in Side /\ r.kind \in {"open", "close"} /\ r.id \in Order
        /\ r.size \in Nat /\ r.size > 0
    BY DEF TwoSided, Typed, TypeOK, Request
  <1>2. held \in [Side -> Nat] /\ Filled(r) \in Nat /\ (r.kind = "open" => Filled(r) # 0)
    BY <1>1 DEF TwoSided, Typed, TypeOK, Filled
  <1>3. /\ held' = [held EXCEPT ![r.side] = Filled(r)]
        /\ requests' = requests \ {r}
        /\ positionFeed' = Append(positionFeed, m)
        /\ Answered(r, "accepted")
        /\ UNCHANGED known /\ UNCHANGED <<pending, reverse>>
    BY DEF Executes, known
  <1>4. held'[r.side] = Filled(r) /\ \A c \in Side : c # r.side => held'[c] = held[c]
    BY <1>1, <1>2, <1>3
  <1>5. positionFeed \in Seq(Position) /\ m \in Position
    BY <1>1, <1>2 DEF Executes, TwoSided, Typed, TypeOK, Position
  <1>6. m.quantity = Filled(r)
    OBVIOUS
  <1> HIDE DEF m
  <1>7. /\ Len(positionFeed') = Len(positionFeed) + 1 /\ Len(positionFeed) \in Nat
        /\ \A i \in 1 .. Len(positionFeed) : positionFeed'[i] = positionFeed[i]
        /\ positionFeed'[Len(positionFeed) + 1] = m
    BY <1>3, <1>5, AppendProperties
  <1>8. \A i \in 1 .. Len(positionFeed') : Flat(i)' =>
           i = Len(positionFeed') /\ Filled(r) = 0
    <2> TAKE i \in 1 .. Len(positionFeed')
    <2> HAVE Flat(i)'
    <2>1. i \notin 1 .. Len(positionFeed)
      <3> SUFFICES ASSUME i \in 1 .. Len(positionFeed) PROVE FALSE
        OBVIOUS
      <3>1. Flat(i)
        BY <1>7 DEF Flat
      <3> QED
        BY <3>1, NothingFlat
    <2>2. i = Len(positionFeed') /\ i = Len(positionFeed) + 1
      BY <1>7, <2>1
    <2> QED
      BY <1>6, <1>7, <2>2 DEF Flat
  <1>9. Remain /\ \A q \in requests' : q.id # r.id
    BY <1>1, <1>3, ExecutesFeed, SettledRemain
  <1>10. \A t \in Task :
          /\ task'[t].at = task[t].at /\ task'[t].side = task[t].side
          /\ task'[t].id = task[t].id /\ task'[t].reversing = task[t].reversing
          /\ task[t].id = r.id => task'[t].answer = "accepted"
    BY <1>3, AnsweredTwo DEF TwoSided
  <1>11. (Busy' <=> Busy) /\ \A t \in Task : Opening(t)' <=> Opening(t)
    BY <1>10 DEF Busy, Task, Opening
  <1>12. Closing'
    <2>1. ASSUME NEW c \in Side, Closes(c)
          PROVE  Closes(c)'
      <3>1. requests' = {} /\ r.side = c
        BY <1>3, <2>1 DEF Closes
      <3>2. task'["public"].at = "close" => task'["public"].answer = "accepted"
        BY <1>10, <2>1 DEF Closes, Task
      <3>3. \A i \in 1 .. Len(positionFeed') : Flat(i)' =>
              /\ i = Len(positionFeed') /\ requests' = {} /\ held'[c] = 0
              /\ task'["public"].at = "close" => task'["public"].answer = "accepted"
        BY <1>4, <1>8, <3>1, <3>2
      <3> QED
        BY <1>3, <1>10, <2>1, <3>1, <3>3 DEF Closes, Task
    <2>2. pending # "close" =>
            /\ \A i \in 1 .. Len(positionFeed') : ~Flat(i)'
            /\ \A q \in requests' : q.kind = "open"
      BY <1>2, <1>3, <1>8 DEF TwoSided, Closing
    <2> QED
      BY <1>3, <1>10, <1>11, <2>1, <2>2 DEF TwoSided, Closing, Task
  <1>13. Turned'
    <2>1. \A s : Only(s) => Only(s)'
      BY <1>3, <1>4 DEF Only
    <2> QED
      BY <1>3, <1>10, <1>11, <2>1 DEF TwoSided, Turned
  <1> QED
    BY <1>3, <1>9, <1>12, <1>13, SettledTwo DEF TwoSided

LEMMA ExchangeTwo ==
    ASSUME TwoSided, Typed', Exchange
    PROVE  TwoSided'
  <1>1. PICK r \in requests : Accepts(r) \/ Executes(r) \/ Rejects(r) \/ Cancels(r)
    BY DEF Exchange, Settles
  <1> QED
    BY <1>1, AcceptsTwo, ExecutesTwo, RejectsTwo, CancelsTwo

\* A new subscription reports what is held, which is never flat.
LEMMA ReportsHeld ==
    ASSUME TypeOK, NEW side \in Side
    PROVE  \A i \in 1 .. Len(Report(side)) : Report(side)[i].quantity # 0
  <1>1. CASE held[side] = 0
    BY <1>1 DEF Report
  <1>2. CASE held[side] # 0
    <2> DEFINE m == [side |-> side, quantity |-> held[side]]
    <2>1. Report(side) = <<m>> /\ m.quantity # 0
      BY <1>2 DEF Report
    <2> HIDE DEF m
    <2> QED
      BY <2>1
  <1> QED
    BY <1>1, <1>2

LEMMA ReconnectTwo ==
    ASSUME TwoSided, Typed', Reconnect
    PROVE  TwoSided'
  <1>1. PICK first \in Side, second \in Side : positionFeed' = Report(first) \o Report(second)
    BY DEF Reconnect, Resubscribed
  <1>2. /\ orderFeed' = <<>> /\ task["private"].at = "idle"
        /\ UNCHANGED <<position, orders, pending, reverse, task, requests, held>>
    BY DEF Reconnect, Resubscribed, known
  <1>3. \A i \in 1 .. Len(positionFeed') : ~Flat(i)'
    <2> DEFINE a == Report(first)
               b == Report(second)
    <2>1. a \in Seq(Position) /\ b \in Seq(Position)
      BY ReportTypes DEF TwoSided, Typed
    <2>2. /\ \A i \in 1 .. Len(a) : a[i].quantity # 0
          /\ \A i \in 1 .. Len(b) : b[i].quantity # 0
      BY ReportsHeld DEF TwoSided, Typed
    <2> HIDE DEF a, b
    <2>3. /\ positionFeed' = a \o b /\ Len(a) \in Nat /\ Len(b) \in Nat
      BY <1>1, <2>1 DEF a, b
    <2>4. ASSUME NEW i \in 1 .. Len(positionFeed')
          PROVE  positionFeed'[i].quantity # 0
      <3>1. i \in Nat /\ i > 0 /\ i <= Len(a) + Len(b)
        BY <2>1, <2>3, <2>4, ConcatProperties
      <3>2. CASE i <= Len(a)
        BY <2>1, <2>2, <2>3, <3>1, <3>2, ConcatProperties
      <3>3. CASE i > Len(a)
        <4>1. i - Len(a) \in 1 .. Len(b)
          BY <2>3, <3>1, <3>3
        <4>2. positionFeed'[i] = b[i - Len(a)]
          BY <2>1, <2>3, <3>1, <3>3, ConcatProperties
        <4> QED
          BY <2>2, <4>1, <4>2
      <3> QED
        BY <2>3, <3>1, <3>2, <3>3
    <2> QED
      BY <2>4 DEF Flat
  <1>4. ~Busy /\ ~Busy'
    BY <1>2 DEF Busy
  <1>5. Identified'
    BY <1>2 DEF TwoSided, Identified
  <1>6. Tracks' /\ Reversing'
    BY <1>2, <1>4 DEF TwoSided, Tracks, Reversing, Opening
  <1>7. Alone' /\ Turned'
    BY <1>2, <1>4 DEF TwoSided, Alone, Turned, Opening, Only
  <1>8. Closing'
    BY <1>2, <1>3, <1>4 DEF TwoSided, Closing, Closes
  <1> QED
    BY <1>5, <1>6, <1>7, <1>8 DEF TwoSided

LEMMA InitTwo == Init => TwoSided
  <1> SUFFICES ASSUME Init PROVE TwoSided
    OBVIOUS
  <1>1. /\ requests = {} /\ orderFeed = <<>> /\ positionFeed = <<>> /\ pending = None
        /\ reverse = None
    BY DEF Init
  <1>2. \A t \in Task : task[t].at = "idle" /\ task[t].id = None /\ task[t].answer = None
    BY DEF Init, AtRest
  <1>3. None # "close" /\ None # "rejected"
    BY ExecutionConstants
  <1>4. ~Busy
    BY <1>2 DEF Busy, Task
  <1>5. Identified
    BY <1>1, <1>2 DEF Identified, Task
  <1>6. Tracks /\ Reversing
    BY <1>1, <1>2, <1>4 DEF Tracks, Reversing, Opening, Task
  <1>7. Alone /\ Turned
    BY <1>1, <1>2 DEF Alone, Turned, Opening, Task
  <1>8. Closing
    BY <1>1, <1>3 DEF Closing
  <1> QED
    BY <1>5, <1>6, <1>7, <1>8, InitTypes DEF TwoSided

LEMMA NextTwo ==
    ASSUME TwoSided, "lost answer" \notin Faults, [Next]_vars
    PROVE  TwoSided'
  <1>1. Typed'
    BY NextTypes DEF TwoSided
  <1>2. CASE Evaluate
    BY <1>1, <1>2, EvaluateTwo
  <1>3. CASE \E t \in Task : TaskStep(t)
    BY <1>1, <1>3, TaskStepTwo
  <1>4. CASE Private
    BY <1>1, <1>4, OrderUpdateTwo, FlatUpdateTwo, HeldUpdateTwo DEF Private
  <1>5. CASE Exchange
    BY <1>1, <1>5, ExchangeTwo
  <1>6. CASE Reconnect
    BY <1>1, <1>6, ReconnectTwo
  <1>7. CASE NewCandle \/ CooldownExpires \/ UNCHANGED vars
    <2>1. UNCHANGED <<position, orders, pending, reverse, task, requests, held,
                      orderFeed, positionFeed>>
      BY <1>7 DEF NewCandle, CooldownExpires, vars, known, exchange
    <2>2. Identified' /\ Tracks' /\ Reversing' /\ Alone'
      BY <2>1 DEF TwoSided, Identified, Tracks, Reversing, Alone, Busy, Opening, Holding
    <2>3. Closing' /\ Turned'
      BY <2>1 DEF TwoSided, Closing, Closes, Flat, Turned, Only, Busy, Opening
    <2> QED
      BY <1>1, <2>2, <2>3 DEF TwoSided
  <1> QED
    BY <1>2, <1>3, <1>4, <1>5, <1>6, <1>7 DEF Next

\* As long as the exchange answers every request, a reversal opens the other
\* side only when the exchange holds nothing of the side it closes: both tasks,
\* the two feeds and new subscriptions included.  A lost answer breaks this: the
\* trader gives up a close that the exchange still executes.
THEOREM ReverseFlat ==
    ASSUME "lost answer" \notin Faults
    PROVE  Spec => ReverseOpensFlat
  <1>1. Init => TwoSided
    BY InitTwo
  <1>2. TwoSided /\ [Next]_vars => TwoSided'
    BY NextTwo
  <1> DEFINE OpensFlat == \A t \in Task : SendsOpen(t) /\ task[t].reversing
                            => \A side \in Side \ {task[t].side} : held[side] = 0
  <1>3. TwoSided => OpensFlat
    BY DEF SendsOpen, TwoSided, Turned, Opening, Only
  <1>4. TwoSided /\ [Next]_vars => [OpensFlat]_vars
    BY <1>3
  <1> QED
    BY <1>1, <1>2, <1>4, PTL DEF Spec, ReverseOpensFlat

=============================================================================
