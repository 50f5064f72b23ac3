----------------------------- MODULE SmsProofs -----------------------------
(***************************************************************************)
(* Proofs about the delivery of SMS notifications, for every set of        *)
(* workers and tasks, every number of retries, duplicates and faults.      *)
(* Each invariant has a strengthening that is inductive; they are proved   *)
(* one after the other, each from the ones before it:                      *)
(*                                                                         *)
(*   SmsTypeOK, with CallsInOrder   what a worker can be about to do with  *)
(*                                  the wallet, and what it has decided    *)
(*   MarkIsLock                     who owns the SETNX mark of a task      *)
(*   ChargesCovered, RowsAreTrue    the records behind RecordsAreTrue      *)
(*   OutcomesStand                  what OutcomeIsFinal rests on           *)
(*   PaymentsKnown                  the charges the rows do not show       *)
(*   ClaimsPaid                     how many sends are still to come       *)
(*   CopiesBounded, NothingLost     the messages                           *)
(*   OutcomesExact                  the rows when nothing has failed       *)
(***************************************************************************)
EXTENDS SmsDelivery, Counting, TLAPS

-----------------------------------------------------------------------------
(* The inductive invariant, part by part                                   *)

(* Where a worker's use of the wallet is when its next call is call.       *)
StagesAt(call) ==
    IF call = "preDeduct" THEN {"idle", "checked"}
    ELSE IF call \in {"prepare", "send"} THEN {"held"}
    ELSE IF call = "refund" THEN {"held", "refunding"}
    ELSE IF call = "confirm" THEN {"held", "confirming"}
    ELSE {"idle"}

(* What SendSMS may have decided when the worker's next call is call.      *)
VerdictsAt(call) ==
    IF call = "finish" THEN {"nil", "skip"}
    ELSE IF call = "stamp" THEN {"nil"}
    ELSE IF call \in {"refund", "markFailed"} THEN {"skip", "retry"}
    ELSE IF call \in {"unmark", "ackRepublished"} THEN {"retry"}
    ELSE IF call = "settle" THEN {"nil", "skip", "retry"}
    ELSE {"none"}

(* Each worker's pc, its stage in the wallet and its verdict fit together. *)
CallsInOrder ==
    \A w \in Workers : /\ stage[w] \in StagesAt(pc[w])
                       /\ verdict[w] \in VerdictsAt(pc[w])

(* The worker owns the mark of its task: from SETNX until it has finished  *)
(* or given up.  A handler whose calls all fail, because its context was   *)
(* cancelled before it reached the wallet or after it gave up, owns        *)
(* nothing: it may have started without the mark, and cannot clear it.     *)
Owning(w) ==
    \/ Sending(w)
    \/ pc[w] \in {"lookup", "unmark", "finish"} /\ ~cancelled[w]

Locked ==
    /\ \A w \in Workers : Owning(w) => mark[Task(w)] # "none"
    /\ \A w, v \in Workers :
          w # v /\ Owning(w) /\ Owning(v) => Task(w) # Task(v)

MarkIsLock == faults["redis"] = 0 => Locked

(* The SMS of t that were sent and are about to be charged.                *)
Charging(t) == {w \in Workers : pc[w] = "confirm" /\ Task(w) = t}

ChargesCovered ==
    \A t \in Tasks : charged[t] + Cardinality(Charging(t)) <= sent[t]

(* A worker that is about to write a success, or has returned one, has     *)
(* charged the user for it.                                                *)
Paid(w) == \/ pc[w] = "markSuccess"
           \/ pc[w] \in {"finish", "stamp"} /\ verdict[w] = "nil"

RowsAreTrue ==
    /\ SuccessIsPaid
    /\ \A w \in Workers : Paid(w) => charged[Task(w)] >= 1
    /\ \A t \in Tasks : reminded[t] => charged[t] >= 1

(* Nobody works on a task that was delivered, nor sends one that was       *)
(* refused for good: whoever owns that task is giving it up, with a        *)
(* verdict that leaves the mark.                                           *)
GivingUp(w) == pc[w] \in {"refund", "markFailed", "finish"}
                   /\ verdict[w] = "skip"

Standing ==
    /\ \A w \in Workers : Sending(w) => status[Task(w)] # "success"
    /\ \A t \in refusedForGood : mark[t] # "none"
    /\ \A w \in Workers :
          Owning(w) /\ Task(w) \in refusedForGood => GivingUp(w)

OutcomesStand == faults["redis"] = 0 => Standing

(* Workers that can still send their task's SMS, or clear its mark so that *)
(* another can.                                                            *)
EntitledAt(call, decided, isCancelled) ==
    \/ call \in {"prepare", "send"}
    \/ /\ ~isCancelled
       /\ \/ call \in {"lookup", "preDeduct", "unmark"}
          \/ call \in {"refund", "markFailed"} /\ decided = "retry"

Entitled(t) ==
    {w \in Workers : EntitledAt(pc[w], verdict[w], cancelled[w]) /\ Task(w) = t}

(* Every send still to come was paid for: by the first one, or by an       *)
(* answer that was lost.                                                   *)
ClaimsPaid ==
    \A t \in Tasks :
        sent[t] + Cardinality(Entitled(t)) + (IF mark[t] = "none" THEN 1 ELSE 0)
            <= 1 + faults["reply"] + faults["redis"] + faults["db"]

(* Workers whose charge for t is committed and who can still write the     *)
(* row: the context of the others is cancelled, and the shutdown that did  *)
(* it is counted.                                                          *)
Writing(t) ==
    {w \in Workers : pc[w] = "markSuccess" /\ Task(w) = t /\ ~cancelled[w]}

Delivered(t) == IF status[t] = "success" THEN 1 ELSE 0

CutOffs == faults["db"] + faults["crash"] + faults["shutdown"]

(* Every charge is in the row, about to be, or was cut off.                *)
ChargesRecorded ==
    \A t \in Tasks :
        charged[t] <= Delivered(t) + Cardinality(Writing(t)) + CutOffs

PaymentsKnown == faults["redis"] = 0 => ChargesRecorded

(* A copy of the message of t that the broker has.                         *)
HoldsCopy(w, t) ==
    Serving(w, t) /\ hand[w].open /\ pc[w] # "ackRepublished"

Carriers(t) == {w \in Workers : HoldsCopy(w, t)}

HasCopy(t) ==
    \/ dlq[t] > 0
    \/ \E m \in Message : m.task = t /\ ready[m] > 0
    \/ \E w \in Workers : HoldsCopy(w, t)

(* A handler lets go of a pending task only if it had been cancelled, and  *)
(* then it leaves the mark.                                                *)
Marked ==
    /\ \A w \in Workers :
          pc[w] \in {"unmark", "finish"} /\ ~cancelled[w]
              => status[Task(w)] # "pending"
    /\ \A t \in Tasks : mark[t] = "completed" => status[t] # "pending"
    /\ \A w \in Workers :
          pc[w] \in {"finish", "stamp", "settle"}
             /\ verdict[w] \in {"nil", "skip"}
             /\ status[Task(w)] = "pending"
              => mark[Task(w)] = "processing"

(* A pending task that is not marked has a message.                        *)
Kept ==
    /\ Marked
    /\ \A t \in Tasks :
          status[t] = "pending" /\ mark[t] # "processing" => HasCopy(t)

NothingLost == faults["redis"] + faults["db"] = 0 => Kept

(* The broker's counters: finitely many copies of a message wait.          *)
WaitingFinite == \A t \in Tasks : IsFiniteSet(WaitingCopies(t))

(* Without faults no context is cancelled, no delivery is cut off and no   *)
(* hold is abandoned.                                                      *)
NoTrace ==
    /\ leaked = 0
    /\ \A w \in Workers : ~cancelled[w] /\ (hand[w] # NoMessage => hand[w].open)

Spent(t) == sent[t] = 1 /\ charged[t] = 1
Unspent(t) == sent[t] = 0 /\ charged[t] = 0

GivenUp(w) == \/ pc[w] \in {"unmark", "finish", "ackRepublished"}
              \/ pc[w] = "settle" /\ verdict[w] = "retry"

(* Without faults what has been handled has an outcome, and the counters   *)
(* follow the handler.                                                     *)
Exact ==
    /\ \A w \in Workers : GivenUp(w) => status[Task(w)] # "pending"
    /\ \A t \in Tasks : dlq[t] > 0 => status[t] # "pending"
    /\ \A t \in Tasks : status[t] = "success" => Spent(t)
    /\ \A w \in Workers :
          /\ pc[w] = "confirm" => sent[Task(w)] = 1 /\ charged[Task(w)] = 0
          /\ pc[w] = "markSuccess" => Spent(Task(w))
    /\ \A t \in Tasks :
          \/ status[t] = "success" \/ Unspent(t)
          \/ \E w \in Workers : pc[w] \in {"confirm", "markSuccess"}
                                /\ Task(w) = t

(* Without faults every processing mark has its owner.                     *)
MarksOwned ==
    \A t \in Tasks : mark[t] = "processing"
                        => \E w \in Workers : Owning(w) /\ Task(w) = t

OutcomesExact == NothingFailed => NoTrace /\ Exact /\ MarksOwned

-----------------------------------------------------------------------------
(* The calls of the workers                                                *)

CallsTyped ==
    /\ hand \in [Workers -> Delivery \cup {NoMessage}]
    /\ pc \in [Workers -> PCs]
    /\ cancelled \in [Workers -> BOOLEAN]
    /\ verdict \in [Workers -> {"none", "nil", "skip", "retry"}]
    /\ stage \in [Workers -> Wallet!Stages]
    /\ \A w \in Workers : hand[w] = NoMessage <=> pc[w] \in {"idle", "stopped"}
    /\ CallsInOrder

(* A worker that is neither idle nor stopped handles a message.            *)
LEMMA HandlersHaveMessages ==
    ASSUME CallsTyped, NEW w \in Workers, pc[w] \notin {"idle", "stopped"}
    PROVE  /\ hand[w] \in Delivery /\ hand[w] # NoMessage
           /\ Task(w) \in Tasks /\ hand[w].task = Task(w)
           /\ hand[w].retry \in 0..MaxRetries
           /\ hand[w].open \in BOOLEAN
           /\ [task |-> hand[w].task, retry |-> hand[w].retry] \in Message
<1>1. hand[w] \in Delivery /\ hand[w] # NoMessage
  BY DEF CallsTyped
<1>. QED  BY <1>1 DEF Delivery, Task, Message

(* What a lost connection does to the workers.                             *)
LEMMA ConnectionLostCalls ==
    ASSUME CallsTyped, NEW w \in Workers, ConnectionLost(w)
    PROVE  CallsTyped'
<1>1. CASE hand[w] = NoMessage
  <2>1. hand' = hand
    BY <1>1 DEF ConnectionLost, CallsTyped
  <2>. QED  BY <1>1, <2>1 DEF ConnectionLost, CallsTyped, CallsInOrder,
         StagesAt, VerdictsAt, PCs, quotaVars
<1>2. CASE hand[w] # NoMessage
  <2>. DEFINE closed == [hand[w] EXCEPT !.open = FALSE]
  <2>1. hand' = [hand EXCEPT ![w] = closed]
    BY <1>2 DEF ConnectionLost, CallsTyped
  <2>2. pc[w] \notin {"idle", "stopped"} /\ pc' = pc
    BY <1>2 DEF ConnectionLost, CallsTyped
  <2>3. closed \in Delivery /\ closed # NoMessage
    <3>1. hand[w] \in Delivery
      BY <2>2, HandlersHaveMessages
    <3>. QED  BY <3>1 DEF Delivery, NoMessage
  <2>4. CallsInOrder'
    BY <2>2 DEF ConnectionLost, CallsTyped, CallsInOrder, quotaVars
  <2>. HIDE DEF closed
  <2>5. hand' \in [Workers -> Delivery \cup {NoMessage}]
        /\ \A v \in Workers : hand'[v] = NoMessage <=> hand[v] = NoMessage
    BY <1>2, <2>1, <2>3 DEF CallsTyped
  <2>6. UNCHANGED <<cancelled, verdict, stage>>
    BY DEF ConnectionLost, quotaVars
  <2>. QED  BY <2>2, <2>4, <2>5, <2>6 DEF CallsTyped
<1>. QED  BY <1>1, <1>2

(* The call a crash cuts off is within the table of StagesAt, so that its  *)
(* transaction rolls back or its hold is abandoned: nothing stops a crash. *)
LEMMA CrashCalls ==
    ASSUME CallsTyped, NEW w \in Workers, Crash(w)
    PROVE  CallsTyped'
BY DEF Crash, CallsTyped, CallsInOrder, StagesAt, VerdictsAt, Goto, Decide,
   PCs,
   InSendSMS, Wallet!Stages, quotaVars, Wallet!EndTx, Wallet!Rollback,
   Wallet!Abandon

(* Every call of the handler leads to a call with the stage and the        *)
(* verdict that belong there.                                              *)
LEMMA HandleCalls ==
    ASSUME CallsTyped, NEW w \in Workers, Handle(w)
    PROVE  CallsTyped'
<1>. USE DEF CallsTyped, CallsInOrder, StagesAt, VerdictsAt, Goto, Decide, PCs,
     InSendSMS, Wallet!Stages, quotaVars, Wallet!EndTx, Wallet!ReadWallet
<1>1. CASE Claim(w)
  BY <1>1 DEF Claim
<1>2. CASE LookupTask(w)
  BY <1>2 DEF LookupTask
<1>3. CASE PreDeduct(w)
  BY <1>3 DEF PreDeduct, Wallet!PreDeductRead, Wallet!PreDeductCommit,
     Wallet!Rollback
<1>4. CASE Prepare(w)
  BY <1>4 DEF Prepare
<1>5. CASE Accepted(w) \/ Refused(w)
  BY <1>5 DEF Accepted, Refused
<1>6. CASE RefusedForGood(w) \/ ReplyLost(w)
  BY <1>6 DEF RefusedForGood, ReplyLost
<1>7. CASE Refund(w)
  BY <1>7 DEF Refund, GiveUpHold, Wallet!RefundRead, Wallet!RefundCommit,
     Wallet!Abandon
<1>8. CASE MarkFailed(w) \/ MarkSuccess(w)
  BY <1>8 DEF MarkFailed, MarkSuccess
<1>9. CASE Confirm(w) \/ ConfirmFails(w)
  BY <1>9 DEF Confirm, ConfirmFails, GiveUpHold, Wallet!ConfirmRead,
     Wallet!ConfirmCommit, Wallet!Abandon
<1>10. CASE Finish(w)
  BY <1>10 DEF Finish, AfterFinish
<1>11. CASE Stamp(w) \/ Unmark(w) \/ Republish(w)
  BY <1>11 DEF Stamp, Unmark, Republish
<1>12. CASE Ack(w) \/ DeadLetter(w)
  BY <1>12 DEF Ack, DeadLetter, Drop
<1>13. CASE AckRepublished(w) \/ RepublishFails(w)
  BY <1>13 DEF AckRepublished, RepublishFails, Drop
<1>. QED  BY <1>1, <1>2, <1>3, <1>4, <1>5, <1>6, <1>7, <1>8, <1>9, <1>10,
     <1>11, <1>12, <1>13 DEF Handle

(* The steps of a worker between two messages.                             *)
LEMMA OtherCalls ==
    ASSUME CallsTyped, NEW w \in Workers,
           \/ Shutdown(w) \/ StopCancelled(w) \/ Restart(w)
           \/ \E m \in Message : Deliver(w, m)
    PROVE  CallsTyped'
<1>. USE DEF CallsTyped, CallsInOrder, StagesAt, VerdictsAt, Goto, PCs,
     InSendSMS, quotaVars
<1>1. CASE Shutdown(w)
  BY <1>1 DEF Shutdown
<1>3. CASE StopCancelled(w)
  BY <1>3 DEF StopCancelled
<1>4. CASE Restart(w)
  BY <1>4 DEF Restart
<1>2. ASSUME NEW m \in Message, Deliver(w, m)
      PROVE  CallsTyped'
  <2>. DEFINE d == [task |-> m.task, retry |-> m.retry, open |-> TRUE]
  <2>1. d \in Delivery /\ d # NoMessage
    BY DEF Message, Delivery, NoMessage
  <2>2. hand' = [hand EXCEPT ![w] = d]
    BY <1>2 DEF Deliver
  <2>3. /\ pc[w] = "idle" /\ pc' = [pc EXCEPT ![w] = "claim"]
        /\ UNCHANGED <<cancelled, verdict, stage>>
    BY <1>2 DEF Deliver
  <2>. HIDE DEF d
  <2>. QED  BY <2>1, <2>2, <2>3
<1>. QED  BY <1>1, <1>2, <1>3, <1>4

(* Publishing and expiring messages concern the broker only.               *)
LEMMA BrokerCalls ==
    ASSUME CallsTyped,
           (\E t \in Tasks : Publish(t)) \/ (\E m \in Message : Expire(m))
    PROVE  CallsTyped'
BY DEF CallsTyped, CallsInOrder, Publish, Expire, quotaVars

(* Every step keeps the calls in order.                                    *)
LEMMA CallsStep ==
    ASSUME CallsTyped, [SmsNext]_smsVars
    PROVE  CallsTyped'
<1>1. CASE UNCHANGED smsVars
  BY <1>1 DEF smsVars, quotaVars, CallsTyped, CallsInOrder
<1>. QED  BY <1>1, HandleCalls, OtherCalls, BrokerCalls, CrashCalls,
       ConnectionLostCalls DEF SmsNext, Consume

-----------------------------------------------------------------------------
(* The data, and the wallet                                                *)

DataTyped ==
    /\ ready \in [Message -> Nat] /\ dlq \in [Tasks -> Nat]
    /\ published \in [Tasks -> 1..MaxPublishes]
    /\ mark \in [Tasks -> {"none", "processing", "completed"}]
    /\ status \in [Tasks -> {"pending", "success", "failed"}]
    /\ reminded \in [Tasks -> BOOLEAN]
    /\ sent \in [Tasks -> Nat] /\ charged \in [Tasks -> Nat]
    /\ refusedForGood \in SUBSET Tasks
    /\ faults \in [FaultKinds -> Nat]

Typed == CallsTyped /\ DataTyped

(* One more fault of one kind.                                             *)
LEMMA FaultCounts ==
    ASSUME DataTyped, NEW kind \in FaultKinds, Fault(kind)
    PROVE  /\ faults' \in [FaultKinds -> Nat]
           /\ faults' = [faults EXCEPT ![kind] = faults[kind] + 1]
BY DEF DataTyped, Fault

(* A call that fails is a fault, unless its context was cancelled.         *)
LEMMA FailureCounts ==
    ASSUME DataTyped, NEW w \in Workers, NEW kind \in FaultKinds, Fails(w, kind)
    PROVE  /\ faults' \in [FaultKinds -> Nat]
           /\ \/ cancelled[w] /\ faults' = faults
              \/ ~cancelled[w]
                 /\ faults' = [faults EXCEPT ![kind] = faults[kind] + 1]
BY DEF DataTyped, Fails, Fault

(* No fault is ever forgotten.                                             *)
FaultsGrow ==
    /\ faults' \in [FaultKinds -> Nat]
    /\ \A k \in FaultKinds : faults'[k] >= faults[k]

(* A call that works or fails forgets no fault.                            *)
LEMMA CallsCountFaults ==
    ASSUME DataTyped, NEW w \in Workers,
           \/ Works(w) \/ UNCHANGED faults
           \/ \E k \in FaultKinds : Fault(k) \/ Fails(w, k)
    PROVE  FaultsGrow
BY DEF DataTyped, FaultsGrow, Works, Fails, Fault

(* The broker takes back what a worker had, if it still could have         *)
(* acknowledged it.                                                        *)
LEMMA RequeueCounts ==
    ASSUME Typed, NEW w \in Workers, Requeue(w),
           hand[w] # NoMessage
    PROVE  /\ ready' \in [Message -> Nat]
           /\ \/ ~hand[w].open /\ ready' = ready
              \/ /\ hand[w].open
                 /\ \E m \in Message :
                      /\ m.task = Task(w)
                      /\ ready' = [ready EXCEPT ![m] = ready[m] + 1]
<1>. DEFINE m == [task |-> hand[w].task, retry |-> hand[w].retry]
<1>1. m \in Message /\ m.task = Task(w) /\ hand[w].open \in BOOLEAN
  <2>1. pc[w] \notin {"idle", "stopped"}
    BY DEF Typed, CallsTyped
  <2>. QED  BY <2>1, HandlersHaveMessages DEF Typed
<1>2. ready' = IF hand[w].open THEN [ready EXCEPT ![m] = ready[m] + 1] ELSE ready
  BY DEF Requeue
<1>. HIDE DEF m
<1>3. ready \in [Message -> Nat]
  BY DEF Typed, DataTyped
<1>4. CASE hand[w].open
  <2>1. ready' = [ready EXCEPT ![m] = ready[m] + 1]
    BY <1>2, <1>4
  <2>2. ready' \in [Message -> Nat]
    BY <1>1, <1>3, <2>1
  <2>. QED  BY <1>1, <1>4, <2>1, <2>2
<1>5. CASE ~hand[w].open
  BY <1>2, <1>3, <1>5
<1>. QED  BY <1>1, <1>4, <1>5

(* A handler keeps the types of the data.                                  *)
LEMMA HandleData ==
    ASSUME Typed, NEW w \in Workers, Handle(w)
    PROVE  DataTyped' /\ FaultsGrow
<1>0. pc[w] \notin {"idle", "stopped"}
         => /\ hand[w] \in Delivery /\ Task(w) \in Tasks /\ hand[w].task = Task(w)
            /\ hand[w].retry \in 0..MaxRetries
  BY HandlersHaveMessages DEF Typed
<1>. USE <1>0 DEF Typed, DataTyped, FaultsGrow, FaultKinds, Works, Fails,
     Fault,
     queueVars, taskVars, ghostVars
<1>1. CASE Claim(w)
  BY <1>1 DEF Claim
<1>2. CASE LookupTask(w)
  BY <1>2 DEF LookupTask
<1>3. CASE PreDeduct(w)
  BY <1>3 DEF PreDeduct
<1>4. CASE Prepare(w)
  BY <1>4 DEF Prepare
<1>5. CASE Accepted(w) \/ Refused(w)
  BY <1>5 DEF Accepted, Refused
<1>6. CASE RefusedForGood(w)
  BY <1>6 DEF RefusedForGood
<1>7. CASE ReplyLost(w)
  BY <1>7 DEF ReplyLost
<1>8. CASE Refund(w)
  BY <1>8 DEF Refund
<1>9. CASE MarkFailed(w)
  BY <1>9 DEF MarkFailed
<1>10. CASE MarkSuccess(w)
  BY <1>10 DEF MarkSuccess
<1>11. CASE Confirm(w)
  BY <1>11 DEF Confirm
<1>12. CASE ConfirmFails(w)
  BY <1>12 DEF ConfirmFails
<1>13. CASE Finish(w)
  BY <1>13 DEF Finish
<1>14. CASE Stamp(w)
  <2>1. reminded' \in [Tasks -> BOOLEAN]
    BY <1>14 DEF Stamp
  <2>. QED  BY <1>14, <2>1 DEF Stamp
<1>15. CASE Unmark(w)
  BY <1>15 DEF Unmark
<1>16. CASE Ack(w) \/ AckRepublished(w) \/ RepublishFails(w)
  BY <1>16 DEF Ack, AckRepublished, RepublishFails
<1>17. CASE DeadLetter(w)
  BY <1>17 DEF DeadLetter
<1>18. CASE Republish(w)
  <2>. DEFINE m == NextAttempt(hand[w])
  <2>1. m \in Message
    BY <1>18, SmsAssumption DEF Republish, NextAttempt, Message
  <2>2. ready' = [ready EXCEPT ![m] = ready[m] + 1]
    BY <1>18 DEF Republish
  <2>. HIDE DEF m
  <2>. QED  BY <1>18, <2>1, <2>2 DEF Republish
<1>. QED  BY <1>1, <1>2, <1>3, <1>4, <1>5, <1>6, <1>7, <1>8, <1>9, <1>10,
     <1>11, <1>12, <1>13, <1>14, <1>15, <1>16, <1>17, <1>18 DEF Handle

(* Faults of the connection and the process, and the worker between two    *)
(* messages.                                                               *)
LEMMA OtherData ==
    ASSUME Typed, NEW w \in Workers,
           \/ ConnectionLost(w) \/ Crash(w) \/ Shutdown(w)
           \/ StopCancelled(w) \/ Restart(w) \/ \E m \in Message : Deliver(w, m)
    PROVE  DataTyped' /\ FaultsGrow
<1>. USE DEF Typed, DataTyped, FaultsGrow, FaultKinds, Fault, taskVars,
     ghostVars
<1>1. CASE ConnectionLost(w) \/ Crash(w)
  <2>1. ready' \in [Message -> Nat]
    <3>1. CASE hand[w] = NoMessage
      BY <1>1, <3>1 DEF ConnectionLost, Crash, Requeue, NoMessage
    <3>2. CASE hand[w] # NoMessage
      BY <1>1, <3>2, RequeueCounts DEF ConnectionLost, Crash
    <3>. QED  BY <3>1, <3>2
  <2>. QED  BY <1>1, <2>1 DEF ConnectionLost, Crash
<1>2. CASE Shutdown(w) \/ StopCancelled(w) \/ Restart(w)
  BY <1>2 DEF Shutdown, StopCancelled, Restart, queueVars
<1>3. CASE \E m \in Message : Deliver(w, m)
  BY <1>3 DEF Deliver
<1>. QED  BY <1>1, <1>2, <1>3

(* So do a publication and the end of a delay.                             *)
LEMMA BrokerData ==
    ASSUME Typed,
           (\E t \in Tasks : Publish(t)) \/ (\E m \in Message : Expire(m))
    PROVE  DataTyped' /\ FaultsGrow
<1>. USE DEF Typed, DataTyped, FaultsGrow, FaultKinds, Fault, taskVars,
     ghostVars
<1>1. ASSUME NEW t \in Tasks, Publish(t)
      PROVE  DataTyped' /\ FaultsGrow
  <2>1. [task |-> t, retry |-> 0] \in Message
    BY SmsAssumption DEF Message
  <2>. DEFINE m == [task |-> t, retry |-> 0]
  <2>2. ready' = [ready EXCEPT ![m] = ready[m] + 1]
    BY <1>1 DEF Publish
  <2>3. published' \in [Tasks -> 1..MaxPublishes]
    BY <1>1, SmsAssumption DEF Publish
  <2>. HIDE DEF m
  <2>. QED  BY <1>1, <2>1, <2>2, <2>3 DEF Publish, m
<1>2. ASSUME NEW m \in Message, Expire(m)
      PROVE  DataTyped' /\ FaultsGrow
  <2>1. m.task \in Tasks
    BY DEF Message
  <2>. QED  BY <1>2, <2>1 DEF Expire
<1>. QED  BY <1>1, <1>2

(* Every step keeps the types of calls and data, and forgets no fault.     *)
LEMMA TypedStep ==
    ASSUME Typed, [SmsNext]_smsVars
    PROVE  Typed' /\ FaultsGrow
<1>1. CallsTyped'
  BY CallsStep DEF Typed
<1>2. CASE UNCHANGED smsVars
  BY <1>1, <1>2 DEF smsVars, queueVars, taskVars, ghostVars, Typed, DataTyped,
       FaultsGrow
<1>. QED  BY <1>1, <1>2, HandleData, OtherData, BrokerData
       DEF SmsNext, Consume, Typed

-----------------------------------------------------------------------------

(* The wallet of the pipeline, with the theorems of QuotaProofs.           *)
WalletProofs == INSTANCE QuotaProofs WITH Clients <- Workers

(* The delivery pipeline uses the wallet as Quota says: every call of a    *)
(* worker to QuotaService, every rollback and every hold that a failure or *)
(* a crash leaves behind is a step of Quota, and nothing else touches the  *)
(* wallet.                                                                 *)
LEMMA WalletStep ==
    ASSUME [SmsNext]_smsVars
    PROVE  [Wallet!QuotaNext]_quotaVars
<1>1. ASSUME NEW w \in Workers, PreDeduct(w) \/ Refund(w) \/ Confirm(w)
                                \/ ConfirmFails(w) \/ Crash(w)
      PROVE  Wallet!QuotaStep(w) \/ UNCHANGED quotaVars
  BY <1>1 DEF PreDeduct, Refund, Confirm, ConfirmFails, Crash, GiveUpHold,
     Wallet!QuotaStep
<1>2. ASSUME NEW w \in Workers,
             \/ Consume(w) \/ StopCancelled(w) \/ Restart(w)
             \/ ConnectionLost(w) \/ Crash(w) \/ Shutdown(w)
      PROVE  Wallet!QuotaStep(w) \/ UNCHANGED quotaVars
  BY <1>1, <1>2 DEF Consume, Handle, Deliver, Claim, LookupTask, Prepare,
     Accepted, Refused, RefusedForGood, ReplyLost, MarkFailed, MarkSuccess,
     Finish, Stamp, Unmark, Ack, DeadLetter, Republish, AckRepublished,
     RepublishFails, StopCancelled, Restart, ConnectionLost, Shutdown
<1>3. CASE (\E t \in Tasks : Publish(t)) \/ (\E m \in Message : Expire(m))
  BY <1>3 DEF Publish, Expire
<1>4. CASE UNCHANGED smsVars
  BY <1>4 DEF smsVars
<1>. QED  BY <1>2, <1>3, <1>4 DEF SmsNext, Wallet!QuotaNext

(* The pipeline implements the wallet's specification.                     *)
THEOREM PipelineImplementsWallet == SmsSpec => Wallet!QuotaSpec
<1>1. SmsInit => Wallet!QuotaInit
  BY DEF SmsInit
<1>2. [SmsNext]_smsVars => [Wallet!QuotaNext]_(Wallet!quotaVars)
  BY WalletStep DEF quotaVars, Wallet!quotaVars
<1>. QED  BY <1>1, <1>2, PTL DEF SmsSpec, Wallet!QuotaSpec

(* The constants of the pipeline are as the proofs about Quota assume.     *)
LEMMA WalletConstants ==
    /\ WalletProofs!IsFiniteSet(Workers) /\ Workers # {}
    /\ Price \in Nat \ {0} /\ DefaultGrant \in Nat /\ TopUp \in Nat \ {0}
    /\ MaxTopUps \in Nat /\ MaxHolds \in Nat
BY SmsAssumption DEF WalletProofs!IsFiniteSet, IsFiniteSet

(* The two instances of Quota, the one in SmsDelivery and the one the      *)
(* theorems are about, say the same.                                       *)
LEMMA SameWallet ==
    ASSUME [Wallet!QuotaNext]_quotaVars
    PROVE  [WalletProofs!QuotaNext]_(WalletProofs!quotaVars)
<1>1. ASSUME NEW c \in Workers, Wallet!QuotaStep(c)
      PROVE  WalletProofs!QuotaStep(c)
  BY <1>1 DEF
     Wallet!QuotaStep, Wallet!PreDeductRead, Wallet!PreDeductCommit,
     Wallet!ConfirmRead, Wallet!ConfirmCommit, Wallet!RefundRead,
     Wallet!RefundCommit, Wallet!GrantRead, Wallet!GrantCommit,
     Wallet!Rollback, Wallet!Abandon, Wallet!ReadWallet, Wallet!EndTx,
     Wallet!AppendLedger, Wallet!HoldStages,
     WalletProofs!QuotaStep, WalletProofs!PreDeductRead,
     WalletProofs!PreDeductCommit, WalletProofs!ConfirmRead,
     WalletProofs!ConfirmCommit, WalletProofs!RefundRead,
     WalletProofs!RefundCommit, WalletProofs!GrantRead,
     WalletProofs!GrantCommit, WalletProofs!Rollback, WalletProofs!Abandon,
     WalletProofs!ReadWallet, WalletProofs!EndTx, WalletProofs!AppendLedger,
     WalletProofs!HoldStages
<1>. QED  BY <1>1 DEF Wallet!QuotaNext, WalletProofs!QuotaNext, quotaVars,
       WalletProofs!quotaVars

(* The inductive invariant of Quota holds of the pipeline's wallet.        *)
WalletSound == WalletProofs!QuotaInv

(* Whatever the pipeline does keeps it, since it is a step of Quota or     *)
(* none.                                                                   *)
LEMMA WalletSoundStep ==
    ASSUME WalletSound, [SmsNext]_smsVars
    PROVE  WalletSound'
<1>1. [WalletProofs!QuotaNext]_(WalletProofs!quotaVars)
  BY WalletStep, SameWallet
<1>. QED  BY <1>1, WalletConstants, WalletProofs!StepPreserves DEF WalletSound

(* It holds at the start.                                                  *)
LEMMA WalletSoundInit == SmsInit => WalletSound
<1>. SUFFICES ASSUME SmsInit PROVE WalletSound
  OBVIOUS
<1>1. WalletProofs!QuotaInit
  BY DEF SmsInit, Wallet!QuotaInit, WalletProofs!QuotaInit, Wallet!Reasons,
     WalletProofs!Reasons
<1>. QED  BY <1>1, WalletConstants,
     WalletProofs!InitEstablishes DEF WalletSound

(* Nobody has a message at the start.                                      *)
LEMMA TypedInit == SmsInit => Typed
<1>. SUFFICES ASSUME SmsInit PROVE Typed
  OBVIOUS
<1>1. CallsTyped
  BY DEF SmsInit, CallsTyped, CallsInOrder, StagesAt, VerdictsAt, PCs,
     InSendSMS, Wallet!QuotaInit, Wallet!Stages
<1>2. DataTyped
  <2>1. ready \in [Message -> Nat]
    BY DEF SmsInit
  <2>. QED  BY <2>1, SmsAssumption DEF SmsInit, DataTyped
<1>. QED  BY <1>1, <1>2 DEF Typed

(* Every reachable state is typed, its workers' calls are in order, and    *)
(* the wallet satisfies everything proved about Quota.                     *)
THEOREM PipelineTyped == SmsSpec => [](Typed /\ WalletSound)
<1>1. SmsInit => Typed /\ WalletSound
  BY TypedInit, WalletSoundInit
<1>2. Typed /\ WalletSound /\ [SmsNext]_smsVars => (Typed /\ WalletSound)'
  BY TypedStep, WalletSoundStep
<1>. QED  BY <1>1, <1>2, PTL DEF SmsSpec

(* Type correctness: among the types, a worker is idle or stopped exactly  *)
(* when it has no message in its hand.                                     *)
THEOREM SmsTypeCorrect == SmsSpec => []SmsTypeOK
<1>1. Typed /\ WalletSound => SmsTypeOK
  <2>. SUFFICES ASSUME Typed, WalletSound PROVE SmsTypeOK
    OBVIOUS
  <2>1. Wallet!QuotaTypeOK
    BY DEF WalletSound, WalletProofs!QuotaInv, WalletProofs!QuotaTypeOK,
       Wallet!QuotaTypeOK, WalletProofs!Reasons, Wallet!Reasons,
       WalletProofs!Stages, Wallet!Stages
  <2>. QED  BY <2>1 DEF Typed, CallsTyped, DataTyped, SmsTypeOK
<1>. QED  BY <1>1, PipelineTyped, PTL

(* The users' money in the pipeline: in every state of every interleaving  *)
(* of workers, faults and shutdowns the wallet row balances and agrees     *)
(* with its ledger.                                                        *)
THEOREM PipelineBooksBalance == SmsSpec => []Wallet!BooksBalance
<1>1. WalletSound => Wallet!BooksBalance
  BY DEF WalletSound, WalletProofs!QuotaInv, WalletProofs!Conservation,
     WalletProofs!LedgerReconciles, Wallet!BooksBalance, Wallet!Conservation,
     Wallet!LedgerReconciles
<1>. QED  BY <1>1, PipelineTyped, PTL

(* What goes on around the handlers: a worker keeps its message and its    *)
(* call, or has none, or has just been given one.                          *)
Rests(w) == pc'[w] \in {"idle", "stopped", "claim"}

Stays(w) ==
    /\ pc[w] \notin {"idle", "stopped"}
    /\ pc'[w] = pc[w] /\ Task(w)' = Task(w) /\ verdict'[w] = verdict[w]
    /\ cancelled[w] => cancelled'[w]

Background ==
    /\ UNCHANGED <<mark, taskVars, ghostVars>>
    /\ \A w \in Workers : Rests(w) \/ Stays(w)

(* A step of the program in which no handler makes a call is of this kind. *)
LEMMA BackgroundStep ==
    ASSUME Typed, [SmsNext]_smsVars, \A w \in Workers : ~Handle(w)
    PROVE  Background
<1>. USE DEF Typed, CallsTyped, PCs, InSendSMS, Background, Rests, Stays, Task,
     Goto, Decide, queueVars, quotaVars
<1>1. ASSUME NEW w \in Workers, ConnectionLost(w)
      PROVE  Background
  <2>1. CASE hand[w] = NoMessage
    BY <1>1, <2>1 DEF ConnectionLost
  <2>2. CASE hand[w] # NoMessage
    <3>. DEFINE closed == [hand[w] EXCEPT !.open = FALSE]
    <3>1. hand' = [hand EXCEPT ![w] = closed] /\ pc' = pc
      BY <1>1, <2>2 DEF ConnectionLost
    <3>2. closed.task = hand[w].task
      <4>1. hand[w] \in Delivery
        BY <2>2
      <4>. QED  BY <4>1 DEF Delivery
    <3>. HIDE DEF closed
    <3>. QED  BY <1>1, <3>1, <3>2 DEF ConnectionLost
  <2>. QED  BY <2>1, <2>2
<1>2. ASSUME NEW w \in Workers, Crash(w) \/ StopCancelled(w) \/ Restart(w)
      PROVE  Background
  BY <1>2 DEF Crash, StopCancelled, Restart
<1>3. ASSUME NEW w \in Workers, NEW m \in Message, Deliver(w, m)
      PROVE  Background
  BY <1>3 DEF Deliver
<1>4. ASSUME NEW w \in Workers, Shutdown(w)
      PROVE  Background
  BY <1>4 DEF Shutdown
<1>5. ASSUME NEW t \in Tasks, Publish(t)
      PROVE  Background
  BY <1>5 DEF Publish
<1>6. ASSUME NEW m \in Message, Expire(m)
      PROVE  Background
  BY <1>6 DEF Expire
<1>7. CASE UNCHANGED smsVars
  BY <1>7 DEF smsVars
<1>. QED  BY <1>1, <1>2, <1>3, <1>4, <1>5, <1>6, <1>7 DEF SmsNext, Consume

(* What a call of the handler does to the workers: it concerns the worker  *)
(* that makes it only, which keeps its message or has none any more.       *)
Local(w) ==
    /\ UNCHANGED cancelled
    /\ \A v \in Workers \ {w} :
          /\ pc'[v] = pc[v] /\ hand'[v] = hand[v] /\ Task(v)' = Task(v)
          /\ verdict'[v] = verdict[v]
    /\ pc[w] \notin {"idle", "stopped"}
    /\ \/ pc'[w] \in {"idle", "stopped"}
       \/ pc'[w] \notin {"idle", "stopped", "claim"} /\ hand'[w] = hand[w]
          /\ Task(w)' = Task(w)

(* A call of a handler concerns its own worker and the task it works on.   *)
LEMMA HandleIsLocal ==
    ASSUME Typed, NEW w \in Workers, Handle(w)
    PROVE  Local(w)
<1>. USE DEF Typed, CallsTyped, Local, Task, Goto, Decide, Drop
<1>1. CASE Claim(w) \/ LookupTask(w)
  BY <1>1 DEF Claim, LookupTask
<1>2. CASE PreDeduct(w)
  BY <1>2 DEF PreDeduct
<1>3. CASE Prepare(w) \/ Accepted(w) \/ Refused(w)
  BY <1>3 DEF Prepare, Accepted, Refused
<1>4. CASE RefusedForGood(w) \/ ReplyLost(w)
  BY <1>4 DEF RefusedForGood, ReplyLost
<1>5. CASE Refund(w)
  BY <1>5 DEF Refund
<1>6. CASE MarkFailed(w) \/ MarkSuccess(w)
  BY <1>6 DEF MarkFailed, MarkSuccess
<1>7. CASE Confirm(w) \/ ConfirmFails(w)
  BY <1>7 DEF Confirm, ConfirmFails
<1>8. CASE Finish(w)
  BY <1>8 DEF Finish, AfterFinish
<1>9. CASE Stamp(w) \/ Unmark(w) \/ Republish(w)
  BY <1>9 DEF Stamp, Unmark, Republish
<1>10. CASE Ack(w) \/ AckRepublished(w) \/ RepublishFails(w)
  BY <1>10 DEF Ack, AckRepublished, RepublishFails
<1>11. CASE DeadLetter(w)
  BY <1>11 DEF DeadLetter
<1>. QED  BY <1>1, <1>2, <1>3, <1>4, <1>5, <1>6, <1>7, <1>8, <1>9, <1>10,
     <1>11 DEF Handle

-----------------------------------------------------------------------------
(* The mark is a lock                                                      *)

(* While Redis answers, a handler takes a mark only when there is none,    *)
(* and removes only its own.                                               *)
LEMMA HandleKeepsLock ==
    ASSUME Typed, Locked, NEW w \in Workers, Handle(w),
           faults["redis"] = 0, faults'["redis"] = 0
    PROVE  Locked'
<1>0. \A v \in Workers : pc[v] \notin {"idle", "stopped"} => Task(v) \in Tasks
  BY HandlersHaveMessages DEF Typed
<1>. USE <1>0 DEF Typed, CallsTyped, DataTyped, Locked, Owning, Sending, Task,
     InSendSMS, FaultKinds, Goto, Decide,
     Works, Fails, Fault, Drop
<1>1. CASE Claim(w)
  BY <1>1 DEF Claim, Claimable
<1>2. CASE LookupTask(w)
  BY <1>2 DEF LookupTask
<1>3. CASE PreDeduct(w)
  BY <1>3 DEF PreDeduct
<1>4. CASE Prepare(w)
  BY <1>4 DEF Prepare
<1>5. CASE Accepted(w) \/ Refused(w)
  BY <1>5 DEF Accepted, Refused
<1>6. CASE RefusedForGood(w) \/ ReplyLost(w)
  BY <1>6 DEF RefusedForGood, ReplyLost
<1>7. CASE Refund(w)
  BY <1>7 DEF Refund
<1>8. CASE MarkFailed(w) \/ MarkSuccess(w)
  BY <1>8, SMTT(30) DEF MarkFailed, MarkSuccess
<1>9. CASE Confirm(w) \/ ConfirmFails(w)
  BY <1>9 DEF Confirm, ConfirmFails
<1>10. CASE Finish(w)
  BY <1>10 DEF Finish, AfterFinish
<1>11. CASE Stamp(w)
  BY <1>11 DEF Stamp
<1>12. CASE Unmark(w)
  BY <1>12 DEF Unmark
<1>13. CASE Ack(w) \/ AckRepublished(w) \/ RepublishFails(w)
  BY <1>13, SMTT(30) DEF Ack, AckRepublished, RepublishFails
<1>14. CASE DeadLetter(w)
  BY <1>14 DEF DeadLetter
<1>15. CASE Republish(w)
  BY <1>15 DEF Republish
<1>. QED  BY <1>1, <1>2, <1>3, <1>4, <1>5, <1>6, <1>7, <1>8, <1>9, <1>10,
     <1>11, <1>12, <1>13, <1>14, <1>15 DEF Handle

(* Nothing else touches a mark, or makes somebody its owner.               *)
LEMMA LockStep ==
    ASSUME Typed, MarkIsLock, [SmsNext]_smsVars
    PROVE  MarkIsLock'
<1>. SUFFICES ASSUME faults'["redis"] = 0
              PROVE  Locked'
  BY DEF MarkIsLock
<1>1. faults["redis"] = 0 /\ Locked
  BY TypedStep DEF FaultsGrow, FaultKinds, MarkIsLock, Typed, DataTyped
<1>2. CASE \E w \in Workers : Handle(w)
  BY <1>1, <1>2, HandleKeepsLock
<1>3. CASE Background
  BY <1>1, <1>3 DEF Background, Rests, Stays, Locked, Owning, Sending,
     InSendSMS
<1>. QED  BY <1>2, <1>3, BackgroundStep

(* The mark is a lock while Redis answers: an owner's task is marked, and  *)
(* no task has two owners.                                                 *)
THEOREM MarkLocks == SmsSpec => []MarkIsLock
<1>1. SmsInit => MarkIsLock
  BY DEF SmsInit, MarkIsLock, Locked, Owning, Sending, InSendSMS
<1>2. Typed /\ MarkIsLock /\ [SmsNext]_smsVars => MarkIsLock'
  BY LockStep
<1>. QED  BY <1>1, <1>2, PipelineTyped, PTL DEF SmsSpec

(* However messages are duplicated, redelivered or cut off, two workers    *)
(* are never both past the lookup of SendSMS for one task while Redis      *)
(* answers.                                                                *)
THEOREM OneSender == SmsSpec => []OneSenderPerTask
<1>1. MarkIsLock => OneSenderPerTask
  BY DEF MarkIsLock, Locked, Owning, OneSenderPerTask
<1>. QED  BY <1>1, MarkLocks, PTL

-----------------------------------------------------------------------------
(* Counting                                                                *)

(* The workers in a given state form a finite set.                         *)
LEMMA WorkerSets ==
    ASSUME NEW S \in SUBSET Workers
    PROVE  IsFiniteSet(S) /\ Cardinality(S) \in Nat
BY SmsAssumption, FS_Subset, FS_CardinalityType

(* How a call of worker w changes the number of messages about to be       *)
(* charged.                                                                *)
LEMMA ChargingCounts ==
    ASSUME Typed, NEW w \in Workers, Handle(w), NEW t \in Tasks
    PROVE  /\ Cardinality(Charging(t)) \in Nat
           /\ Cardinality(Charging(t)') = Cardinality(Charging(t))
                + (IF pc'[w] = "confirm" /\ Task(w) = t THEN 1 ELSE 0)
                - (IF pc[w] = "confirm" /\ Task(w) = t THEN 1 ELSE 0)
<1>1. Charging(t) \in SUBSET Workers
  BY DEF Charging
<1>2. Charging(t)' \ {w} = Charging(t) \ {w}
  BY HandleIsLocal DEF Local, Charging
<1>3. w \in Charging(t)' <=> pc'[w] = "confirm" /\ Task(w) = t
  BY HandleIsLocal DEF Local, Charging
<1>4. w \in Charging(t) <=> pc[w] = "confirm" /\ Task(w) = t
  BY DEF Charging
<1>. QED  BY <1>1, <1>2, <1>3, <1>4, WorkerSets, CountMoves

-----------------------------------------------------------------------------
(* The records are true                                                    *)

(* A handler that is about to charge has sent first, and each charge is of *)
(* one that was about to.                                                  *)
LEMMA HandleCoversCharges ==
    ASSUME Typed, ChargesCovered, NEW w \in Workers, Handle(w)
    PROVE  ChargesCovered'
<1>. SUFFICES ASSUME NEW t \in Tasks
              PROVE  charged'[t] + Cardinality(Charging(t)') <= sent'[t]
  BY DEF ChargesCovered
<1>. DEFINE n == Cardinality(Charging(t))
            m == Cardinality(Charging(t)')
<1>1. /\ charged[t] + n <= sent[t]
      /\ n \in Nat
      /\ m = n + (IF pc'[w] = "confirm" /\ Task(w) = t THEN 1 ELSE 0)
               - (IF pc[w] = "confirm" /\ Task(w) = t THEN 1 ELSE 0)
  BY ChargingCounts DEF ChargesCovered
<1>2. charged \in [Tasks -> Nat] /\ sent \in [Tasks -> Nat]
      /\ pc \in [Workers -> PCs]
  BY DEF Typed, DataTyped, CallsTyped
<1>. HIDE DEF n, m
<1>3. SUFFICES charged'[t] + m <= sent'[t]
  BY DEF m
<1>. USE <1>1, <1>2 DEF Goto, ghostVars
<1>4. CASE Accepted(w)
  BY <1>4 DEF Accepted
<1>5. CASE ReplyLost(w)
  BY <1>5 DEF ReplyLost
<1>6. CASE Confirm(w)
  BY <1>6 DEF Confirm
<1>7. CASE Claim(w) \/ LookupTask(w)
  BY <1>7 DEF Claim, LookupTask
<1>8. CASE PreDeduct(w) \/ Refund(w)
  BY <1>8 DEF PreDeduct, Refund
<1>9. CASE Prepare(w)
  BY <1>9 DEF Prepare
<1>10. CASE Refused(w) \/ RefusedForGood(w)
  BY <1>10 DEF Refused, RefusedForGood
<1>11. CASE MarkFailed(w) \/ MarkSuccess(w)
  BY <1>11 DEF MarkFailed, MarkSuccess
<1>12. CASE ConfirmFails(w)
  BY <1>12 DEF ConfirmFails
<1>13. CASE Finish(w)
  BY <1>13 DEF Finish, AfterFinish
<1>14. CASE Stamp(w) \/ Unmark(w) \/ Republish(w)
  BY <1>14 DEF Stamp, Unmark, Republish
<1>15. CASE Ack(w) \/ AckRepublished(w) \/ RepublishFails(w)
  BY <1>15 DEF Ack, AckRepublished, RepublishFails, Drop
<1>16. CASE DeadLetter(w)
  BY <1>16 DEF DeadLetter, Drop
<1>. QED  BY <1>4, <1>5, <1>6, <1>7, <1>8, <1>9, <1>10, <1>11, <1>12, <1>13,
     <1>14, <1>15, <1>16 DEF Handle

(* Nothing else sends, charges, or brings anybody closer to charging.      *)
LEMMA BackgroundCoversCharges ==
    ASSUME Typed, ChargesCovered, Background
    PROVE  ChargesCovered'
<1>. SUFFICES ASSUME NEW t \in Tasks
              PROVE  charged'[t] + Cardinality(Charging(t)') <= sent'[t]
  BY DEF ChargesCovered
<1>1. Charging(t)' \subseteq Charging(t)
  BY DEF Charging, Background, Rests, Stays
<1>2. /\ Cardinality(Charging(t)') <= Cardinality(Charging(t))
      /\ Cardinality(Charging(t)') \in Nat /\ Cardinality(Charging(t)) \in Nat
  <2>1. Charging(t) \in SUBSET Workers
    BY DEF Charging
  <2>. QED  BY <1>1, <2>1, WorkerSets, FS_Subset, FS_CardinalityType
<1>3. charged[t] + Cardinality(Charging(t)) <= sent[t]
  BY DEF ChargesCovered
<1>. QED  BY <1>2, <1>3 DEF Background, ghostVars, Typed, DataTyped

(* No step charges for a message that was not sent.                        *)
LEMMA ChargesStep ==
    ASSUME Typed, ChargesCovered, [SmsNext]_smsVars
    PROVE  ChargesCovered'
BY HandleCoversCharges, BackgroundCoversCharges, BackgroundStep

(* A worker marks success only after its own charge, and returns nil only  *)
(* for a task that was charged.                                            *)
LEMMA HandleKeepsRows ==
    ASSUME Typed, RowsAreTrue, NEW w \in Workers, Handle(w)
    PROVE  RowsAreTrue'
<1>1. \A v \in Workers : pc[v] \notin {"idle", "stopped"} => Task(v) \in Tasks
  BY HandlersHaveMessages DEF Typed
<1>2. Local(w)
  BY HandleIsLocal
<1>. USE <1>1, <1>2 DEF Local, Typed, DataTyped, CallsTyped, CallsInOrder,
     VerdictsAt,
     RowsAreTrue, Paid, SuccessIsPaid, Goto, Decide, taskVars, ghostVars
<1>3. CASE Claim(w)
  BY <1>3 DEF Claim
<1>4. CASE LookupTask(w)
  BY <1>4 DEF LookupTask
<1>5. CASE PreDeduct(w) \/ Prepare(w)
  BY <1>5 DEF PreDeduct, Prepare
<1>6. CASE Accepted(w) \/ Refused(w)
  BY <1>6 DEF Accepted, Refused
<1>7. CASE RefusedForGood(w) \/ ReplyLost(w)
  BY <1>7 DEF RefusedForGood, ReplyLost
<1>8. CASE Refund(w)
  BY <1>8 DEF Refund
<1>9. CASE MarkFailed(w)
  BY <1>9 DEF MarkFailed
<1>10. CASE MarkSuccess(w)
  BY <1>10 DEF MarkSuccess
<1>11. CASE Confirm(w)
  BY <1>11 DEF Confirm
<1>12. CASE ConfirmFails(w)
  BY <1>12 DEF ConfirmFails
<1>13. CASE Finish(w)
  BY <1>13 DEF Finish, AfterFinish
<1>14. CASE Stamp(w)
  BY <1>14 DEF Stamp
<1>15. CASE Unmark(w) \/ Republish(w)
  BY <1>15 DEF Unmark, Republish
<1>16. CASE Ack(w) \/ AckRepublished(w) \/ RepublishFails(w)
  BY <1>16 DEF Ack, AckRepublished, RepublishFails, Drop
<1>17. CASE DeadLetter(w)
  BY <1>17 DEF DeadLetter, Drop
<1>. QED  BY <1>3, <1>4, <1>5, <1>6, <1>7, <1>8, <1>9, <1>10, <1>11, <1>12,
     <1>13, <1>14, <1>15, <1>16, <1>17 DEF Handle

(* No step makes a record claim what did not happen.                       *)
LEMMA RowsStep ==
    ASSUME Typed, RowsAreTrue, [SmsNext]_smsVars
    PROVE  RowsAreTrue'
<1>1. CASE Background
  BY <1>1 DEF Background, Rests, Stays, RowsAreTrue, Paid, SuccessIsPaid,
     taskVars, ghostVars
<1>. QED  BY <1>1, HandleKeepsRows, BackgroundStep

(* At the start nothing is sent and nothing recorded.                      *)
LEMMA RecordsInit == SmsInit => ChargesCovered /\ RowsAreTrue
<1>. SUFFICES ASSUME SmsInit PROVE ChargesCovered /\ RowsAreTrue
  OBVIOUS
<1>1. \A t \in Tasks : Charging(t) = {}
  BY DEF SmsInit, Charging
<1>2. ChargesCovered
  <2>1. \A t \in Tasks : Cardinality(Charging(t)) = 0
    BY <1>1, FS_EmptySet
  <2>. QED  BY <2>1 DEF SmsInit, ChargesCovered
<1>3. RowsAreTrue
  BY DEF SmsInit, RowsAreTrue, Paid, SuccessIsPaid
<1>. QED  BY <1>2, <1>3

(* The records never claim more than happened, wherever a send is cut off: *)
(* every charge has an SMS behind it, every success row and every reminder *)
(* stamp has a charge.                                                     *)
THEOREM RecordsTrue == SmsSpec => []RecordsAreTrue
<1>1. SmsInit => ChargesCovered /\ RowsAreTrue
  BY RecordsInit
<1>2. Typed /\ ChargesCovered /\ RowsAreTrue /\ [SmsNext]_smsVars
        => (ChargesCovered /\ RowsAreTrue)'
  BY ChargesStep, RowsStep
<1>3. Typed /\ ChargesCovered /\ RowsAreTrue => RecordsAreTrue
  <2>. SUFFICES ASSUME Typed, ChargesCovered, RowsAreTrue PROVE RecordsAreTrue
    OBVIOUS
  <2>1. ASSUME NEW t \in Tasks PROVE charged[t] <= sent[t]
    <3>1. Charging(t) \in SUBSET Workers
      BY DEF Charging
    <3>. QED  BY <3>1, WorkerSets DEF ChargesCovered, Typed, DataTyped
  <2>. QED  BY <2>1 DEF RowsAreTrue, RecordsAreTrue, ChargedOnlyIfSent,
         RemindedOnlyIfSent, Typed, DataTyped
<1>. QED  BY <1>1, <1>2, <1>3, PipelineTyped, PTL DEF SmsSpec

-----------------------------------------------------------------------------
(* Outcomes stand                                                          *)

(* A handler never takes back an outcome: whoever could has read the row   *)
(* before it was written, and then the mark keeps it away.                 *)
LEMMA HandleLetsStand ==
    ASSUME Typed, Locked, Standing, NEW w \in Workers, Handle(w),
           faults["redis"] = 0, faults'["redis"] = 0
    PROVE  /\ Standing'
           /\ \A t \in Tasks : status[t] = "success" => status'[t] = "success"
           /\ \A t \in refusedForGood : sent'[t] = sent[t]
<1>1. \A v \in Workers : pc[v] \notin {"idle", "stopped"} => Task(v) \in Tasks
  BY HandlersHaveMessages DEF Typed
<1>2. Local(w)
  BY HandleIsLocal
<1>. USE <1>1, <1>2 DEF Local, Typed, DataTyped, CallsTyped, CallsInOrder,
     VerdictsAt, Locked, Standing, Owning, Sending, GivingUp, InSendSMS,
     Goto, Decide, Works, Fails, Fault, FaultKinds, taskVars, ghostVars
<1>3. CASE Claim(w)
  BY <1>3 DEF Claim, Claimable
<1>4. CASE LookupTask(w)
  BY <1>4 DEF LookupTask
<1>5. CASE PreDeduct(w)
  BY <1>5 DEF PreDeduct
<1>6. CASE Prepare(w)
  BY <1>6 DEF Prepare
<1>7. CASE Accepted(w)
  BY <1>7 DEF Accepted
<1>8. CASE Refused(w)
  BY <1>8 DEF Refused
<1>9. CASE RefusedForGood(w)
  BY <1>9 DEF RefusedForGood
<1>10. CASE ReplyLost(w)
  BY <1>10 DEF ReplyLost
<1>11. CASE Refund(w)
  BY <1>11 DEF Refund
<1>12. CASE MarkFailed(w)
  BY <1>12 DEF MarkFailed
<1>13. CASE MarkSuccess(w)
  BY <1>13 DEF MarkSuccess
<1>14. CASE Confirm(w)
  BY <1>14, SMTT(30) DEF Confirm
<1>15. CASE ConfirmFails(w)
  BY <1>15 DEF ConfirmFails
<1>16. CASE Finish(w)
  BY <1>16 DEF Finish, AfterFinish
<1>17. CASE Stamp(w)
  BY <1>17 DEF Stamp
<1>18. CASE Unmark(w)
  BY <1>18 DEF Unmark
<1>19. CASE Republish(w)
  BY <1>19 DEF Republish
<1>20. CASE Ack(w) \/ AckRepublished(w) \/ RepublishFails(w)
  BY <1>20 DEF Ack, AckRepublished, RepublishFails, Drop
<1>21. CASE DeadLetter(w)
  BY <1>21 DEF DeadLetter, Drop
<1>. QED  BY <1>3, <1>4, <1>5, <1>6, <1>7, <1>8, <1>9, <1>10, <1>11, <1>12,
     <1>13, <1>14, <1>15, <1>16, <1>17, <1>18, <1>19, <1>20, <1>21 DEF Handle

(* The same for every step.                                                *)
LEMMA StandingStep ==
    ASSUME Typed, MarkIsLock, OutcomesStand, [SmsNext]_smsVars,
           faults'["redis"] = 0
    PROVE  /\ Standing'
           /\ \A t \in Tasks : status[t] = "success" => status'[t] = "success"
           /\ \A t \in refusedForGood : sent'[t] = sent[t]
<1>1. faults["redis"] = 0 /\ Locked /\ Standing
  BY TypedStep DEF FaultsGrow, FaultKinds, MarkIsLock, OutcomesStand, Typed,
     DataTyped
<1>2. CASE Background
  BY <1>1, <1>2 DEF Background, Rests, Stays, Standing, Owning, Sending,
     GivingUp, InSendSMS, taskVars, ghostVars
<1>. QED  BY <1>1, <1>2, HandleLetsStand, BackgroundStep

(* A step that loses an answer of Redis changes no task row and sends      *)
(* nothing.                                                                *)
LEMMA RedisFaultsChangeNothing ==
    ASSUME Typed, [SmsNext]_smsVars, faults["redis"] = 0, faults'["redis"] # 0
    PROVE  UNCHANGED <<status, sent>>
<1>1. ASSUME NEW w \in Workers, Claim(w) \/ Finish(w) \/ Unmark(w)
      PROVE  UNCHANGED <<status, sent>>
  BY <1>1 DEF Claim, Finish, Unmark, taskVars, ghostVars
<1>2. ASSUME NEW w \in Workers, Handle(w), ~(Claim(w) \/ Finish(w) \/ Unmark(w))
      PROVE  FALSE
  <2>. USE DEF Works, Fails, Fault, Typed, DataTyped, FaultKinds
  <2>1. CASE \/ LookupTask(w) \/ PreDeduct(w) \/ Refund(w) \/ MarkFailed(w)
             \/ MarkSuccess(w) \/ ConfirmFails(w) \/ Stamp(w)
    BY <2>1 DEF LookupTask, PreDeduct, Refund, MarkFailed, MarkSuccess,
       ConfirmFails, Stamp
  <2>2. CASE ReplyLost(w)
    BY <2>2 DEF ReplyLost
  <2>3. CASE \/ Prepare(w) \/ Accepted(w) \/ Refused(w) \/ RefusedForGood(w)
             \/ Confirm(w) \/ Ack(w) \/ DeadLetter(w) \/ Republish(w)
             \/ AckRepublished(w) \/ RepublishFails(w)
    BY <2>3 DEF Prepare, Accepted, Refused, RefusedForGood, Confirm, Ack,
       DeadLetter, Republish, AckRepublished, RepublishFails
  <2>. QED  BY <1>2, <2>1, <2>2, <2>3 DEF Handle
<1>3. CASE Background
  BY <1>3 DEF Background, taskVars, ghostVars
<1>. QED  BY <1>1, <1>2, <1>3, BackgroundStep

(* At the start there are no outcomes.                                     *)
LEMMA OutcomesInit == SmsInit => OutcomesStand
BY DEF SmsInit, OutcomesStand, Standing, Owning, Sending, InSendSMS

(* Whoever works on a task while Redis answers finds it neither delivered  *)
(* nor refused for good.                                                   *)
THEOREM OutcomesStandAlways == SmsSpec => []OutcomesStand
<1>1. SmsInit => OutcomesStand
  BY OutcomesInit
<1>2. Typed /\ MarkIsLock /\ OutcomesStand /\ [SmsNext]_smsVars => OutcomesStand'
  BY StandingStep DEF OutcomesStand
<1>. QED  BY <1>1, <1>2, PipelineTyped, MarkLocks, PTL DEF SmsSpec

(* An outcome stands: a delivered task never becomes failed again, and     *)
(* what was refused for good is never sent again, not by a retry, a        *)
(* duplicate or a redelivery.                                              *)
THEOREM OutcomesFinal == SmsSpec => OutcomeIsFinal
<1>. DEFINE Stand ==
       faults["redis"] = 0 =>
          /\ \A t \in Tasks : status[t] = "success" => status'[t] = "success"
          /\ \A t \in refusedForGood : sent'[t] = sent[t]
<1>1. Typed /\ MarkIsLock /\ OutcomesStand /\ [SmsNext]_smsVars => [Stand]_smsVars
  <2>. SUFFICES ASSUME Typed, MarkIsLock, OutcomesStand, [SmsNext]_smsVars,
                       faults["redis"] = 0
                PROVE  Stand
    OBVIOUS
  <2>1. CASE faults'["redis"] = 0
    BY <2>1, StandingStep
  <2>2. CASE faults'["redis"] # 0
    BY <2>2, RedisFaultsChangeNothing
  <2>. QED  BY <2>1, <2>2
<1>. QED  BY <1>1, PipelineTyped, MarkLocks, OutcomesStandAlways, PTL
          DEF SmsSpec, OutcomeIsFinal

-----------------------------------------------------------------------------
(* Paid is recorded                                                        *)

(* How a call of worker w changes the number of charges whose row is still *)
(* to be written.                                                          *)
LEMMA WritingCounts ==
    ASSUME Typed, NEW w \in Workers, Handle(w), NEW t \in Tasks
    PROVE  /\ Cardinality(Writing(t)) \in Nat
           /\ Cardinality(Writing(t)') = Cardinality(Writing(t))
                + (IF pc'[w] = "markSuccess" /\ Task(w) = t /\ ~cancelled[w]
                   THEN 1 ELSE 0)
                - (IF pc[w] = "markSuccess" /\ Task(w) = t /\ ~cancelled[w]
                   THEN 1 ELSE 0)
<1>1. Writing(t) \in SUBSET Workers
  BY DEF Writing
<1>2. Writing(t)' \ {w} = Writing(t) \ {w}
  BY HandleIsLocal DEF Local, Writing
<1>3. w \in Writing(t)' <=> pc'[w] = "markSuccess" /\ Task(w) = t /\ ~cancelled[w]
  BY HandleIsLocal DEF Local, Writing
<1>4. w \in Writing(t) <=> pc[w] = "markSuccess" /\ Task(w) = t /\ ~cancelled[w]
  BY DEF Writing
<1>. QED  BY <1>1, <1>2, <1>3, <1>4, WorkerSets, CountMoves

(* A handler that charges goes on to write the row, and nobody who sends   *)
(* finds or makes a delivered task undelivered; only a failure of the      *)
(* database keeps the row from being written.                              *)
LEMMA HandleRecordsCharges ==
    ASSUME Typed, Standing, ChargesRecorded, FaultsGrow, NEW w \in Workers,
           Handle(w)
    PROVE  ChargesRecorded'
<1>. SUFFICES ASSUME NEW t \in Tasks
              PROVE  charged'[t] <= Delivered(t)' + Cardinality(Writing(t)')
                                      + CutOffs'
  BY DEF ChargesRecorded
<1>. DEFINE n == Cardinality(Writing(t))
            m == Cardinality(Writing(t)')
<1>1. /\ charged[t] <= Delivered(t) + n + CutOffs
      /\ n \in Nat
      /\ m = n + (IF pc'[w] = "markSuccess" /\ Task(w) = t /\ ~cancelled[w]
                  THEN 1 ELSE 0)
               - (IF pc[w] = "markSuccess" /\ Task(w) = t /\ ~cancelled[w]
                  THEN 1 ELSE 0)
  BY WritingCounts DEF ChargesRecorded
<1>2. charged \in [Tasks -> Nat] /\ pc \in [Workers -> PCs]
  BY DEF Typed, DataTyped, CallsTyped
<1>3. CutOffs \in Nat /\ CutOffs' \in Nat /\ CutOffs' >= CutOffs
  BY DEF CutOffs, FaultsGrow, FaultKinds, Typed, DataTyped
<1>. HIDE DEF n, m
<1>4. SUFFICES charged'[t] <= Delivered(t)' + m + CutOffs'
  BY DEF m
<1>0. Delivered(t) \in 0..1 /\ Delivered(t)' \in 0..1
  BY DEF Delivered
<1>. USE <1>0, <1>1, <1>2, <1>3 DEF Goto, ghostVars, taskVars
<1>5. ASSUME charged' = charged, status' = status,
             pc[w] # "markSuccess", pc'[w] # "markSuccess"
      PROVE  charged'[t] <= Delivered(t)' + m + CutOffs'
  BY <1>5 DEF Delivered
<1>6. CASE Confirm(w)
  <2>1. Works(w) /\ status' = status /\ pc[w] = "confirm"
    BY <1>6 DEF Confirm
  <2>2. CASE pc' = pc /\ charged' = charged
    BY <1>5, <2>1, <2>2
  <2>3. CASE charged' = [charged EXCEPT ![Task(w)] = @ + 1]
             /\ pc' = [pc EXCEPT ![w] = "markSuccess"]
    BY <2>1, <2>3 DEF Works, Delivered
  <2>. QED  BY <1>6, <2>2, <2>3 DEF Confirm
<1>7. CASE MarkSuccess(w)
  <2>1. pc[w] = "markSuccess" /\ pc'[w] # "markSuccess" /\ charged' = charged
    BY <1>7 DEF MarkSuccess
  <2>2. status[Task(w)] # "success"
    BY <2>1 DEF Standing, Sending, InSendSMS
  <2>3. CASE Works(w) /\ status' = [status EXCEPT ![Task(w)] = "success"]
    <3>1. Delivered(t)' = IF Task(w) = t THEN 1 ELSE Delivered(t)
      BY <2>3 DEF Delivered, Typed, DataTyped
    <3>2. Task(w) = t => Delivered(t) = 0
      BY <2>2 DEF Delivered
    <3>. QED  BY <2>1, <2>3, <3>1, <3>2 DEF Works
  <2>4. CASE Fails(w, "db") /\ status' = status
    <3>1. ~cancelled[w] => CutOffs' = CutOffs + 1
      BY <2>4, FailureCounts DEF FaultKinds, CutOffs, Typed, DataTyped
    <3>. QED  BY <2>1, <2>4, <3>1 DEF Delivered
  <2>. QED  BY <1>7, <2>3, <2>4 DEF MarkSuccess
<1>8. CASE MarkFailed(w)
  <2>1. /\ pc[w] = "markFailed" /\ pc'[w] # "markSuccess"
        /\ charged' = charged
    BY <1>8 DEF MarkFailed
  <2>2. status[Task(w)] # "success"
    BY <2>1 DEF Standing, Sending, InSendSMS
  <2>3. Delivered(t)' = Delivered(t)
    BY <1>8, <2>2 DEF MarkFailed, Delivered, Typed, DataTyped
  <2>. QED  BY <2>1, <2>3
<1>9. CASE Claim(w) \/ LookupTask(w)
  BY <1>5, <1>9 DEF Claim, LookupTask
<1>10. CASE PreDeduct(w) \/ Prepare(w)
  BY <1>5, <1>10 DEF PreDeduct, Prepare
<1>11. CASE Accepted(w) \/ Refused(w)
  BY <1>5, <1>11 DEF Accepted, Refused
<1>12. CASE RefusedForGood(w) \/ ReplyLost(w)
  BY <1>5, <1>12 DEF RefusedForGood, ReplyLost
<1>13. CASE Refund(w) \/ ConfirmFails(w)
  BY <1>5, <1>13 DEF Refund, ConfirmFails
<1>14. CASE Finish(w)
  BY <1>5, <1>14 DEF Finish, AfterFinish
<1>15. CASE Stamp(w) \/ Unmark(w) \/ Republish(w)
  BY <1>5, <1>15 DEF Stamp, Unmark, Republish
<1>16. CASE Ack(w) \/ AckRepublished(w) \/ RepublishFails(w)
  BY <1>5, <1>16 DEF Ack, AckRepublished, RepublishFails, Drop
<1>17. CASE DeadLetter(w)
  BY <1>5, <1>17 DEF DeadLetter, Drop
<1>. QED  BY <1>6, <1>7, <1>8, <1>9, <1>10, <1>11, <1>12, <1>13, <1>14,
     <1>15, <1>16, <1>17 DEF Handle

(* Around the handlers a row that was about to be written is given up only *)
(* by a crash or a shutdown, one for each.                                 *)
LEMMA CutOffsAreCounted ==
    ASSUME Typed, [SmsNext]_smsVars, FaultsGrow, \A w \in Workers : ~Handle(w),
           NEW t \in Tasks
    PROVE  Cardinality(Writing(t)) <= Cardinality(Writing(t)') + CutOffs' - CutOffs
<1>. USE DEF Typed, CallsTyped, DataTyped, Task, Goto, Decide, queueVars, quotaVars
<1>1. CutOffs \in Nat /\ CutOffs' \in Nat /\ CutOffs' >= CutOffs
  BY DEF CutOffs, FaultsGrow, FaultKinds
<1>2. Writing(t) \in SUBSET Workers /\ Writing(t)' \in SUBSET Workers
  BY DEF Writing
<1>3. Cardinality(Writing(t)) \in Nat /\ Cardinality(Writing(t)') \in Nat
  BY <1>2, WorkerSets
<1>4. SUFFICES \/ Writing(t)' = Writing(t)
               \/ \E w \in Workers : /\ Writing(t)' \ {w} = Writing(t) \ {w}
                                      /\ CutOffs' = CutOffs + 1
  <2>1. CASE Writing(t)' = Writing(t)
    BY <1>1, <1>3, <2>1
  <2>2. ASSUME NEW w \in Workers, Writing(t)' \ {w} = Writing(t) \ {w},
               CutOffs' = CutOffs + 1
        PROVE  Cardinality(Writing(t)) <= Cardinality(Writing(t)') + 1
    <3>1. IsFiniteSet(Writing(t))
      BY <1>2, WorkerSets
    <3>2. Cardinality(Writing(t)') = Cardinality(Writing(t))
            + (IF w \in Writing(t)' THEN 1 ELSE 0)
            - (IF w \in Writing(t) THEN 1 ELSE 0)
      BY <2>2, <3>1, CountMoves
    <3>. QED  BY <1>3, <3>2
  <2>. QED  BY <1>1, <1>3, <2>1, <2>2
<1>5. ASSUME NEW w \in Workers, ConnectionLost(w)
      PROVE  Writing(t)' = Writing(t)
  <2>1. CASE hand[w] = NoMessage
    BY <1>5, <2>1 DEF ConnectionLost, Writing
  <2>2. CASE hand[w] # NoMessage
    <3>. DEFINE closed == [hand[w] EXCEPT !.open = FALSE]
    <3>1. /\ hand' = [hand EXCEPT ![w] = closed] /\ cancelled' = cancelled
          /\ pc' = [pc EXCEPT ![w] = IF pc[w] = "idle" THEN "stopped" ELSE pc[w]]
      BY <1>5, <2>2 DEF ConnectionLost
    <3>2. closed.task = hand[w].task
      <4>1. hand[w] \in Delivery
        BY <2>2
      <4>. QED  BY <4>1 DEF Delivery
    <3>. HIDE DEF closed
    <3>. QED  BY <3>1, <3>2 DEF Writing
  <2>. QED  BY <2>1, <2>2
<1>6. ASSUME NEW w \in Workers, StopCancelled(w) \/ Restart(w)
      PROVE  Writing(t)' = Writing(t)
  BY <1>6 DEF StopCancelled, Restart, Writing
<1>7. ASSUME NEW w \in Workers, NEW m \in Message, Deliver(w, m)
      PROVE  Writing(t)' = Writing(t)
  BY <1>7 DEF Deliver, Writing
<1>8. ASSUME NEW w \in Workers, Crash(w) \/ Shutdown(w)
      PROVE  Writing(t)' \ {w} = Writing(t) \ {w} /\ CutOffs' = CutOffs + 1
  <2>1. Writing(t)' \ {w} = Writing(t) \ {w}
    BY <1>8 DEF Crash, Shutdown, Writing
  <2>2. CutOffs' = CutOffs + 1
    <3>1. Fault("crash") \/ Fault("shutdown")
      BY <1>8 DEF Crash, Shutdown
    <3>. QED  BY <3>1 DEF Fault, FaultKinds, CutOffs
  <2>. QED  BY <2>1, <2>2
<1>9. ASSUME (\E u \in Tasks : Publish(u)) \/ (\E m \in Message : Expire(m))
      PROVE  Writing(t)' = Writing(t)
  BY <1>9 DEF Publish, Expire, Writing
<1>10. CASE UNCHANGED smsVars
  BY <1>10 DEF smsVars, Writing
<1>. QED  BY <1>5, <1>6, <1>7, <1>8, <1>9, <1>10 DEF SmsNext, Consume

(* No step makes a charge that neither the row nor a fault accounts for.   *)
LEMMA PaymentsStep ==
    ASSUME Typed, OutcomesStand, PaymentsKnown, [SmsNext]_smsVars
    PROVE  PaymentsKnown'
<1>. SUFFICES ASSUME faults'["redis"] = 0
              PROVE  ChargesRecorded'
  BY DEF PaymentsKnown
<1>1. FaultsGrow
  BY TypedStep
<1>2. Standing /\ ChargesRecorded
  BY <1>1 DEF FaultsGrow, FaultKinds, OutcomesStand, PaymentsKnown, Typed,
     DataTyped
<1>3. CASE \E w \in Workers : Handle(w)
  BY <1>1, <1>2, <1>3, HandleRecordsCharges
<1>4. CASE \A w \in Workers : ~Handle(w)
  <2>1. charged' = charged /\ status' = status
    BY <1>4, BackgroundStep DEF Background, taskVars, ghostVars
  <2>2. ASSUME NEW t \in Tasks
        PROVE  charged'[t] <= Delivered(t)' + Cardinality(Writing(t)') + CutOffs'
    <3>1. charged[t] <= Delivered(t) + Cardinality(Writing(t)) + CutOffs
      BY <1>2 DEF ChargesRecorded
    <3>2. Cardinality(Writing(t)) <= Cardinality(Writing(t)') + CutOffs' - CutOffs
      BY <1>1, <1>4, CutOffsAreCounted
    <3>3. /\ Cardinality(Writing(t)) \in Nat /\ Cardinality(Writing(t)') \in Nat
      <4>1. Writing(t) \in SUBSET Workers /\ Writing(t)' \in SUBSET Workers
        BY DEF Writing
      <4>. QED  BY <4>1, WorkerSets
    <3>4. CutOffs \in Nat /\ CutOffs' \in Nat
      BY <1>1 DEF CutOffs, FaultsGrow, FaultKinds, Typed, DataTyped
    <3>5. Delivered(t)' = Delivered(t) /\ Delivered(t) \in Nat
      BY <2>1 DEF Delivered
    <3>6. charged'[t] = charged[t] /\ charged[t] \in Nat
      BY <2>1 DEF Typed, DataTyped
    <3>. QED  BY <3>1, <3>2, <3>3, <3>4, <3>5, <3>6
  <2>. QED  BY <2>2 DEF ChargesRecorded
<1>. QED  BY <1>3, <1>4

(* A user pays once for a task, and its row then says so, but for one      *)
(* charge per failure of the database, crash or shutdown between the two   *)
(* commits (while Redis answers).                                          *)
THEOREM PaidRecorded == SmsSpec => []PaidIsRecorded
<1>1. SmsInit => PaymentsKnown
  <2>. SUFFICES ASSUME SmsInit, NEW t \in Tasks
                PROVE  charged[t] <= Delivered(t) + Cardinality(Writing(t)) + CutOffs
    BY DEF PaymentsKnown, ChargesRecorded
  <2>1. Writing(t) = {}
    BY DEF SmsInit, Writing
  <2>2. Cardinality(Writing(t)) = 0
    BY <2>1, FS_EmptySet
  <2>. QED  BY <2>2 DEF SmsInit, Delivered, CutOffs, FaultKinds
<1>2. Typed /\ OutcomesStand /\ PaymentsKnown /\ [SmsNext]_smsVars
        => PaymentsKnown'
  BY PaymentsStep
<1>3. Typed /\ PaymentsKnown => PaidIsRecorded
  <2>. SUFFICES ASSUME Typed, ChargesRecorded, NEW t \in Tasks
                PROVE  charged[t] <= Delivered(t) + Cardinality(Recording(t))
                         + faults["db"] + faults["crash"] + faults["shutdown"]
    BY DEF PaymentsKnown, PaidIsRecorded, Delivered
  <2>1. Writing(t) \subseteq Recording(t) /\ Recording(t) \in SUBSET Workers
    BY DEF Writing, Recording
  <2>2. /\ Cardinality(Writing(t)) <= Cardinality(Recording(t))
        /\ Cardinality(Writing(t)) \in Nat /\ Cardinality(Recording(t)) \in Nat
    BY <2>1, WorkerSets, FS_Subset, FS_CardinalityType
  <2>3. charged[t] <= Delivered(t) + Cardinality(Writing(t)) + CutOffs
    BY DEF ChargesRecorded
  <2>. QED  BY <2>2, <2>3 DEF Delivered, CutOffs, Typed, DataTyped, FaultKinds
<1>. QED  BY <1>1, <1>2, <1>3, PipelineTyped, OutcomesStandAlways, PTL
          DEF SmsSpec

-----------------------------------------------------------------------------
(* Sent at most once                                                       *)

(* How a call of worker w changes the number of workers that can still     *)
(* send for t.                                                             *)
LEMMA EntitledCounts ==
    ASSUME Typed, NEW w \in Workers, Handle(w), NEW t \in Tasks
    PROVE  /\ Cardinality(Entitled(t)) \in Nat
           /\ Cardinality(Entitled(t)') = Cardinality(Entitled(t))
                + (IF EntitledAt(pc'[w], verdict'[w], cancelled[w]) /\ Task(w) = t
                   THEN 1 ELSE 0)
                - (IF EntitledAt(pc[w], verdict[w], cancelled[w]) /\ Task(w) = t
                   THEN 1 ELSE 0)
<1>1. Entitled(t) \in SUBSET Workers
  BY DEF Entitled
<1>2. Entitled(t)' \ {w} = Entitled(t) \ {w}
  BY HandleIsLocal DEF Local, Entitled
<1>3. w \in Entitled(t)' <=> EntitledAt(pc'[w], verdict'[w], cancelled[w]) /\ Task(w) = t
  BY HandleIsLocal DEF Local, Entitled, EntitledAt
<1>4. w \in Entitled(t) <=> EntitledAt(pc[w], verdict[w], cancelled[w]) /\ Task(w) = t
  BY HandleIsLocal DEF Local, Entitled, EntitledAt
<1>. QED  BY <1>1, <1>2, <1>3, <1>4, WorkerSets, CountMoves

(* A send uses up a claim to one; a handler gains another only from a      *)
(* fault.                                                                  *)
LEMMA HandlePaysClaims ==
    ASSUME Typed, ClaimsPaid, NEW w \in Workers, Handle(w)
    PROVE  ClaimsPaid'
<1>. SUFFICES ASSUME NEW t \in Tasks
              PROVE  sent'[t] + Cardinality(Entitled(t)')
                       + (IF mark'[t] = "none" THEN 1 ELSE 0)
                     <= 1 + faults'["reply"] + faults'["redis"] + faults'["db"]
  BY DEF ClaimsPaid
<1>. DEFINE n == Cardinality(Entitled(t))
            m == Cardinality(Entitled(t)')
<1>1. /\ sent[t] + n + (IF mark[t] = "none" THEN 1 ELSE 0)
           <= 1 + faults["reply"] + faults["redis"] + faults["db"]
      /\ n \in Nat
      /\ m = n + (IF EntitledAt(pc'[w], verdict'[w], cancelled[w]) /\ Task(w) = t
                  THEN 1 ELSE 0)
               - (IF EntitledAt(pc[w], verdict[w], cancelled[w]) /\ Task(w) = t
                  THEN 1 ELSE 0)
  BY EntitledCounts DEF ClaimsPaid
<1>2. /\ sent \in [Tasks -> Nat] /\ pc \in [Workers -> PCs]
      /\ mark \in [Tasks -> {"none", "processing", "completed"}]
      /\ faults \in [{"crash", "drop", "redis", "db", "reply", "expiry", "shutdown"} -> Nat]
      /\ verdict \in [Workers -> {"none", "nil", "skip", "retry"}]
      /\ verdict[w] \in VerdictsAt(pc[w])
  BY DEF Typed, DataTyped, CallsTyped, CallsInOrder, FaultKinds
<1>. HIDE DEF n, m
<1>3. SUFFICES sent'[t] + m + (IF mark'[t] = "none" THEN 1 ELSE 0)
                 <= 1 + faults'["reply"] + faults'["redis"] + faults'["db"]
  BY DEF m
<1>. USE <1>1, <1>2 DEF EntitledAt, VerdictsAt, Goto, Decide, Works, Fails,
     Fault, ghostVars
<1>4. CASE Claim(w)
  BY <1>4 DEF Claim, Claimable
<1>5. CASE LookupTask(w)
  BY <1>5 DEF LookupTask
<1>6. CASE PreDeduct(w)
  BY <1>6 DEF PreDeduct
<1>7. CASE Prepare(w)
  BY <1>7 DEF Prepare
<1>8. CASE Accepted(w)
  BY <1>8 DEF Accepted
<1>9. CASE Refused(w)
  BY <1>9 DEF Refused
<1>10. CASE RefusedForGood(w)
  BY <1>10 DEF RefusedForGood
<1>11. CASE ReplyLost(w)
  BY <1>11 DEF ReplyLost
<1>12. CASE Refund(w)
  BY <1>12 DEF Refund
<1>13. CASE MarkFailed(w)
  BY <1>13 DEF MarkFailed
<1>14. CASE MarkSuccess(w)
  BY <1>14 DEF MarkSuccess
<1>15. CASE Confirm(w)
  BY <1>15 DEF Confirm
<1>16. CASE ConfirmFails(w)
  BY <1>16 DEF ConfirmFails
<1>17. CASE Finish(w)
  BY <1>17 DEF Finish, AfterFinish
<1>18. CASE Stamp(w)
  BY <1>18 DEF Stamp
<1>19. CASE Unmark(w)
  BY <1>19 DEF Unmark
<1>20. CASE Republish(w)
  BY <1>20 DEF Republish
<1>21. CASE Ack(w) \/ AckRepublished(w) \/ RepublishFails(w)
  BY <1>21 DEF Ack, AckRepublished, RepublishFails, Drop
<1>22. CASE DeadLetter(w)
  BY <1>22 DEF DeadLetter, Drop
<1>. QED  BY <1>4, <1>5, <1>6, <1>7, <1>8, <1>9, <1>10, <1>11, <1>12, <1>13,
     <1>14, <1>15, <1>16, <1>17, <1>18, <1>19, <1>20, <1>21, <1>22 DEF Handle

(* Around the handlers claims are only given up.                           *)
LEMMA BackgroundPaysClaims ==
    ASSUME Typed, ClaimsPaid, Background, FaultsGrow
    PROVE  ClaimsPaid'
<1>. SUFFICES ASSUME NEW t \in Tasks
              PROVE  sent'[t] + Cardinality(Entitled(t)')
                       + (IF mark'[t] = "none" THEN 1 ELSE 0)
                     <= 1 + faults'["reply"] + faults'["redis"] + faults'["db"]
  BY DEF ClaimsPaid
<1>1. Entitled(t)' \subseteq Entitled(t)
  BY DEF Entitled, EntitledAt, Background, Rests, Stays
<1>2. /\ Cardinality(Entitled(t)') <= Cardinality(Entitled(t))
      /\ Cardinality(Entitled(t)') \in Nat /\ Cardinality(Entitled(t)) \in Nat
  <2>1. Entitled(t) \in SUBSET Workers
    BY DEF Entitled
  <2>. QED  BY <1>1, <2>1, WorkerSets, FS_Subset, FS_CardinalityType
<1>3. sent[t] + Cardinality(Entitled(t)) + (IF mark[t] = "none" THEN 1 ELSE 0)
        <= 1 + faults["reply"] + faults["redis"] + faults["db"]
  BY DEF ClaimsPaid
<1>4. /\ faults'["reply"] \in Nat /\ faults'["reply"] >= faults["reply"]
      /\ faults'["redis"] \in Nat /\ faults'["redis"] >= faults["redis"]
      /\ faults'["db"] \in Nat /\ faults'["db"] >= faults["db"]
      /\ faults["reply"] \in Nat /\ faults["redis"] \in Nat /\ faults["db"] \in Nat
  BY DEF FaultsGrow, FaultKinds, Typed, DataTyped
<1>5. sent' = sent /\ mark' = mark /\ sent[t] \in Nat
  BY DEF Background, ghostVars, Typed, DataTyped
<1>. QED  BY <1>2, <1>3, <1>4, <1>5

(* No step adds a send that nothing accounts for.                          *)
LEMMA ClaimsStep ==
    ASSUME Typed, ClaimsPaid, [SmsNext]_smsVars
    PROVE  ClaimsPaid'
BY HandlePaysClaims, BackgroundPaysClaims, BackgroundStep, TypedStep

(* At the start nobody has a claim, and the missing mark stands for the    *)
(* one send.                                                               *)
LEMMA ClaimsInit == SmsInit => ClaimsPaid
<1>. SUFFICES ASSUME SmsInit PROVE ClaimsPaid
  OBVIOUS
<1>1. \A t \in Tasks : Entitled(t) = {}
  BY DEF SmsInit, Entitled, EntitledAt
<1>2. \A t \in Tasks : Cardinality(Entitled(t)) = 0
  BY <1>1, FS_EmptySet
<1>. QED  BY <1>2 DEF SmsInit, ClaimsPaid, FaultKinds

(* Nobody gets the same SMS twice, but for one more per answer of Redis,   *)
(* the database or the provider that was lost: crashes, lost connections,  *)
(* shutdowns and duplicates cost nothing.                                  *)
THEOREM SentOnce == SmsSpec => []SentAtMostOnce
<1>1. SmsInit => ClaimsPaid
  BY ClaimsInit
<1>2. Typed /\ ClaimsPaid /\ [SmsNext]_smsVars => ClaimsPaid'
  BY ClaimsStep
<1>3. Typed /\ ClaimsPaid => SentAtMostOnce
  <2>. SUFFICES ASSUME Typed, ClaimsPaid, NEW t \in Tasks
                PROVE  sent[t] <= 1 + faults["reply"] + faults["redis"] + faults["db"]
    BY DEF SentAtMostOnce
  <2>1. Entitled(t) \in SUBSET Workers
    BY DEF Entitled
  <2>2. Cardinality(Entitled(t)) \in Nat
    BY <2>1, WorkerSets
  <2>. QED  BY <2>2 DEF ClaimsPaid, Typed, DataTyped, FaultKinds
<1>. QED  BY <1>1, <1>2, <1>3, PipelineTyped, PTL DEF SmsSpec

-----------------------------------------------------------------------------
(* Messages are kept                                                       *)

(* The waiting copies of a task's messages, element by element.            *)
LEMMA WaitingCopy ==
    ASSUME NEW t
    PROVE  \A c : c \in WaitingCopies(t) <=>
                    \E m \in Message : /\ m.task = t
                                       /\ \E i \in 1..ready[m] : c = <<m, i>>
BY DEF WaitingCopies

(* One message more, or one less.                                          *)
LEMMA WaitingAfterAdd ==
    ASSUME DataTyped, NEW m \in Message, NEW t \in Tasks,
           ready' = [ready EXCEPT ![m] = ready[m] + 1],
           IsFiniteSet(WaitingCopies(t))
    PROVE  /\ IsFiniteSet(WaitingCopies(t)')
           /\ Waiting(t) \in Nat
           /\ Waiting(t)' = Waiting(t) + (IF m.task = t THEN 1 ELSE 0)
<1>. DEFINE S == WaitingCopies(t)
            T == WaitingCopies(t)'
            x == <<m, ready[m] + 1>>
<1>1. \A c : c \in T <=> \E n \in Message : /\ n.task = t
                                           /\ \E i \in 1..ready'[n] : c = <<n, i>>
  BY DEF WaitingCopies
<1>2. \A c : c \in S <=> \E n \in Message : /\ n.task = t
                                           /\ \E i \in 1..ready[n] : c = <<n, i>>
  BY WaitingCopy
<1>3. /\ ready[m] \in Nat /\ ready'[m] = ready[m] + 1
      /\ \A n \in Message : n # m => ready'[n] = ready[n]
  BY DEF DataTyped
<1>. HIDE DEF S, T
<1>4. x \notin S /\ (x \in T <=> m.task = t)
  BY <1>1, <1>2, <1>3
<1>5. T \ {x} = S \ {x}
  BY <1>1, <1>2, <1>3
<1>. HIDE DEF x
<1>6. IsFiniteSet(S)
  BY DEF S
<1>7. /\ IsFiniteSet(T) /\ Cardinality(S) \in Nat
      /\ Cardinality(T) = Cardinality(S) + (IF x \in T THEN 1 ELSE 0)
                                         - (IF x \in S THEN 1 ELSE 0)
  BY <1>5, <1>6, CountMoves
<1>. QED  BY <1>4, <1>7 DEF S, T, Waiting

(* A message less in a queue is a copy less of its task that waits.        *)
LEMMA WaitingAfterTake ==
    ASSUME DataTyped, NEW m \in Message, NEW t \in Tasks, ready[m] > 0,
           ready' = [ready EXCEPT ![m] = ready[m] - 1],
           IsFiniteSet(WaitingCopies(t))
    PROVE  /\ IsFiniteSet(WaitingCopies(t)')
           /\ Waiting(t) \in Nat
           /\ Waiting(t)' = Waiting(t) - (IF m.task = t THEN 1 ELSE 0)
<1>. DEFINE S == WaitingCopies(t)
            T == WaitingCopies(t)'
            x == <<m, ready[m]>>
<1>1. \A c : c \in T <=> \E n \in Message : /\ n.task = t
                                           /\ \E i \in 1..ready'[n] : c = <<n, i>>
  BY DEF WaitingCopies
<1>2. \A c : c \in S <=> \E n \in Message : /\ n.task = t
                                           /\ \E i \in 1..ready[n] : c = <<n, i>>
  BY WaitingCopy
<1>3. /\ ready[m] \in Nat /\ ready'[m] = ready[m] - 1
      /\ \A n \in Message : n # m => ready'[n] = ready[n]
  BY DEF DataTyped
<1>. HIDE DEF S, T
<1>4. x \notin T /\ (x \in S <=> m.task = t)
  BY <1>1, <1>2, <1>3
<1>5. T \ {x} = S \ {x}
  BY <1>1, <1>2, <1>3
<1>. HIDE DEF x
<1>6. IsFiniteSet(S)
  BY DEF S
<1>7. /\ IsFiniteSet(T) /\ Cardinality(S) \in Nat
      /\ Cardinality(T) = Cardinality(S) + (IF x \in T THEN 1 ELSE 0)
                                         - (IF x \in S THEN 1 ELSE 0)
  BY <1>5, <1>6, CountMoves
<1>. QED  BY <1>4, <1>7 DEF S, T, Waiting

(* Waiting(t) = 0 means what it says.                                      *)
LEMMA NoneWaiting ==
    ASSUME DataTyped, NEW t \in Tasks, IsFiniteSet(WaitingCopies(t)),
           Waiting(t) = 0
    PROVE  \A m \in Message : m.task = t => ready[m] = 0
<1>1. WaitingCopies(t) = {}
  BY FS_EmptySet DEF Waiting
<1>. SUFFICES ASSUME NEW m \in Message, m.task = t, ready[m] # 0
              PROVE  FALSE
  OBVIOUS
<1>2. 1 \in 1..ready[m]
  BY DEF DataTyped
<1>3. <<m, 1>> \in WaitingCopies(t)
  BY <1>2, WaitingCopy
<1>. QED  BY <1>1, <1>3

(* How a step in which only worker w moves changes the number of workers   *)
(* that have a copy.                                                       *)
Alone(w) ==
    \A v \in Workers \ {w} :
        pc'[v] = pc[v] /\ hand'[v] = hand[v] /\ Task(v)' = Task(v)

(* The number of carriers changes with the one worker that moves.          *)
LEMMA CarrierCounts ==
    ASSUME Typed, NEW w \in Workers, Alone(w), NEW t \in Tasks
    PROVE  /\ Cardinality(Carriers(t)) \in Nat
           /\ Cardinality(Carriers(t)') \in Nat
           /\ Cardinality(Carriers(t)') = Cardinality(Carriers(t))
                + (IF HoldsCopy(w, t)' THEN 1 ELSE 0)
                - (IF HoldsCopy(w, t) THEN 1 ELSE 0)
<1>1. Carriers(t) \in SUBSET Workers
  BY DEF Carriers
<1>2. Carriers(t)' \ {w} = Carriers(t) \ {w}
  BY DEF Alone, Carriers, HoldsCopy, Serving
<1>3. /\ w \in Carriers(t)' <=> HoldsCopy(w, t)'
      /\ w \in Carriers(t) <=> HoldsCopy(w, t)
  BY DEF Carriers
<1>. QED  BY <1>1, <1>2, <1>3, WorkerSets, CountMoves

(* How each step changes the numbers of copies of the message of task t    *)
(* that wait, are dead-lettered, are carried and were published.           *)
Interruptions == faults["crash"] + faults["drop"]

Counts(t) == /\ IsFiniteSet(WaitingCopies(t)')
             /\ Copies(t)' - Copies(t) <= (published'[t] - published[t])
                                            + (Interruptions' - Interruptions)

(* The copies of a task, as a sum.                                         *)
LEMMA CopiesAre ==
    \A t : Copies(t) = Waiting(t) + dlq[t] + Cardinality(Carriers(t))
BY DEF Copies, Carriers, HoldsCopy

(* The same sum after the step.                                            *)
LEMMA CopiesAreNext ==
    \A t : Copies(t)' = Waiting(t)' + dlq'[t] + Cardinality(Carriers(t)')
BY DEF Copies, Carriers, HoldsCopy

(* A step that leaves the queue alone leaves its copies alone.             *)
LEMMA QueueUntouched ==
    ASSUME NEW t \in Tasks, IsFiniteSet(WaitingCopies(t)), UNCHANGED ready
    PROVE  /\ IsFiniteSet(WaitingCopies(t)')
           /\ Waiting(t) \in Nat /\ Waiting(t)' = Waiting(t)
<1>1. WaitingCopies(t)' = WaitingCopies(t)
  BY DEF WaitingCopies
<1>. QED  BY <1>1, FS_CardinalityType DEF Waiting

(* Retries: the republished copy takes the place of the original, which is *)
(* acknowledged later; a dead-lettered message that the broker had already *)
(* taken back is not counted twice.                                        *)
LEMMA HandleCounts ==
    ASSUME Typed, WaitingFinite, NEW w \in Workers, Handle(w), NEW t \in Tasks
    PROVE  Counts(t)
<1>. DEFINE W == Waiting(t)  W2 == Waiting(t)'
            C == Cardinality(Carriers(t))  C2 == Cardinality(Carriers(t)')
            grown == Interruptions' - Interruptions
<1>1. Local(w) /\ Alone(w)
  BY HandleIsLocal DEF Local, Alone
<1>2. /\ C \in Nat /\ C2 \in Nat
      /\ C2 = C + (IF HoldsCopy(w, t)' THEN 1 ELSE 0)
                - (IF HoldsCopy(w, t) THEN 1 ELSE 0)
  BY <1>1, CarrierCounts
<1>3. grown \in Int /\ grown >= 0
  BY HandleData DEF FaultsGrow, FaultKinds, Typed, DataTyped, Interruptions
<1>4. dlq[t] \in Nat /\ published[t] \in Nat /\ Task(w) \in Tasks
  <2>1. Task(w) \in Tasks
    BY <1>1, HandlersHaveMessages DEF Local, Typed
  <2>. QED  BY <2>1, SmsAssumption DEF Typed, DataTyped
<1>5. IsFiniteSet(WaitingCopies(t))
  BY DEF WaitingFinite
<1>. SUFFICES /\ IsFiniteSet(WaitingCopies(t)')
              /\ (W2 + dlq'[t] + C2) - (W + dlq[t] + C)
                   <= (published'[t] - published[t]) + grown
  BY CopiesAre, CopiesAreNext DEF Counts
<1>. HIDE DEF W, W2, C, C2, grown
<1>6. CASE DeadLetter(w)
  <2>1. /\ ready' = ready /\ published' = published
        /\ dlq' = [dlq EXCEPT ![Task(w)] = @ + (IF hand[w].open THEN 1 ELSE 0)]
        /\ pc'[w] \in {"idle", "stopped"} /\ pc[w] = "settle"
    BY <1>6 DEF DeadLetter, Drop, Goto, Typed, CallsTyped
  <2>2. /\ IsFiniteSet(WaitingCopies(t)') /\ W \in Nat /\ W2 = W
    BY <1>5, <2>1, QueueUntouched DEF W, W2
  <2>3. ~HoldsCopy(w, t)'
    BY <2>1 DEF HoldsCopy, Serving
  <2>4. HoldsCopy(w, t) <=> Task(w) = t /\ hand[w].open
    BY <2>1 DEF HoldsCopy, Serving
  <2>5. dlq'[t] = dlq[t] + (IF Task(w) = t /\ hand[w].open THEN 1 ELSE 0)
    BY <1>4, <2>1 DEF Typed, DataTyped
  <2>. QED  BY <1>2, <1>3, <1>4, <2>1, <2>2, <2>3, <2>4, <2>5
<1>7. CASE Republish(w)
  <2>. DEFINE m == NextAttempt(hand[w])
  <2>1. m \in Message /\ m.task = Task(w)
    BY <1>1, <1>7, HandlersHaveMessages, SmsAssumption
       DEF Republish, NextAttempt, Message, Local, Typed, Task
  <2>2. /\ ready' = [ready EXCEPT ![m] = ready[m] + 1]
        /\ dlq' = dlq /\ published' = published
        /\ pc[w] = "settle" /\ pc'[w] = "ackRepublished" /\ hand[w].open
    BY <1>7 DEF Republish, Goto, Typed, CallsTyped
  <2>. HIDE DEF m
  <2>3. /\ IsFiniteSet(WaitingCopies(t)') /\ W \in Nat
        /\ W2 = W + (IF m.task = t THEN 1 ELSE 0)
    BY <1>5, <2>1, <2>2, WaitingAfterAdd DEF W, W2, Typed
  <2>4. ~HoldsCopy(w, t)'
    BY <2>2 DEF HoldsCopy
  <2>5. HoldsCopy(w, t) <=> Task(w) = t
    BY <2>2 DEF HoldsCopy, Serving
  <2>. QED  BY <1>2, <1>3, <1>4, <2>1, <2>2, <2>3, <2>4, <2>5
<1>8. CASE ~DeadLetter(w) /\ ~Republish(w)
  <2>1. UNCHANGED queueVars
    BY <1>8 DEF Handle, Claim, LookupTask, PreDeduct, Prepare, Accepted,
       Refused,
       RefusedForGood, ReplyLost, Refund, MarkFailed, Confirm, ConfirmFails,
       MarkSuccess, Finish, Stamp, Unmark, Ack, AckRepublished, RepublishFails
  <2>2. HoldsCopy(w, t)' => HoldsCopy(w, t)
    <3>1. CASE pc[w] = "ackRepublished"
      <4>1. AckRepublished(w)
        BY <3>1 DEF Handle, Claim, LookupTask, PreDeduct, Prepare, Accepted,
           Refused, RefusedForGood, ReplyLost, Refund, MarkFailed, Confirm,
           ConfirmFails, MarkSuccess, Finish, Stamp, Unmark, Ack, DeadLetter,
           Republish, RepublishFails
      <4>2. pc'[w] \in {"idle", "stopped"}
        BY <4>1 DEF AckRepublished, Drop, Goto, Typed, CallsTyped
      <4>. QED  BY <4>2 DEF HoldsCopy, Serving
    <3>2. CASE pc[w] # "ackRepublished"
      BY <1>1, <3>2 DEF Local, HoldsCopy, Serving
    <3>. QED  BY <3>1, <3>2
  <2>3. /\ IsFiniteSet(WaitingCopies(t)') /\ W \in Nat /\ W2 = W
    BY <1>5, <2>1, QueueUntouched DEF W, W2, queueVars
  <2>. QED  BY <1>2, <1>3, <1>4, <2>1, <2>2, <2>3 DEF queueVars
<1>. QED  BY <1>6, <1>7, <1>8

(* A worker takes a message, or loses the one it has: the broker takes it  *)
(* back, and the fault is counted.                                         *)
LEMMA DeliverCounts ==
    ASSUME Typed, WaitingFinite, NEW w \in Workers, NEW m \in Message,
           Deliver(w, m), NEW t \in Tasks
    PROVE  Counts(t)
<1>. DEFINE W == Waiting(t)  W2 == Waiting(t)'
            C == Cardinality(Carriers(t))  C2 == Cardinality(Carriers(t)')
<1>1. Alone(w)
  BY DEF Alone, Deliver, Goto, Task, Typed, CallsTyped
<1>2. /\ C \in Nat /\ C2 \in Nat
      /\ C2 = C + (IF HoldsCopy(w, t)' THEN 1 ELSE 0)
                - (IF HoldsCopy(w, t) THEN 1 ELSE 0)
  BY <1>1, CarrierCounts
<1>3. IsFiniteSet(WaitingCopies(t)) /\ DataTyped
  BY DEF WaitingFinite, Typed
<1>4. /\ IsFiniteSet(WaitingCopies(t)') /\ W \in Nat
      /\ W2 = W - (IF m.task = t THEN 1 ELSE 0)
  BY <1>3, WaitingAfterTake DEF Deliver
<1>5. ~HoldsCopy(w, t) /\ (HoldsCopy(w, t)' <=> m.task = t)
  BY DEF Deliver, Goto, HoldsCopy, Serving, Task, Typed, CallsTyped
<1>6. /\ dlq' = dlq /\ published' = published /\ faults' = faults
      /\ dlq[t] \in Nat /\ published[t] \in Nat /\ Interruptions \in Nat
      /\ Interruptions' = Interruptions
  BY SmsAssumption DEF Deliver, Typed, DataTyped, Interruptions, FaultKinds
<1>. SUFFICES /\ IsFiniteSet(WaitingCopies(t)')
              /\ (W2 + dlq'[t] + C2) - (W + dlq[t] + C)
                   <= (published'[t] - published[t])
                        + (Interruptions' - Interruptions)
  BY CopiesAre, CopiesAreNext DEF Counts
<1>. HIDE DEF W, W2, C, C2
<1>. QED  BY <1>2, <1>4, <1>5, <1>6

(* A crash or a lost connection adds at most one copy: that of its worker, *)
(* which goes back while its handler may go on.                            *)
LEMMA CutOffCounts ==
    ASSUME Typed, WaitingFinite, NEW w \in Workers,
           ConnectionLost(w) \/ Crash(w), NEW t \in Tasks
    PROVE  Counts(t)
<1>. DEFINE W == Waiting(t)  W2 == Waiting(t)'
            C == Cardinality(Carriers(t))  C2 == Cardinality(Carriers(t)')
<1>1. Alone(w)
  BY DEF Alone, ConnectionLost, Crash, Goto, Task, Typed, CallsTyped
<1>2. /\ C \in Nat /\ C2 \in Nat
      /\ C2 = C + (IF HoldsCopy(w, t)' THEN 1 ELSE 0)
                - (IF HoldsCopy(w, t) THEN 1 ELSE 0)
  BY <1>1, CarrierCounts
<1>3. IsFiniteSet(WaitingCopies(t)) /\ DataTyped
  BY DEF WaitingFinite, Typed
<1>4. ~HoldsCopy(w, t)'
  <2>1. CASE ConnectionLost(w)
    <3>1. hand'[w] = NoMessage \/ hand'[w] = [hand[w] EXCEPT !.open = FALSE]
      BY <2>1 DEF ConnectionLost, Typed, CallsTyped
    <3>2. hand[w] \in Delivery \/ hand[w] = NoMessage
      BY DEF Typed, CallsTyped
    <3>3. hand'[w].open = FALSE
      BY <3>1, <3>2 DEF NoMessage, Delivery
    <3>. QED  BY <3>3 DEF HoldsCopy
  <2>2. CASE Crash(w)
    BY <2>2 DEF Crash, Goto, HoldsCopy, Serving, Typed, CallsTyped
  <2>. QED  BY <2>1, <2>2
<1>5. /\ dlq' = dlq /\ published' = published
      /\ dlq[t] \in Nat /\ published[t] \in Nat /\ Interruptions \in Nat
      /\ Interruptions' = Interruptions + 1
  BY SmsAssumption DEF ConnectionLost, Crash, Fault, Typed, DataTyped,
     Interruptions, FaultKinds
<1>6. /\ IsFiniteSet(WaitingCopies(t)') /\ W \in Nat /\ W2 \in Nat
      /\ W2 <= W + 1
      /\ W2 > W => hand[w] # NoMessage /\ hand[w].open /\ Task(w) = t
  <2>1. CASE hand[w] = NoMessage
    <3>1. ready' = ready
      BY <2>1 DEF ConnectionLost, Crash, Requeue, NoMessage
    <3>. QED  BY <1>3, <3>1, QueueUntouched
  <2>2. CASE hand[w] # NoMessage
    <3>1. Requeue(w)
      BY DEF ConnectionLost, Crash
    <3>2. CASE ready' = ready
      BY <1>3, <3>2, QueueUntouched
    <3>3. ASSUME NEW m \in Message, m.task = Task(w), hand[w].open,
                 ready' = [ready EXCEPT ![m] = ready[m] + 1]
          PROVE  /\ IsFiniteSet(WaitingCopies(t)') /\ W \in Nat
                 /\ W2 = W + (IF Task(w) = t THEN 1 ELSE 0)
      BY <1>3, <3>3, WaitingAfterAdd
    <3>. HIDE DEF W, W2
    <3>. QED  BY <2>2, <3>1, <3>2, <3>3, RequeueCounts
  <2>. QED  BY <2>1, <2>2
<1>. SUFFICES /\ IsFiniteSet(WaitingCopies(t)')
              /\ (W2 + dlq'[t] + C2) - (W + dlq[t] + C)
                   <= (published'[t] - published[t])
                        + (Interruptions' - Interruptions)
  BY CopiesAre, CopiesAreNext DEF Counts
<1>. HIDE DEF W, W2, C, C2
<1>. QED  BY <1>2, <1>4, <1>5, <1>6

(* A publication adds one copy, the end of a delay none.                   *)
LEMMA BrokerCounts ==
    ASSUME Typed, WaitingFinite, NEW t \in Tasks,
           (\E u \in Tasks : Publish(u)) \/ (\E m \in Message : Expire(m))
    PROVE  Counts(t)
<1>. DEFINE W == Waiting(t)  W2 == Waiting(t)'
            C == Cardinality(Carriers(t))  C2 == Cardinality(Carriers(t)')
<1>1. C2 = C /\ C \in Nat
  <2>1. Carriers(t)' = Carriers(t) /\ Carriers(t) \in SUBSET Workers
    BY DEF Publish, Expire, Carriers, HoldsCopy, Serving, Task
  <2>. QED  BY <2>1, WorkerSets
<1>2. IsFiniteSet(WaitingCopies(t)) /\ DataTyped
  BY DEF WaitingFinite, Typed
<1>3. /\ dlq[t] \in Nat /\ published[t] \in Nat /\ Interruptions \in Nat
      /\ Interruptions' = Interruptions
  <2>1. dlq[t] \in Nat /\ published[t] \in Nat /\ Interruptions \in Nat
    BY SmsAssumption DEF Typed, DataTyped, Interruptions, FaultKinds
  <2>2. CASE \E u \in Tasks : Publish(u)
    BY <2>1, <2>2 DEF Publish, Interruptions
  <2>3. CASE \E m \in Message : Expire(m)
    BY <2>1, <2>3 DEF Expire, Fault, Typed, DataTyped, Interruptions,
       FaultKinds
  <2>. QED  BY <2>1, <2>2, <2>3
<1>. SUFFICES /\ IsFiniteSet(WaitingCopies(t)')
              /\ (W2 + dlq'[t] + C2) - (W + dlq[t] + C)
                   <= (published'[t] - published[t])
                        + (Interruptions' - Interruptions)
  BY CopiesAre, CopiesAreNext DEF Counts
<1>4. ASSUME NEW u \in Tasks, Publish(u)
      PROVE  /\ IsFiniteSet(WaitingCopies(t)')
             /\ (W2 + dlq'[t] + C2) - (W + dlq[t] + C)
                  <= (published'[t] - published[t])
                       + (Interruptions' - Interruptions)
  <2>. DEFINE m == [task |-> u, retry |-> 0]
  <2>1. m \in Message /\ m.task = u
    BY SmsAssumption DEF Message
  <2>2. /\ ready' = [ready EXCEPT ![m] = ready[m] + 1] /\ dlq' = dlq
        /\ published' = [published EXCEPT ![u] = published[u] + 1]
    BY <1>4 DEF Publish
  <2>. HIDE DEF m
  <2>3. /\ IsFiniteSet(WaitingCopies(t)') /\ W \in Nat
        /\ W2 = W + (IF u = t THEN 1 ELSE 0)
    BY <1>2, <2>1, <2>2, WaitingAfterAdd
  <2>4. published'[t] = published[t] + (IF u = t THEN 1 ELSE 0)
    BY <2>2 DEF Typed, DataTyped
  <2>. HIDE DEF W, W2, C, C2
  <2>. QED  BY <1>1, <1>3, <2>2, <2>3, <2>4
<1>5. ASSUME NEW m \in Message, Expire(m)
      PROVE  /\ IsFiniteSet(WaitingCopies(t)')
             /\ (W2 + dlq'[t] + C2) - (W + dlq[t] + C)
                  <= (published'[t] - published[t])
                       + (Interruptions' - Interruptions)
  <2>1. /\ ready[m] > 0 /\ ready' = [ready EXCEPT ![m] = ready[m] - 1]
        /\ dlq' = [dlq EXCEPT ![m.task] = dlq[m.task] + 1]
        /\ published' = published /\ m.task \in Tasks
    BY <1>5 DEF Expire, Message
  <2>2. /\ IsFiniteSet(WaitingCopies(t)') /\ W \in Nat
        /\ W2 = W - (IF m.task = t THEN 1 ELSE 0)
    BY <1>2, <2>1, WaitingAfterTake
  <2>3. dlq'[t] = dlq[t] + (IF m.task = t THEN 1 ELSE 0)
    BY <2>1 DEF Typed, DataTyped
  <2>. HIDE DEF W, W2, C, C2
  <2>. QED  BY <1>1, <1>3, <2>1, <2>2, <2>3
<1>. QED  BY <1>4, <1>5

(* A worker that starts, stops or is told to stop between two messages     *)
(* changes nothing.                                                        *)
LEMMA OthersCount ==
    ASSUME Typed, WaitingFinite, NEW w \in Workers,
           Shutdown(w) \/ StopCancelled(w) \/ Restart(w), NEW t \in Tasks
    PROVE  Counts(t)
<1>1. Carriers(t)' = Carriers(t) /\ Carriers(t) \in SUBSET Workers
  BY DEF Shutdown, StopCancelled, Restart, Goto, Carriers, HoldsCopy, Serving,
     Task, Typed, CallsTyped
<1>2. Cardinality(Carriers(t)) \in Nat
  BY <1>1, WorkerSets
<1>3. /\ UNCHANGED queueVars
      /\ dlq[t] \in Nat /\ published[t] \in Nat /\ Interruptions \in Nat
      /\ Interruptions' = Interruptions
  BY SmsAssumption DEF Shutdown, StopCancelled, Restart, Fault, Typed,
     DataTyped, Interruptions, FaultKinds
<1>4. /\ IsFiniteSet(WaitingCopies(t)')
      /\ Waiting(t) \in Nat /\ Waiting(t)' = Waiting(t)
  BY <1>3, QueueUntouched DEF WaitingFinite, queueVars
<1>5. Copies(t)' = Copies(t) /\ Copies(t) \in Nat
  BY <1>1, <1>2, <1>3, <1>4, CopiesAre, CopiesAreNext DEF queueVars
<1>. QED  BY <1>3, <1>4, <1>5 DEF Counts, queueVars

(* No step adds a copy that nothing accounts for.                          *)
LEMMA CopiesStep ==
    ASSUME Typed, WaitingFinite, CopiesBounded, [SmsNext]_smsVars
    PROVE  WaitingFinite' /\ CopiesBounded'
<1>. SUFFICES ASSUME NEW t \in Tasks
              PROVE  /\ IsFiniteSet(WaitingCopies(t)')
                     /\ Copies(t)' <= published'[t] + faults'["crash"] + faults'["drop"]
  BY DEF WaitingFinite, CopiesBounded
<1>1. Counts(t) \/ UNCHANGED smsVars
  BY HandleCounts, DeliverCounts, CutOffCounts, BrokerCounts, OthersCount
     DEF SmsNext, Consume
<1>2. CASE Counts(t)
  <2>1. Typed' /\ IsFiniteSet(WaitingCopies(t))
    BY TypedStep DEF WaitingFinite
  <2>2. Copies(t) \in Int /\ Copies(t)' \in Int
    <3>1. Carriers(t) \in SUBSET Workers /\ Carriers(t)' \in SUBSET Workers
      BY DEF Carriers
    <3>2. Cardinality(Carriers(t)) \in Nat /\ Cardinality(Carriers(t)') \in Nat
      BY <3>1, WorkerSets
    <3>3. Waiting(t) \in Nat /\ Waiting(t)' \in Nat
      BY <1>2, <2>1, FS_CardinalityType DEF Counts, Waiting
    <3>4. dlq[t] \in Nat /\ dlq'[t] \in Nat
      BY <2>1 DEF Typed, DataTyped
    <3>. QED  BY <3>2, <3>3, <3>4, CopiesAre, CopiesAreNext
  <2>3. /\ published[t] \in Nat /\ published'[t] \in Nat
        /\ faults["crash"] \in Nat /\ faults["drop"] \in Nat
        /\ faults'["crash"] \in Nat /\ faults'["drop"] \in Nat
    BY <2>1, SmsAssumption DEF Typed, DataTyped, FaultKinds
  <2>4. Copies(t) <= published[t] + faults["crash"] + faults["drop"]
    BY DEF CopiesBounded
  <2>. QED  BY <1>2, <2>2, <2>3, <2>4 DEF Counts, Interruptions
<1>3. CASE UNCHANGED smsVars
  BY <1>3 DEF smsVars, queueVars, CopiesBounded, WaitingFinite, Copies,
     Waiting,
     WaitingCopies, Serving, Task
<1>. QED  BY <1>1, <1>2, <1>3

(* A handler gives up its copy of a message only for another one, or by    *)
(* acknowledging it.                                                       *)
LEMMA HandleKeepsCopy ==
    ASSUME Typed, NEW w \in Workers, Handle(w), NEW t \in Tasks, HasCopy(t),
           ~(Ack(w) /\ Task(w) = t)
    PROVE  HasCopy(t)'
<1>1. Local(w) /\ Task(w) \in Tasks
  BY HandleIsLocal, HandlersHaveMessages DEF Local, Typed
<1>2. CASE DeadLetter(w)
  <2>1. /\ ready' = ready
        /\ dlq' = [dlq EXCEPT ![Task(w)] = @ + (IF hand[w].open THEN 1 ELSE 0)]
    BY <1>2 DEF DeadLetter
  <2>2. dlq[t] > 0 => dlq'[t] > 0
    BY <1>1, <2>1 DEF Typed, DataTyped
  <2>3. HoldsCopy(w, t) => dlq'[t] > 0
    BY <1>1, <2>1 DEF Typed, DataTyped, HoldsCopy, Serving
  <2>4. \A v \in Workers : v # w /\ HoldsCopy(v, t) => HoldsCopy(v, t)'
    BY <1>1 DEF Local, HoldsCopy, Serving
  <2>. QED  BY <2>1, <2>2, <2>3, <2>4 DEF HasCopy
<1>3. CASE Republish(w)
  <2>. DEFINE m == NextAttempt(hand[w])
  <2>1. m \in Message /\ m.task = Task(w)
    BY <1>1, <1>3, HandlersHaveMessages, SmsAssumption
       DEF Republish, NextAttempt, Message, Local, Typed, Task
  <2>2. ready' = [ready EXCEPT ![m] = ready[m] + 1] /\ dlq' = dlq
    BY <1>3 DEF Republish
  <2>. HIDE DEF m
  <2>3. /\ ready'[m] > 0
        /\ \A n \in Message : ready[n] > 0 => ready'[n] > 0
    BY <2>1, <2>2 DEF Typed, DataTyped
  <2>4. HoldsCopy(w, t) => m.task = t
    BY <2>1 DEF HoldsCopy, Serving
  <2>5. \A v \in Workers : v # w /\ HoldsCopy(v, t) => HoldsCopy(v, t)'
    BY <1>1 DEF Local, HoldsCopy, Serving
  <2>. QED  BY <2>1, <2>2, <2>3, <2>4, <2>5 DEF HasCopy
<1>4. CASE ~DeadLetter(w) /\ ~Republish(w)
  <2>1. UNCHANGED queueVars
    BY <1>4 DEF Handle, Claim, LookupTask, PreDeduct, Prepare, Accepted,
       Refused,
       RefusedForGood, ReplyLost, Refund, MarkFailed, Confirm, ConfirmFails,
       MarkSuccess, Finish, Stamp, Unmark, Ack, AckRepublished, RepublishFails
  <2>2. HoldsCopy(w, t) => HoldsCopy(w, t)'
    <3>. SUFFICES ASSUME HoldsCopy(w, t) PROVE HoldsCopy(w, t)'
      OBVIOUS
    <3>1. ~Ack(w) /\ ~AckRepublished(w) /\ ~RepublishFails(w)
      BY DEF AckRepublished, RepublishFails, HoldsCopy, Serving
    <3>2. pc'[w] \notin {"idle", "stopped", "ackRepublished"}
      BY <1>4, <3>1 DEF Handle, Claim, LookupTask, PreDeduct, Prepare,
         Accepted,
         Refused, RefusedForGood, ReplyLost, Refund, MarkFailed, Confirm,
         ConfirmFails, MarkSuccess, Finish, Stamp, Unmark, AfterFinish, Goto,
         Typed, CallsTyped
    <3>. QED  BY <1>1, <3>2 DEF Local, HoldsCopy, Serving
  <2>3. \A v \in Workers : v # w /\ HoldsCopy(v, t) => HoldsCopy(v, t)'
    BY <1>1 DEF Local, HoldsCopy, Serving
  <2>. QED  BY <2>1, <2>2, <2>3 DEF HasCopy, queueVars
<1>. QED  BY <1>2, <1>3, <1>4

(* While nothing fails, whoever is past the mark or lets a message go      *)
(* without an outcome leaves the mark behind.                              *)
LEMMA HandleKeepsMarks ==
    ASSUME Typed, Locked, Marked, NEW w \in Workers, Handle(w),
           faults["redis"] = 0, faults'["redis"] = 0,
           faults["db"] = 0, faults'["db"] = 0
    PROVE  /\ Marked'
           /\ \A t \in Tasks :
                status'[t] = "pending"
                  => /\ status[t] = "pending"
                     /\ mark[t] = "processing" => mark'[t] = "processing"
<1>1. \A v \in Workers : pc[v] \notin {"idle", "stopped"} => Task(v) \in Tasks
  BY HandlersHaveMessages DEF Typed
<1>2. Local(w)
  BY HandleIsLocal
<1>. USE <1>1, <1>2 DEF Local, Typed, DataTyped, CallsTyped, CallsInOrder,
     VerdictsAt, Locked, Marked, Owning, Sending, InSendSMS, Goto, Decide,
     Works, Fails, Fault, FaultKinds, taskVars, ghostVars
<1>3. CASE Claim(w)
  BY <1>3 DEF Claim, Claimable
<1>4. CASE LookupTask(w)
  BY <1>4 DEF LookupTask
<1>5. CASE PreDeduct(w)
  BY <1>5 DEF PreDeduct
<1>6. CASE Prepare(w)
  BY <1>6 DEF Prepare
<1>7. CASE Accepted(w) \/ Refused(w)
  BY <1>7 DEF Accepted, Refused
<1>8. CASE RefusedForGood(w)
  BY <1>8 DEF RefusedForGood
<1>9. CASE ReplyLost(w)
  BY <1>9 DEF ReplyLost
<1>10. CASE Refund(w)
  BY <1>10 DEF Refund
<1>11. CASE MarkFailed(w)
  BY <1>11 DEF MarkFailed
<1>12. CASE MarkSuccess(w)
  BY <1>12 DEF MarkSuccess
<1>13. CASE Confirm(w)
  BY <1>13 DEF Confirm
<1>14. CASE ConfirmFails(w)
  BY <1>14 DEF ConfirmFails
<1>15. CASE Finish(w)
  BY <1>15 DEF Finish, AfterFinish
<1>16. CASE Stamp(w)
  BY <1>16 DEF Stamp
<1>17. CASE Unmark(w)
  BY <1>17 DEF Unmark
<1>18. CASE Republish(w)
  BY <1>18 DEF Republish
<1>19. CASE Ack(w) \/ AckRepublished(w) \/ RepublishFails(w)
  BY <1>19 DEF Ack, AckRepublished, RepublishFails, Drop
<1>20. CASE DeadLetter(w)
  BY <1>20 DEF DeadLetter, Drop
<1>. QED  BY <1>3, <1>4, <1>5, <1>6, <1>7, <1>8, <1>9, <1>10, <1>11, <1>12,
     <1>13, <1>14, <1>15, <1>16, <1>17, <1>18, <1>19, <1>20 DEF Handle

(* Around the handlers a copy only moves: from the queue to a worker or to *)
(* the dead letters, and back when a worker is cut off.                    *)
LEMMA OthersKeepCopy ==
    ASSUME Typed, NEW t \in Tasks, HasCopy(t), [SmsNext]_smsVars,
           \A w \in Workers : ~Handle(w)
    PROVE  HasCopy(t)'
<1>1. ASSUME NEW w \in Workers, NEW m \in Message, Deliver(w, m)
      PROVE  HasCopy(t)'
  <2>1. /\ ready' = [ready EXCEPT ![m] = ready[m] - 1] /\ dlq' = dlq
        /\ \A v \in Workers : v # w => pc'[v] = pc[v] /\ hand'[v] = hand[v]
        /\ pc[w] = "idle" /\ ready \in [Message -> Nat]
    BY <1>1 DEF Deliver, Goto, Typed, CallsTyped, DataTyped
  <2>2. m.task = t => HoldsCopy(w, t)'
    BY <1>1 DEF Deliver, Goto, HoldsCopy, Serving, Task, Typed, CallsTyped
  <2>3. \A n \in Message : n.task = t /\ ready[n] > 0 /\ m.task # t => ready'[n] > 0
    BY <2>1
  <2>4. \A v \in Workers : HoldsCopy(v, t) => HoldsCopy(v, t)'
    BY <2>1 DEF HoldsCopy, Serving, Task
  <2>. QED  BY <2>1, <2>2, <2>3, <2>4 DEF HasCopy
<1>2. ASSUME NEW w \in Workers, ConnectionLost(w) \/ Crash(w)
      PROVE  HasCopy(t)'
  <2>1. /\ dlq' = dlq
        /\ \A v \in Workers : v # w => pc'[v] = pc[v] /\ hand'[v] = hand[v]
    BY <1>2 DEF ConnectionLost, Crash, Goto, Typed, CallsTyped
  <2>2. \A v \in Workers : v # w /\ HoldsCopy(v, t) => HoldsCopy(v, t)'
    BY <2>1 DEF HoldsCopy, Serving, Task
  <2>3. CASE hand[w] = NoMessage
    <3>1. ready' = ready
      BY <1>2, <2>3 DEF ConnectionLost, Crash, Requeue, NoMessage
    <3>2. ~HoldsCopy(w, t)
      BY <2>3 DEF HoldsCopy, Serving, Typed, CallsTyped
    <3>. QED  BY <2>1, <2>2, <3>1, <3>2 DEF HasCopy
  <2>4. CASE hand[w] # NoMessage
    <3>1. Requeue(w)
      BY <1>2 DEF ConnectionLost, Crash
    <3>2. CASE ~hand[w].open /\ ready' = ready
      <4>1. ~HoldsCopy(w, t)
        BY <3>2 DEF HoldsCopy
      <4>. QED  BY <2>1, <2>2, <3>2, <4>1 DEF HasCopy
    <3>3. ASSUME NEW m \in Message, m.task = Task(w),
                 ready' = [ready EXCEPT ![m] = ready[m] + 1]
          PROVE  HasCopy(t)'
      <4>1. /\ ready'[m] > 0
            /\ \A n \in Message : ready[n] > 0 => ready'[n] > 0
        BY <3>3 DEF Typed, DataTyped
      <4>2. HoldsCopy(w, t) => m.task = t
        BY <3>3 DEF HoldsCopy, Serving
      <4>. QED  BY <2>1, <2>2, <4>1, <4>2 DEF HasCopy
    <3>. QED  BY <2>4, <3>1, <3>2, <3>3, RequeueCounts
  <2>. QED  BY <2>3, <2>4
<1>3. ASSUME NEW m \in Message, Expire(m)
      PROVE  HasCopy(t)'
  <2>1. /\ ready' = [ready EXCEPT ![m] = ready[m] - 1]
        /\ dlq' = [dlq EXCEPT ![m.task] = dlq[m.task] + 1]
        /\ UNCHANGED <<pc, hand>> /\ m.task \in Tasks
    BY <1>3 DEF Expire, Message
  <2>2. /\ dlq[t] > 0 => dlq'[t] > 0
        /\ m.task = t => dlq'[t] > 0
        /\ \A n \in Message : n.task = t /\ ready[n] > 0 /\ m.task # t => ready'[n] > 0
    BY <2>1 DEF Typed, DataTyped
  <2>3. \A v \in Workers : HoldsCopy(v, t) => HoldsCopy(v, t)'
    BY <2>1 DEF HoldsCopy, Serving, Task
  <2>. QED  BY <2>2, <2>3 DEF HasCopy
<1>4. ASSUME NEW u \in Tasks, Publish(u)
      PROVE  HasCopy(t)'
  <2>. DEFINE m == [task |-> u, retry |-> 0]
  <2>1. ready' = [ready EXCEPT ![m] = ready[m] + 1] /\ UNCHANGED <<dlq, pc, hand>>
    BY <1>4 DEF Publish
  <2>2. m \in Message
    BY SmsAssumption DEF Message
  <2>. HIDE DEF m
  <2>3. \A n \in Message : ready[n] > 0 => ready'[n] > 0
    BY <2>1, <2>2 DEF Typed, DataTyped
  <2>4. \A v \in Workers : HoldsCopy(v, t) => HoldsCopy(v, t)'
    BY <2>1 DEF HoldsCopy, Serving, Task
  <2>. QED  BY <2>1, <2>3, <2>4 DEF HasCopy
<1>5. ASSUME NEW w \in Workers, Shutdown(w) \/ StopCancelled(w) \/ Restart(w)
      PROVE  HasCopy(t)'
  <2>1. UNCHANGED <<ready, dlq>>
    BY <1>5 DEF Shutdown, StopCancelled, Restart, queueVars
  <2>2. \A v \in Workers : HoldsCopy(v, t) => HoldsCopy(v, t)'
    BY <1>5 DEF Shutdown, StopCancelled, Restart, Goto, HoldsCopy, Serving,
       Task,
       Typed, CallsTyped
  <2>. QED  BY <2>1, <2>2 DEF HasCopy
<1>6. CASE UNCHANGED smsVars
  BY <1>6 DEF smsVars, queueVars, HasCopy, HoldsCopy, Serving, Task
<1>. QED  BY <1>1, <1>2, <1>3, <1>4, <1>5, <1>6 DEF SmsNext, Consume

(* No step loses a task without a mark.                                    *)
LEMMA KeptStep ==
    ASSUME Typed, MarkIsLock, NothingLost, [SmsNext]_smsVars
    PROVE  NothingLost'
<1>. SUFFICES ASSUME faults'["redis"] + faults'["db"] = 0
              PROVE  Kept'
  BY DEF NothingLost
<1>1. /\ faults["redis"] = 0 /\ faults["db"] = 0
      /\ faults'["redis"] = 0 /\ faults'["db"] = 0
  BY TypedStep DEF FaultsGrow, FaultKinds, Typed, DataTyped
<1>2. Locked /\ Kept
  BY <1>1 DEF MarkIsLock, NothingLost
<1>3. ASSUME NEW w \in Workers, Handle(w)
      PROVE  Kept'
  <2>1. /\ Marked'
        /\ \A t \in Tasks :
             status'[t] = "pending"
               => /\ status[t] = "pending"
                  /\ mark[t] = "processing" => mark'[t] = "processing"
    BY <1>1, <1>2, <1>3, HandleKeepsMarks DEF Kept
  <2>2. ASSUME NEW t \in Tasks, status'[t] = "pending", mark'[t] # "processing"
        PROVE  HasCopy(t)'
    <3>1. status[t] = "pending" /\ mark[t] # "processing" /\ HasCopy(t)
      BY <1>2, <2>1, <2>2 DEF Kept
    <3>2. ~(Ack(w) /\ Task(w) = t)
      BY <1>2, <3>1 DEF Ack, Kept, Marked
    <3>. QED  BY <1>3, <3>1, <3>2, HandleKeepsCopy
  <2>. QED  BY <2>1, <2>2 DEF Kept
<1>4. CASE \A w \in Workers : ~Handle(w)
  <2>1. Background
    BY <1>4, BackgroundStep
  <2>2. Marked'
    BY <1>2, <2>1 DEF Background, Rests, Stays, Kept, Marked, taskVars
  <2>3. \A t \in Tasks : HasCopy(t) => HasCopy(t)'
    BY <1>4, OthersKeepCopy
  <2>. QED  BY <1>2, <2>1, <2>2, <2>3 DEF Kept, Background, taskVars
<1>. QED  BY <1>3, <1>4

(* At the start each message is published and waits.                       *)
LEMMA MessagesInit == SmsInit => WaitingFinite /\ CopiesBounded /\ NothingLost
<1>. SUFFICES ASSUME SmsInit PROVE WaitingFinite /\ CopiesBounded /\ NothingLost
  OBVIOUS
<1>1. ASSUME NEW t \in Tasks
      PROVE  /\ IsFiniteSet(WaitingCopies(t)) /\ Copies(t) = 1
             /\ HasCopy(t)
  <2>. DEFINE m == [task |-> t, retry |-> 0]
  <2>1. m \in Message /\ m.task = t /\ ready[m] = 1
    BY SmsAssumption DEF Message, SmsInit
  <2>2. \A n \in Message : n.task = t /\ n # m => ready[n] = 0
    BY DEF Message, SmsInit
  <2>3. WaitingCopies(t) = {<<m, 1>>}
    <3>1. \A c : c \in WaitingCopies(t) <=>
                   \E n \in Message : n.task = t /\ \E i \in 1..ready[n] : c = <<n, i>>
      BY WaitingCopy
    <3>. HIDE DEF m
    <3>. QED  BY <2>1, <2>2, <3>1
  <2>4. IsFiniteSet(WaitingCopies(t)) /\ Waiting(t) = 1
    BY <2>3, FS_Singleton DEF Waiting
  <2>5. Carriers(t) = {}
    BY DEF SmsInit, Carriers, HoldsCopy, Serving
  <2>6. Cardinality(Carriers(t)) = 0
    BY <2>5, FS_EmptySet
  <2>7. dlq[t] = 0
    BY DEF SmsInit
  <2>8. Copies(t) = 1
    BY <2>4, <2>6, <2>7, CopiesAre
  <2>. QED  BY <2>1, <2>4, <2>8 DEF HasCopy
<1>2. CopiesBounded
  BY <1>1 DEF SmsInit, CopiesBounded, FaultKinds
<1>3. NothingLost
  BY <1>1 DEF SmsInit, NothingLost, Kept, Marked
<1>. QED  BY <1>1, <1>2, <1>3 DEF WaitingFinite

(* The broker's side: messages are not multiplied, and a pending task      *)
(* whose messages are gone has left its mark.                              *)
MessagesInv == WaitingFinite /\ CopiesBounded /\ NothingLost

(* In every state the copies are accounted for and nothing is lost without *)
(* a mark.                                                                 *)
THEOREM MessagesInvariance == SmsSpec => []MessagesInv
<1>1. SmsInit => MessagesInv
  BY MessagesInit DEF MessagesInv
<1>2. Typed /\ MarkIsLock /\ MessagesInv /\ [SmsNext]_smsVars => MessagesInv'
  BY CopiesStep, KeptStep DEF MessagesInv
<1>. QED  BY <1>1, <1>2, PipelineTyped, MarkLocks, PTL DEF SmsSpec

(* When the pipeline is done with a task nobody has a copy, but perhaps    *)
(* the dead letters.                                                       *)
LEMMA QuietHasNoCopy ==
    ASSUME Typed, WaitingFinite, NEW t \in Tasks, Quiet(t), dlq[t] = 0
    PROVE  ~HasCopy(t)
<1>1. \A m \in Message : m.task = t => ready[m] = 0
  BY NoneWaiting DEF Typed, WaitingFinite, Quiet
<1>2. \A w \in Workers : ~HoldsCopy(w, t)
  BY DEF Quiet, HoldsCopy
<1>. QED  BY <1>1, <1>2 DEF HasCopy

(* No message is multiplied, but for one copy for each crash or lost       *)
(* connection, and none disappears without leaving its mark.               *)
THEOREM MessagesKept == SmsSpec => []MessagesAreKept
<1>1. Typed /\ MessagesInv => MessagesAreKept
  <2>. SUFFICES ASSUME Typed, MessagesInv PROVE MessagesAreKept
    OBVIOUS
  <2>1. ASSUME faults["redis"] + faults["db"] = 0, NEW t \in Tasks, Quiet(t),
               status[t] = "pending", dlq[t] = 0
        PROVE  mark[t] = "processing"
    BY <2>1, QuietHasNoCopy DEF MessagesInv, NothingLost, Kept
  <2>. QED  BY <2>1 DEF MessagesInv, MessagesAreKept, LossLeavesMark
<1>. QED  BY <1>1, PipelineTyped, MessagesInvariance, PTL

-----------------------------------------------------------------------------
(* The rows when nothing has failed                                        *)

(* While nothing fails no call fails.                                      *)
LEMMA CallsWork ==
    ASSUME Typed, NothingFailed, NothingFailed', NEW w \in Workers, ~cancelled[w],
           NEW kind \in FaultKinds
    PROVE  ~Fails(w, kind) /\ ~Fault(kind)
BY DEF Typed, DataTyped, NothingFailed, Fails, Fault, FaultKinds

(* A call that works leaves no trace of a failure.                         *)
LEMMA HandleLeavesNoTrace ==
    ASSUME Typed, NothingFailed, NothingFailed', NoTrace,
           NEW w \in Workers, Handle(w)
    PROVE  NoTrace'
<1>1. Local(w)
  BY HandleIsLocal
<1>2. hand'[w] = NoMessage \/ hand'[w] = hand[w]
  BY <1>1, TypedStep DEF Local, SmsNext, Consume, Typed, CallsTyped
<1>3. ~cancelled[w]
  BY DEF NoTrace
<1>4. ~ConfirmFails(w)
  BY <1>3, CallsWork DEF ConfirmFails, FaultKinds
<1>5. leaked' = leaked
  <2>1. CASE PreDeduct(w) \/ Refund(w) \/ Confirm(w)
    BY <1>3, <2>1, CallsWork DEF FaultKinds, PreDeduct, Refund, Confirm,
       quotaVars,
       Wallet!PreDeductRead, Wallet!PreDeductCommit, Wallet!RefundRead,
       Wallet!RefundCommit, Wallet!ConfirmRead, Wallet!ConfirmCommit,
       Wallet!ReadWallet, Wallet!Rollback
  <2>2. CASE ~(PreDeduct(w) \/ Refund(w) \/ Confirm(w))
    BY <1>4, <2>2 DEF Handle, Claim, LookupTask, Prepare, Accepted, Refused,
       RefusedForGood, ReplyLost, MarkFailed, MarkSuccess, Finish, Stamp,
       Unmark,
       Ack, DeadLetter, Republish, AckRepublished, RepublishFails, quotaVars
  <2>. QED  BY <2>1, <2>2
<1>. QED  BY <1>1, <1>2, <1>5 DEF Local, NoTrace

(* While nothing fails, a handler keeps what is sent, charged and recorded *)
(* together.                                                               *)
LEMMA HandleIsExact ==
    ASSUME Typed, Locked, Standing, Exact, NEW w \in Workers, Handle(w),
           ~cancelled[w], NothingFailed, NothingFailed'
    PROVE  Exact'
<1>1. \A v \in Workers : pc[v] \notin {"idle", "stopped"} => Task(v) \in Tasks
  BY HandlersHaveMessages DEF Typed
<1>2. Local(w)
  BY HandleIsLocal
<1>3. /\ ~Fails(w, "redis") /\ ~Fails(w, "db") /\ ~Fault("reply")
  BY CallsWork DEF FaultKinds
<1>. USE <1>1, <1>2, <1>3 DEF Local, Typed, DataTyped, CallsTyped,
     CallsInOrder,
     VerdictsAt, Locked, Standing, Exact, GivenUp, Spent, Unspent, Owning,
     Sending,
     InSendSMS, Goto, Decide, Works, queueVars, taskVars, ghostVars
<1>4. CASE Claim(w)
  BY <1>4 DEF Claim, Claimable
<1>5. CASE LookupTask(w)
  BY <1>5 DEF LookupTask
<1>6. CASE PreDeduct(w)
  BY <1>6, SMTT(30) DEF PreDeduct
<1>7. CASE Prepare(w)
  BY <1>7 DEF Prepare
<1>8. CASE Accepted(w)
  BY <1>8 DEF Accepted
<1>9. CASE Refused(w)
  BY <1>9 DEF Refused
<1>10. CASE RefusedForGood(w)
  BY <1>10 DEF RefusedForGood
<1>11. CASE ReplyLost(w)
  BY <1>11 DEF ReplyLost
<1>12. CASE Refund(w)
  BY <1>12 DEF Refund
<1>13. CASE MarkFailed(w)
  BY <1>13, SMTT(30) DEF MarkFailed
<1>14. CASE MarkSuccess(w)
  BY <1>14, SMTT(30) DEF MarkSuccess
<1>15. CASE Confirm(w)
  BY <1>15, SMTT(30) DEF Confirm
<1>16. CASE ConfirmFails(w)
  BY <1>16 DEF ConfirmFails
<1>17. CASE Finish(w)
  BY <1>17 DEF Finish, AfterFinish
<1>18. CASE Stamp(w)
  BY <1>18 DEF Stamp
<1>19. CASE Unmark(w)
  BY <1>19 DEF Unmark
<1>20. CASE Republish(w)
  BY <1>20 DEF Republish
<1>21. CASE Ack(w)
  BY <1>21 DEF Ack, Drop
<1>23. CASE AckRepublished(w)
  BY <1>23 DEF AckRepublished, Drop
<1>24. CASE RepublishFails(w)
  BY <1>24 DEF RepublishFails, Drop
<1>22. CASE DeadLetter(w)
  BY <1>22 DEF DeadLetter, Drop
<1>. QED  BY <1>4, <1>5, <1>6, <1>7, <1>8, <1>9, <1>10, <1>11, <1>12, <1>13,
     <1>14, <1>15, <1>16, <1>17, <1>18, <1>19, <1>20, <1>21, <1>22, <1>23,
          <1>24 DEF Handle

(* While nothing fails, a mark without an outcome has its owner at work.   *)
LEMMA HandleOwnsMarks ==
    ASSUME Typed, Locked, MarksOwned, NEW w \in Workers, Handle(w),
           ~cancelled[w], NothingFailed, NothingFailed'
    PROVE  MarksOwned'
<1>1. Local(w) /\ Task(w) \in Tasks
  BY HandleIsLocal, HandlersHaveMessages DEF Local, Typed
<1>2. ~Fails(w, "redis") /\ ~Fails(w, "db") /\ ~Fault("reply")
  BY CallsWork DEF FaultKinds
<1>3. /\ Owning(w) => Owning(w)' \/ mark'[Task(w)] # "processing"
      /\ \A t \in Tasks : mark'[t] = "processing"
           => mark[t] = "processing" \/ (Owning(w)' /\ Task(w) = t)
  <2>. USE <1>1, <1>2 DEF Local, Typed, DataTyped, CallsTyped, Owning, Sending,
       InSendSMS, Goto, Works
  <2>1. CASE Claim(w)
    BY <2>1 DEF Claim, Claimable
  <2>2. CASE LookupTask(w)
    BY <2>2 DEF LookupTask
  <2>3. CASE PreDeduct(w)
    BY <2>3 DEF PreDeduct
  <2>4. CASE Prepare(w) \/ Accepted(w)
    BY <2>4 DEF Prepare, Accepted
  <2>5. CASE Refused(w) \/ RefusedForGood(w) \/ ReplyLost(w)
    BY <2>5 DEF Refused, RefusedForGood, ReplyLost
  <2>6. CASE Refund(w)
    BY <2>6 DEF Refund
  <2>7. CASE MarkFailed(w) \/ MarkSuccess(w)
    BY <2>7 DEF MarkFailed, MarkSuccess
  <2>8. CASE Confirm(w) \/ ConfirmFails(w)
    BY <2>8 DEF Confirm, ConfirmFails
  <2>9. CASE Finish(w)
    BY <2>9 DEF Finish, AfterFinish
  <2>10. CASE Stamp(w)
    BY <2>10 DEF Stamp
  <2>11. CASE Unmark(w)
    BY <2>11 DEF Unmark
  <2>12. CASE Republish(w)
    BY <2>12 DEF Republish
  <2>13. CASE Ack(w) \/ AckRepublished(w) \/ RepublishFails(w)
    BY <2>13 DEF Ack, AckRepublished, RepublishFails, Drop
  <2>14. CASE DeadLetter(w)
    BY <2>14 DEF DeadLetter, Drop
  <2>. QED  BY <2>1, <2>2, <2>3, <2>4, <2>5, <2>6, <2>7, <2>8, <2>9, <2>10,
       <2>11, <2>12, <2>13, <2>14 DEF Handle
<1>4. \A v \in Workers : v # w /\ Owning(v) => Owning(v)' /\ Task(v)' = Task(v)
  BY <1>1 DEF Local, Owning, Sending
<1>5. Owning(w)' => Task(w)' = Task(w)
  BY <1>1 DEF Local, Owning, Sending, InSendSMS
<1>. QED  BY <1>3, <1>4, <1>5 DEF MarksOwned

(* What goes on around the handlers when nothing fails: messages are       *)
(* published and delivered, and no handler is cut off.                     *)
LEMMA OthersAreExact ==
    ASSUME Typed, NothingFailed, NothingFailed', NoTrace, Exact, MarksOwned,
           [SmsNext]_smsVars, \A w \in Workers : ~Handle(w)
    PROVE  NoTrace' /\ Exact' /\ MarksOwned'
<1>1. \A k \in FaultKinds : ~Fault(k)
  BY DEF Typed, DataTyped, NothingFailed, Fault
<1>2. Background
  BY BackgroundStep
<1>3. dlq' = dlq /\ leaked' = leaked
  BY <1>1 DEF SmsNext, Consume, Deliver, StopCancelled, Restart,
     ConnectionLost,
     Crash, Shutdown, Publish, Expire, smsVars, queueVars, quotaVars,
     FaultKinds
<1>4. \A w \in Workers :
        /\ ~cancelled'[w] /\ (hand'[w] # NoMessage => hand'[w].open)
        /\ pc[w] \notin {"idle", "stopped"} => pc'[w] = pc[w]
  <2>. USE DEF NoTrace, Typed, CallsTyped, Goto
  <2>1. ASSUME NEW v \in Workers, NEW m \in Message, Deliver(v, m)
        PROVE  <1>4!:
    BY <2>1 DEF Deliver
  <2>2. ASSUME NEW v \in Workers, StopCancelled(v) \/ Restart(v)
        PROVE  <1>4!:
    BY <2>2 DEF StopCancelled, Restart
  <2>3. ASSUME NEW v \in Workers, ConnectionLost(v) \/ Crash(v) \/ Shutdown(v)
        PROVE  FALSE
    BY <1>1, <2>3 DEF ConnectionLost, Crash, Shutdown, FaultKinds
  <2>4. CASE (\E t \in Tasks : Publish(t)) \/ (\E m \in Message : Expire(m))
    BY <2>4 DEF Publish, Expire
  <2>5. CASE UNCHANGED smsVars
    BY <2>5 DEF smsVars
  <2>. QED  BY <2>1, <2>2, <2>3, <2>4, <2>5 DEF SmsNext, Consume
<1>5. \A w \in Workers : Stays(w) \/ pc'[w] \in {"idle", "stopped", "claim"}
  BY <1>2 DEF Background, Rests
<1>6. \A w \in Workers : pc[w] \notin {"idle", "stopped", "claim"} => Stays(w)
  BY <1>4, <1>5
<1>7. NoTrace'
  BY <1>3, <1>4 DEF NoTrace
<1>8. Exact'
  BY <1>2, <1>3, <1>5, <1>6 DEF Background, Stays, Exact, GivenUp, Spent,
     Unspent,
     taskVars, ghostVars
<1>9. MarksOwned'
  BY <1>2, <1>4, <1>6 DEF Background, Stays, MarksOwned, Owning, Sending,
     InSendSMS
<1>. QED  BY <1>7, <1>8, <1>9

(* Every step keeps the rows exact while nothing has failed.               *)
LEMMA ExactStep ==
    ASSUME Typed, MarkIsLock, OutcomesStand, OutcomesExact, [SmsNext]_smsVars
    PROVE  OutcomesExact'
<1>. SUFFICES ASSUME NothingFailed'
              PROVE  NoTrace' /\ Exact' /\ MarksOwned'
  BY DEF OutcomesExact
<1>1. NothingFailed
  BY TypedStep DEF FaultsGrow, NothingFailed, Typed, DataTyped
<1>2. NoTrace /\ Exact /\ MarksOwned /\ Locked /\ Standing
  BY <1>1 DEF OutcomesExact, MarkIsLock, OutcomesStand, NothingFailed,
     FaultKinds
<1>3. ASSUME NEW w \in Workers, Handle(w)
      PROVE  NoTrace' /\ Exact' /\ MarksOwned'
  <2>1. ~cancelled[w]
    BY <1>2 DEF NoTrace
  <2>. QED  BY <1>1, <1>2, <1>3, <2>1, HandleLeavesNoTrace, HandleIsExact,
         HandleOwnsMarks
<1>. QED  BY <1>1, <1>2, <1>3, OthersAreExact

(* At the start nothing is sent, charged or marked.                        *)
LEMMA ExactInit == SmsInit => OutcomesExact
BY DEF SmsInit, OutcomesExact, NoTrace, Exact, MarksOwned, GivenUp, Spent,
   Unspent,
   Wallet!QuotaInit

(* When nobody is at work on any message nothing is frozen but what was    *)
(* abandoned.                                                              *)
LEMMA IdleHoldsNothing ==
    ASSUME Typed, WalletSound, leaked = 0,
           \A w \in Workers : pc[w] \in {"idle", "stopped"}
    PROVE  wallet.frozen = 0
<1>1. \A w \in Workers : stage[w] = "idle"
  BY DEF Typed, CallsTyped, CallsInOrder, StagesAt
<1>2. WalletProofs!Holders = {}
  BY <1>1 DEF WalletProofs!Holders, WalletProofs!HoldStages
<1>3. WalletProofs!Cardinality({}) = 0
  BY WalletConstants, WalletProofs!FS_EmptySet
<1>. QED  BY <1>2, <1>3, WalletConstants
          DEF WalletSound, WalletProofs!QuotaInv, WalletProofs!FrozenIsHeld

(* Without faults, once the pipeline is done with a task the row has its   *)
(* outcome: delivered and paid once, or failed, unsent and not paid; and   *)
(* when it is done with all of them nothing is left frozen.                *)
THEOREM OutcomesRecorded == SmsSpec => []OutcomeIsRecorded
<1>1. SmsInit => OutcomesExact
  BY ExactInit
<1>2. Typed /\ MarkIsLock /\ OutcomesStand /\ OutcomesExact /\ [SmsNext]_smsVars
        => OutcomesExact'
  BY ExactStep
<1>3. Typed /\ WalletSound /\ MessagesInv /\ OutcomesExact => OutcomeIsRecorded
  <2>. SUFFICES ASSUME Typed, WalletSound, MessagesInv, OutcomesExact, NothingFailed
                PROVE  /\ \A t \in Tasks :
                            Quiet(t) =>
                              \/ status[t] = "success" /\ Spent(t)
                              \/ status[t] = "failed" /\ Unspent(t)
                       /\ (\A t \in Tasks : Quiet(t)) => wallet.frozen = 0
    BY DEF OutcomeIsRecorded, Spent, Unspent
  <2>1. NoTrace /\ Exact /\ MarksOwned /\ Kept
    BY DEF OutcomesExact, MessagesInv, NothingLost, NothingFailed, FaultKinds
  <2>2. ASSUME NEW t \in Tasks, Quiet(t)
        PROVE  \/ status[t] = "success" /\ Spent(t)
               \/ status[t] = "failed" /\ Unspent(t)
    <3>1. ~\E w \in Workers : pc[w] \notin {"idle", "stopped"} /\ Task(w) = t
      BY <2>2 DEF Quiet, Serving
    <3>2. mark[t] # "processing"
      BY <2>1, <3>1 DEF MarksOwned, Owning, Sending, InSendSMS
    <3>3. status[t] # "pending"
      <4>1. CASE dlq[t] = 0
        BY <2>1, <2>2, <3>2, <4>1, QuietHasNoCopy DEF Kept, MessagesInv
      <4>2. CASE dlq[t] # 0
        BY <2>1, <4>2 DEF Exact, Typed, DataTyped
      <4>. QED  BY <4>1, <4>2
    <3>4. status[t] = "success" => Spent(t)
      BY <2>1 DEF Exact
    <3>5. status[t] = "success" \/ Unspent(t)
      BY <2>1, <3>1 DEF Exact
    <3>. QED  BY <3>3, <3>4, <3>5 DEF Typed, DataTyped
  <2>3. ASSUME \A t \in Tasks : Quiet(t)
        PROVE  wallet.frozen = 0
    <3>1. \A w \in Workers : pc[w] \in {"idle", "stopped"}
      BY <2>3, HandlersHaveMessages DEF Quiet, Serving, Typed
    <3>. QED  BY <2>1, <3>1, IdleHoldsNothing DEF NoTrace
  <2>. QED  BY <2>2, <2>3
<1>. QED  BY <1>1, <1>2, <1>3, PipelineTyped, MarkLocks, OutcomesStandAlways,
          MessagesInvariance, PTL DEF SmsSpec

=============================================================================
