---------------------------- MODULE SmsDelivery ----------------------------
(***************************************************************************)
(* The delivery of SMS notifications by the worker processes: the queue    *)
(* notification.sms with mq.Consume's retry protocol, the Redis mark that  *)
(* makes the consumer idempotent, NotificationService.SendSMS, the task    *)
(* rows it updates, and the wallet it holds, charges and refunds (the      *)
(* actions of Quota, whose clients are the workers).                       *)
(*                                                                         *)
(* A worker handles one message of this queue at a time; each call of the  *)
(* handler to Redis, the database, the provider or the broker is one step, *)
(* so the steps of several workers, crashes and lost connections           *)
(* interleave between them.  All tasks belong to one user, so that they    *)
(* share a wallet.  A message is delivered in any order: redelivery and    *)
(* prefetching give no order a handler could rely on.                      *)
(***************************************************************************)
EXTENDS Integers, FiniteSets, FiniteSetsExt

CONSTANTS
    Workers,          \* worker processes (one SMS consumer goroutine each)
    Tasks,            \* notification tasks; the message id is the task's
    ReminderTasks,    \* those of category check_in_reminder
    MaxRetries,       \* MaxRetryCount
    Price, DefaultGrant, TopUp, MaxTopUps, MaxHolds,   \* see Quota
    MaxPublishes,     \* bound on messages published per task
    MaxCrashes,       \* bounds on the faults of a run, by kind
    MaxDrops,
    MaxRedisErrors,
    MaxDbErrors,
    MaxLostReplies,
    MaxExpiries,
    MaxShutdowns,
    MaxFaults         \* bound on the faults of a run, all kinds together

ASSUME SmsAssumption ==
    /\ IsFiniteSet(Workers) /\ Workers # {}
    /\ ReminderTasks \subseteq Tasks
    /\ MaxRetries \in Nat
    /\ Price \in Nat \ {0} /\ DefaultGrant \in Nat /\ TopUp \in Nat \ {0}
    /\ MaxTopUps \in Nat /\ MaxHolds \in Nat
    /\ MaxPublishes \in Nat \ {0}
    /\ MaxFaults \in Nat

VARIABLES
    ready,      \* messages in notification.sms waiting for a consumer
    dlq,        \* messages in notification.sms.dlq, which nobody consumes
    published,  \* messages published so far, by task
    hand,       \* the unacknowledged message each worker handles
    pc,         \* the handler's next call
    cancelled,  \* SIGTERM has cancelled the context of the worker's calls
    verdict,    \* what SendSMS made of the message: return value, decided
    mark,       \* Redis key message:processed:<id>
    status,     \* notification_tasks.status
    reminded,   \* daily_check_ins.reminder_sent_at is set for the task's day
    sent,       \* SMS the provider accepted, by task
    charged,    \* ConfirmDeductions committed, by task
    refusedForGood,  \* tasks the provider refused with a non-retryable code
    faults,     \* how many faults of each kind have happened
    wallet, ledger, balanceAfter, stage, seen, leaked   \* see Quota

Wallet == INSTANCE Quota WITH Clients <- Workers

quotaVars == <<wallet, ledger, balanceAfter, stage, seen, leaked>>
queueVars == <<ready, dlq, published>>
taskVars == <<status, reminded>>
ghostVars == <<sent, charged, refusedForGood>>
smsVars == <<queueVars, hand, pc, cancelled, verdict, mark, taskVars,
             ghostVars, faults, quotaVars>>

Message == [task : Tasks, retry : 0..MaxRetries]
NoMessage == [open |-> FALSE]
Delivery == [task : Tasks, retry : 0..MaxRetries, open : BOOLEAN]

FaultKinds == {"crash", "drop", "redis", "db", "reply", "expiry", "shutdown"}
FaultLimit == [crash |-> MaxCrashes, drop |-> MaxDrops,
               redis |-> MaxRedisErrors, db |-> MaxDbErrors,
               reply |-> MaxLostReplies, expiry |-> MaxExpiries,
               shutdown |-> MaxShutdowns]

(* The calls inside NotificationService.SendSMS.                           *)
InSendSMS == {"lookup", "preDeduct", "prepare", "send", "refund",
              "markFailed", "confirm", "markSuccess"}
PCs == InSendSMS \cup {"idle", "claim", "finish", "stamp", "unmark",
                       "settle", "ackRepublished", "stopped"}

SmsTypeOK ==
    /\ ready \in [Message -> Nat]
    /\ dlq \in [Tasks -> Nat]
    /\ published \in [Tasks -> 1..MaxPublishes]
    /\ hand \in [Workers -> Delivery \cup {NoMessage}]
    /\ pc \in [Workers -> PCs]
    /\ cancelled \in [Workers -> BOOLEAN]
    /\ verdict \in [Workers -> {"none", "nil", "skip", "retry"}]
    /\ mark \in [Tasks -> {"none", "processing", "completed"}]
    /\ status \in [Tasks -> {"pending", "success", "failed"}]
    /\ reminded \in [Tasks -> BOOLEAN]
    /\ sent \in [Tasks -> Nat] /\ charged \in [Tasks -> Nat]
    /\ refusedForGood \in SUBSET Tasks
    /\ faults \in [FaultKinds -> Nat]
    /\ Wallet!QuotaTypeOK
    /\ \A w \in Workers : hand[w] = NoMessage <=> pc[w] \in {"idle", "stopped"}

SmsInit ==
    /\ ready = [m \in Message |-> IF m.retry = 0 THEN 1 ELSE 0]
    /\ dlq = [t \in Tasks |-> 0]
    /\ published = [t \in Tasks |-> 1]
    /\ hand = [w \in Workers |-> NoMessage]
    /\ pc = [w \in Workers |-> "idle"]
    /\ cancelled = [w \in Workers |-> FALSE]
    /\ verdict = [w \in Workers |-> "none"]
    /\ mark = [t \in Tasks |-> "none"]
    /\ status = [t \in Tasks |-> "pending"]
    /\ reminded = [t \in Tasks |-> FALSE]
    /\ sent = [t \in Tasks |-> 0] /\ charged = [t \in Tasks |-> 0]
    /\ refusedForGood = {}
    /\ faults = [k \in FaultKinds |-> 0]
    /\ Wallet!QuotaInit

-----------------------------------------------------------------------------

Task(w) == hand[w].task

Goto(w, next) == pc' = [pc EXCEPT ![w] = next]

(* SendSMS has decided what it will return.                                *)
Decide(w, v) == verdict' = [verdict EXCEPT ![w] = v]

FaultTotal == MapThenSumSet(LAMBDA k : faults[k], FaultKinds)

Fault(kind) ==
    /\ faults[kind] < FaultLimit[kind]
    /\ FaultTotal < MaxFaults
    /\ faults' = [faults EXCEPT ![kind] = @ + 1]

(* Calls to Redis and the database take the worker's context: once it is   *)
(* cancelled every one of them fails.                                      *)
Works(w) == ~cancelled[w] /\ UNCHANGED faults
Fails(w, kind) == IF cancelled[w] THEN UNCHANGED faults ELSE Fault(kind)

(* The consumers publish a pending task's message again when a later batch *)
(* contains the same user (they select all pending tasks of the day).      *)
Publish(t) ==
    /\ published[t] < MaxPublishes
    /\ status[t] = "pending"
    /\ published' = [published EXCEPT ![t] = @ + 1]
    /\ ready' = [ready EXCEPT ![[task |-> t, retry |-> 0]] = @ + 1]
    /\ UNCHANGED <<cancelled, dlq, hand, pc, verdict, mark, taskVars,
                   ghostVars, faults, quotaVars>>

(* x-message-ttl: a message that waited an hour is dead-lettered.          *)
Expire(m) ==
    /\ ready[m] > 0
    /\ Fault("expiry")
    /\ ready' = [ready EXCEPT ![m] = @ - 1]
    /\ dlq' = [dlq EXCEPT ![m.task] = @ + 1]
    /\ UNCHANGED <<cancelled, published, hand, pc, verdict, mark, taskVars,
                   ghostVars, quotaVars>>

Deliver(w, m) ==
    /\ pc[w] = "idle"
    /\ ready[m] > 0
    /\ ready' = [ready EXCEPT ![m] = @ - 1]
    /\ hand' = [hand EXCEPT ![w] = [task |-> m.task, retry |-> m.retry,
                                    open |-> TRUE]]
    /\ Goto(w, "claim")
    /\ UNCHANGED <<cancelled, dlq, published, verdict, mark, taskVars,
                   ghostVars, faults, quotaVars>>

(* Broken variant: the mark of an attempt that is still running is taken.  *)
MutClaimable(t) == mark[t] # "completed"

(* SETNX succeeds when the key is absent, whatever its value says.         *)
Claimable(t) == mark[t] = "none"

(* TryMarkMessageProcessing (SETNX).  When Redis answers with an error the *)
(* handler goes on without owning the mark.                                *)
Claim(w) ==
    /\ pc[w] = "claim"
    /\ \/ /\ Works(w)
          /\ Claimable(Task(w))
          /\ mark' = [mark EXCEPT ![Task(w)] = "processing"]
          /\ Goto(w, "lookup")
          /\ UNCHANGED verdict
       \/ /\ Works(w)
          /\ ~Claimable(Task(w))
          /\ Decide(w, "skip")
          /\ Goto(w, "settle")
          /\ UNCHANGED mark
       \/ /\ Fails(w, "redis")
          /\ Goto(w, "lookup")
          /\ UNCHANGED <<mark, verdict>>
    /\ UNCHANGED <<cancelled, queueVars, hand, taskVars, ghostVars, quotaVars>>

-----------------------------------------------------------------------------
(* NotificationService.SendSMS                                             *)

LookupTask(w) ==
    /\ pc[w] = "lookup"
    /\ \/ /\ Works(w)
          /\ status[Task(w)] = "success"
          /\ Decide(w, "nil")
          /\ Goto(w, "finish")
       \/ /\ Works(w)
          /\ status[Task(w)] # "success"
          /\ Goto(w, "preDeduct")
          /\ UNCHANGED verdict
       \/ /\ Fails(w, "db")
          /\ Decide(w, "retry")
          /\ Goto(w, "unmark")
    /\ UNCHANGED <<cancelled, queueVars, hand, mark, taskVars, ghostVars,
                   quotaVars>>

(* PreDeduct, a transaction of two steps; an insufficient balance fails    *)
(* the task and skips the message.                                         *)
PreDeduct(w) ==
    /\ pc[w] = "preDeduct"
    /\ \/ /\ Works(w)
          /\ Wallet!PreDeductRead(w)
          /\ UNCHANGED <<pc, verdict>>
       \/ /\ Works(w)
          /\ Wallet!PreDeductCommit(w)
          /\ Goto(w, "prepare")
          /\ UNCHANGED verdict
       \/ /\ Works(w)
          /\ stage[w] = "idle" /\ wallet.available < Price
          /\ Decide(w, "skip")
          /\ Goto(w, "markFailed")
          /\ UNCHANGED quotaVars
       \/ /\ Fails(w, "db")
          /\ IF stage[w] = "idle" THEN UNCHANGED quotaVars
                                  ELSE Wallet!Rollback(w)
          /\ Decide(w, "retry")
          /\ Goto(w, "unmark")
    /\ UNCHANGED <<cancelled, queueVars, hand, mark, taskVars, ghostVars>>

(* Broken variant: an early error path forgets the refund.                 *)
MutPrepare(w) ==
    /\ pc[w] = "prepare"
    /\ \/ Goto(w, "send") /\ UNCHANGED verdict
       \/ \E v \in {"skip", "retry"} : Decide(w, v) /\ Goto(w, "markFailed")
    /\ UNCHANGED <<cancelled, queueVars, hand, mark, taskVars, ghostVars,
                   faults, quotaVars>>

(* ParseSMSMessage and resolveNotificationPhone (an error skips the        *)
(* message), then the template and its parameters (an error is retried).   *)
Prepare(w) ==
    /\ pc[w] = "prepare"
    /\ \/ Goto(w, "send") /\ UNCHANGED verdict
       \/ \E v \in {"skip", "retry"} : Decide(w, v) /\ Goto(w, "refund")
    /\ UNCHANGED <<cancelled, queueVars, hand, mark, taskVars, ghostVars,
                   faults, quotaVars>>

(* Broken variant: the provider's answer is not looked at.                 *)
MutRefused(w) ==
    /\ pc[w] = "send"
    /\ Goto(w, "confirm")
    /\ UNCHANGED <<cancelled, queueVars, hand, verdict, mark, taskVars,
                   ghostVars, faults, quotaVars>>

(* sms.SendSingle: accepted; refused, with a code that may or may not be   *)
(* worth a retry; or accepted by a provider whose answer never arrives,    *)
(* which the client cannot tell from a refusal.                            *)
Accepted(w) ==
    /\ pc[w] = "send"
    /\ sent' = [sent EXCEPT ![Task(w)] = @ + 1]
    /\ Goto(w, "confirm")
    /\ UNCHANGED <<cancelled, queueVars, hand, verdict, mark, taskVars, charged,
                   refusedForGood, faults, quotaVars>>

Refused(w) ==
    /\ pc[w] = "send"
    /\ Decide(w, "retry")
    /\ Goto(w, "refund")
    /\ UNCHANGED <<cancelled, queueVars, hand, mark, taskVars, ghostVars, faults,
                   quotaVars>>

(* Broken variant: the error is returned as it is.                         *)
MutRefusedForGood(w) ==
    /\ pc[w] = "send"
    /\ refusedForGood' = refusedForGood \cup {Task(w)}
    /\ Decide(w, "retry")
    /\ Goto(w, "refund")
    /\ UNCHANGED <<cancelled, queueVars, hand, mark, taskVars, sent, charged,
                   faults, quotaVars>>

(* SendSMS turns a NonRetryableError into a SkipMessageError.              *)
RefusedForGood(w) ==
    /\ pc[w] = "send"
    /\ refusedForGood' = refusedForGood \cup {Task(w)}
    /\ Decide(w, "skip")
    /\ Goto(w, "refund")
    /\ UNCHANGED <<cancelled, queueVars, hand, mark, taskVars, sent, charged,
                   faults, quotaVars>>

ReplyLost(w) ==
    /\ pc[w] = "send"
    /\ Fault("reply")
    /\ sent' = [sent EXCEPT ![Task(w)] = @ + 1]
    /\ Decide(w, "retry")
    /\ Goto(w, "refund")
    /\ UNCHANGED <<cancelled, queueVars, hand, mark, taskVars, charged,
                   refusedForGood, quotaVars>>

(* A Refund or ConfirmDeduction that fails leaves the amount frozen.       *)
GiveUpHold(w) == Wallet!Abandon(w)

(* Refund; its error is only logged.                                       *)
Refund(w) ==
    /\ pc[w] = "refund"
    /\ \/ Works(w) /\ Wallet!RefundRead(w) /\ UNCHANGED pc
       \/ Works(w) /\ Wallet!RefundCommit(w) /\ Goto(w, "markFailed")
       \/ Fails(w, "db") /\ GiveUpHold(w) /\ Goto(w, "markFailed")
    /\ UNCHANGED <<cancelled, queueVars, hand, verdict, mark, taskVars,
                   ghostVars>>

(* The task row becomes failed, whatever it was; an error is only logged.  *)
(* A skip makes the handler mark the message as processed, a retry makes   *)
(* it clear its mark.                                                      *)
MarkFailed(w) ==
    /\ pc[w] = "markFailed"
    /\ \/ Works(w) /\ status' = [status EXCEPT ![Task(w)] = "failed"]
       \/ Fails(w, "db") /\ UNCHANGED status
    /\ Goto(w, IF verdict[w] = "skip" THEN "finish" ELSE "unmark")
    /\ UNCHANGED <<cancelled, queueVars, hand, verdict, mark, reminded,
                   ghostVars, quotaVars>>

(* ConfirmDeduction commits in a transaction of its own, inside but not    *)
(* part of the transaction that marks the task successful.                 *)
Confirm(w) ==
    /\ pc[w] = "confirm"
    /\ Works(w)
    /\ \/ Wallet!ConfirmRead(w) /\ UNCHANGED <<pc, charged>>
       \/ /\ Wallet!ConfirmCommit(w)
          /\ charged' = [charged EXCEPT ![Task(w)] = @ + 1]
          /\ Goto(w, "markSuccess")
    /\ UNCHANGED <<cancelled, queueVars, hand, verdict, mark, taskVars, sent,
                   refusedForGood>>

ConfirmFails(w) ==
    /\ pc[w] = "confirm"
    /\ Fails(w, "db")
    /\ GiveUpHold(w)
    /\ Decide(w, "retry")
    /\ Goto(w, "unmark")
    /\ UNCHANGED <<cancelled, queueVars, hand, mark, taskVars, ghostVars>>

MarkSuccess(w) ==
    /\ pc[w] = "markSuccess"
    /\ \/ /\ Works(w)
          /\ status' = [status EXCEPT ![Task(w)] = "success"]
          /\ Decide(w, "nil")
          /\ Goto(w, "finish")
       \/ /\ Fails(w, "db")
          /\ Decide(w, "retry")
          /\ Goto(w, "unmark")
          /\ UNCHANGED status
    /\ UNCHANGED <<cancelled, queueVars, hand, mark, reminded, ghostVars,
                   quotaVars>>

-----------------------------------------------------------------------------
(* The rest of the handler, and mq.Consume                                 *)

(* Only a message that SendSMS handled without error is stamped.           *)
AfterFinish(w) == IF verdict[w] = "nil" /\ Task(w) \in ReminderTasks
                  THEN "stamp" ELSE "settle"

(* MarkMessageProcessed; its error is only logged.                         *)
Finish(w) ==
    /\ pc[w] = "finish"
    /\ \/ Works(w) /\ mark' = [mark EXCEPT ![Task(w)] = "completed"]
       \/ Fails(w, "redis") /\ UNCHANGED mark
    /\ Goto(w, AfterFinish(w))
    /\ UNCHANGED <<cancelled, queueVars, hand, verdict, taskVars, ghostVars,
                   quotaVars>>

(* updateReminderSentAt; its error is only logged.                         *)
Stamp(w) ==
    /\ pc[w] = "stamp"
    /\ \/ Works(w) /\ reminded' = [reminded EXCEPT ![Task(w)] = TRUE]
       \/ Fails(w, "db") /\ UNCHANGED reminded
    /\ Goto(w, "settle")
    /\ UNCHANGED <<cancelled, queueVars, hand, verdict, mark, status,
                   ghostVars, quotaVars>>

(* The deferred UnmarkMessageProcessing; its error is only logged.         *)
Unmark(w) ==
    /\ pc[w] = "unmark"
    /\ \/ Works(w) /\ mark' = [mark EXCEPT ![Task(w)] = "none"]
       \/ Fails(w, "redis") /\ UNCHANGED mark
    /\ Goto(w, "settle")
    /\ UNCHANGED <<cancelled, queueVars, hand, verdict, taskVars, ghostVars,
                   quotaVars>>

(* Broken variant: the settled delivery is not let go of.                  *)
MutDrop(w) == Decide(w, "none") /\ Goto(w, "idle") /\ UNCHANGED hand

(* The worker is done with its message.  When its channel is gone the Go   *)
(* channel of deliveries is closed and Consume returns: the consumer stops.*)
Drop(w) ==
    /\ hand' = [hand EXCEPT ![w] = NoMessage]
    /\ Decide(w, "none")
    /\ Goto(w, IF hand[w].open THEN "idle" ELSE "stopped")

(* Ack, or Ack of a skipped message.  (On a lost channel Ack has no effect *)
(* and the broker has already requeued the message.)                       *)
Ack(w) ==
    /\ pc[w] = "settle"
    /\ verdict[w] \in {"nil", "skip"}
    /\ Drop(w)
    /\ UNCHANGED <<cancelled, queueVars, mark, taskVars, ghostVars, faults,
                   quotaVars>>

(* Broken variant: the retry header is not incremented.                    *)
MutNextAttempt(d) == [task |-> d.task, retry |-> d.retry]

(* Nack without requeue once the retries are used up: dead-lettered.       *)
DeadLetter(w) ==
    /\ pc[w] = "settle"
    /\ verdict[w] = "retry"
    /\ hand[w].retry >= MaxRetries
    /\ dlq' = [dlq EXCEPT ![Task(w)] = @ + (IF hand[w].open THEN 1 ELSE 0)]
    /\ Drop(w)
    /\ UNCHANGED <<cancelled, ready, published, mark, taskVars, ghostVars,
                   faults, quotaVars>>

NextAttempt(d) == [task |-> d.task, retry |-> d.retry + 1]

(* Broken variant: the republished original is requeued, not acknowledged. *)
MutAckRepublished(w) ==
    /\ pc[w] = "ackRepublished"
    /\ Drop(w)
    /\ ready' = [ready EXCEPT ![[task |-> Task(w), retry |-> hand[w].retry]]
                              = @ + 1]
    /\ UNCHANGED <<cancelled, dlq, published, mark, taskVars, ghostVars, faults,
                   quotaVars>>

(* republishWithRetryCount, then (a separate call) Ack of the original.    *)
Republish(w) ==
    /\ pc[w] = "settle"
    /\ verdict[w] = "retry"
    /\ hand[w].retry < MaxRetries
    /\ hand[w].open
    /\ ready' = [ready EXCEPT ![NextAttempt(hand[w])] = @ + 1]
    /\ Goto(w, "ackRepublished")
    /\ UNCHANGED <<cancelled, dlq, published, hand, verdict, mark, taskVars,
                   ghostVars, faults, quotaVars>>

AckRepublished(w) ==
    /\ pc[w] = "ackRepublished"
    /\ Drop(w)
    /\ UNCHANGED <<cancelled, queueVars, mark, taskVars, ghostVars, faults,
                   quotaVars>>

(* On a lost channel the republish fails, and so does the Nack after it.   *)
RepublishFails(w) ==
    /\ pc[w] = "settle"
    /\ verdict[w] = "retry"
    /\ hand[w].retry < MaxRetries
    /\ ~hand[w].open
    /\ Drop(w)
    /\ UNCHANGED <<cancelled, queueVars, mark, taskVars, ghostVars, faults,
                   quotaVars>>

-----------------------------------------------------------------------------
(* Faults of processes and connections                                     *)

(* The broker requeues what w had not acknowledged.                        *)
Requeue(w) ==
    ready' = IF hand[w].open
             THEN [ready EXCEPT ![[task |-> hand[w].task,
                                   retry |-> hand[w].retry]] = @ + 1]
             ELSE ready

(* The AMQP connection is lost.  The handler that is running goes on; then *)
(* the consumer stops, as all the worker's consumers do.                   *)
ConnectionLost(w) ==
    /\ pc[w] # "stopped"
    /\ hand[w] # NoMessage => hand[w].open
    /\ Fault("drop")
    /\ Requeue(w)
    /\ hand' = [hand EXCEPT ![w] = IF @ = NoMessage THEN @
                                   ELSE [@ EXCEPT !.open = FALSE]]
    /\ pc' = [pc EXCEPT ![w] = IF @ = "idle" THEN "stopped" ELSE @]
    /\ UNCHANGED <<cancelled, dlq, published, verdict, mark, taskVars,
                   ghostVars, quotaVars>>

(* The process dies and Kubernetes restarts it.  Redis, the database and   *)
(* the provider keep what they have.                                       *)
Crash(w) ==
    /\ hand[w] # NoMessage
    /\ Fault("crash")
    /\ Requeue(w)
    /\ hand' = [hand EXCEPT ![w] = NoMessage]
    /\ Goto(w, "idle")
    /\ cancelled' = [cancelled EXCEPT ![w] = FALSE]
    /\ Decide(w, "none")
    /\ CASE stage[w] = "idle" -> UNCHANGED quotaVars
         [] stage[w] = "checked" -> Wallet!Rollback(w)
         [] OTHER -> Wallet!Abandon(w)
    /\ UNCHANGED <<dlq, published, mark, taskVars, ghostVars>>

(* SIGTERM: the context is cancelled under the handler that is running.    *)
Shutdown(w) ==
    /\ pc[w] # "stopped" /\ ~cancelled[w]
    /\ Fault("shutdown")
    /\ cancelled' = [cancelled EXCEPT ![w] = TRUE]
    /\ UNCHANGED <<queueVars, hand, pc, verdict, mark, taskVars, ghostVars,
                   quotaVars>>

(* Consume sees ctx.Done().  Its select may as well pick another delivery  *)
(* while there is one, so this races with Deliver.                         *)
StopCancelled(w) ==
    /\ pc[w] = "idle" /\ cancelled[w]
    /\ Goto(w, "stopped")
    /\ UNCHANGED <<queueVars, hand, cancelled, verdict, mark, taskVars,
                   ghostVars, faults, quotaVars>>

(* When all its consumers have stopped the worker's main returns, and      *)
(* Kubernetes starts a new process.                                        *)
Restart(w) ==
    /\ pc[w] = "stopped"
    /\ Goto(w, "idle")
    /\ cancelled' = [cancelled EXCEPT ![w] = FALSE]
    /\ UNCHANGED <<queueVars, hand, verdict, mark, taskVars, ghostVars, faults,
                   quotaVars>>

-----------------------------------------------------------------------------

Handle(w) ==
    \/ Claim(w) \/ LookupTask(w) \/ PreDeduct(w) \/ Prepare(w)
    \/ Accepted(w) \/ Refused(w) \/ RefusedForGood(w) \/ ReplyLost(w)
    \/ Refund(w) \/ MarkFailed(w) \/ Confirm(w) \/ ConfirmFails(w)
    \/ MarkSuccess(w)
    \/ Finish(w) \/ Stamp(w) \/ Unmark(w)
    \/ Ack(w) \/ DeadLetter(w) \/ Republish(w) \/ AckRepublished(w)
    \/ RepublishFails(w)

Consume(w) == Handle(w) \/ \E m \in Message : Deliver(w, m)

SmsNext ==
    \/ \E w \in Workers :
          \/ Consume(w) \/ StopCancelled(w) \/ Restart(w)
          \/ ConnectionLost(w) \/ Crash(w) \/ Shutdown(w)
    \/ \E t \in Tasks : Publish(t)
    \/ \E m \in Message : Expire(m)

SmsSpec == SmsInit /\ [][SmsNext]_smsVars

(* A worker's consumer goroutine never stops between two calls and takes a *)
(* message when there is one; a stopped worker's process ends and is       *)
(* started again.  Nothing is assumed of the provider, of Redis or of the  *)
(* database: any of their answers will do.                                 *)
SmsFairSpec ==
    /\ SmsSpec
    /\ \A w \in Workers : /\ WF_smsVars(Consume(w))
                          /\ WF_smsVars(Restart(w))
                          /\ WF_smsVars(StopCancelled(w))

-----------------------------------------------------------------------------

Serving(w, t) == pc[w] \notin {"idle", "stopped"} /\ Task(w) = t

(* The waiting copies of the messages of task t, numbered for each message.*)
WaitingCopies(t) ==
    UNION {{m} \X (1..ready[m]) : m \in {m \in Message : m.task = t}}

Waiting(t) == Cardinality(WaitingCopies(t))

(* The pipeline is done with task t, unless it is published again.         *)
Quiet(t) == Waiting(t) = 0 /\ \A w \in Workers : ~Serving(w, t)

(* Past the mark and the lookup, where money and messages move.            *)
Sending(w) == pc[w] \in InSendSMS \ {"lookup"}

(* The SETNX mark is a lock on the task: however messages are duplicated,  *)
(* redelivered, or cut off by crashes, lost connections and shutdowns, two *)
(* workers are never both inside SendSMS for one task, as long as Redis    *)
(* answers: a handler whose SETNX fails goes on without the lock.          *)
OneSenderPerTask ==
    faults["redis"] = 0 =>
        \A w, v \in Workers :
            w # v /\ Sending(w) /\ Sending(v) => Task(w) # Task(v)

(* Nobody gets the same SMS twice, but for one more per answer of Redis,   *)
(* the database or the provider that is lost.  Crashes, lost connections,  *)
(* shutdowns and duplicates cost nothing: a crash after the send leaves    *)
(* the mark, so that the redelivered message is skipped.                   *)
SentAtMostOnce ==
    \A t \in Tasks :
        sent[t] <= 1 + faults["reply"] + faults["redis"] + faults["db"]

(* The retry protocol does not multiply messages: there are as many copies *)
(* as were published, and one more for each crash or lost connection that  *)
(* falls between republishing a message and acknowledging the original.    *)
Copies(t) ==
    Waiting(t) + dlq[t]
      + Cardinality({w \in Workers : Serving(w, t) /\ hand[w].open
                                     /\ pc[w] # "ackRepublished"})

CopiesBounded ==
    \A t \in Tasks :
        Copies(t) <= published[t] + faults["crash"] + faults["drop"]

(* A notification that was cut off and lost - no message left, not         *)
(* dead-lettered, task still pending - can be told from one that is still  *)
(* on its way: its mark is there, and its value is still "processing".     *)
(* (Without a mark or a row to write there is nothing to tell it by.)      *)
LossLeavesMark ==
    faults["redis"] + faults["db"] = 0 =>
        \A t \in Tasks :
            Quiet(t) /\ status[t] = "pending" /\ dlq[t] = 0
                => mark[t] = "processing"

(* Users pay for sent messages only, whatever fails and whoever crashes.   *)
ChargedOnlyIfSent == \A t \in Tasks : charged[t] <= sent[t]

(* A task row that says success (and deducted) was sent and charged.       *)
SuccessIsPaid ==
    \A t \in Tasks : status[t] = "success" => charged[t] >= 1

(* reminder_sent_at is set only if the reminder really went out: the       *)
(* timeout check alerts the contacts of those who did not answer it.       *)
RemindedOnlyIfSent == \A t \in Tasks : reminded[t] => sent[t] >= 1

(* An outcome stands: a task that was delivered and paid for never becomes *)
(* failed again, and what the provider has refused with a non-retryable    *)
(* code is never sent again - not by a retry, a duplicate or a redelivery  *)
(* (as long as Redis keeps other senders out).                             *)
OutcomeIsFinal ==
    [][faults["redis"] = 0 =>
          /\ \A t \in Tasks : status[t] = "success" => status'[t] = "success"
          /\ \A t \in refusedForGood : sent'[t] = sent[t]]_smsVars

(* The records never claim more than happened, wherever a send is cut off: *)
(* charges and reminder stamps have an SMS behind them, and a success row  *)
(* has a charge.                                                           *)
RecordsAreTrue == ChargedOnlyIfSent /\ SuccessIsPaid /\ RemindedOnlyIfSent

(* The broker's side of retries and crashes: no message is multiplied, and *)
(* none disappears without leaving its mark.                               *)
MessagesAreKept == CopiesBounded /\ LossLeavesMark

(* The workers whose charge for t is committed and whose row is not:       *)
(* ConfirmDeduction has a transaction of its own, inside the one that      *)
(* marks the task successful.                                              *)
Recording(t) == {w \in Workers : pc[w] = "markSuccess" /\ Task(w) = t}

(* Users are charged once for a task, and its row then says so. A charge   *)
(* the row does not show - lost to the user, and made again by the retry   *)
(* that finds the row unpaid - needs a failure of the database, a crash or *)
(* a shutdown exactly between the two commits: at most one for each of     *)
(* these, none for a lost connection, a lost answer, a duplicate or an     *)
(* expiry (as long as Redis keeps a second sender out).                    *)
PaidIsRecorded ==
    faults["redis"] = 0 =>
        \A t \in Tasks :
            charged[t] <= (IF status[t] = "success" THEN 1 ELSE 0)
                            + Cardinality(Recording(t))
                            + faults["db"] + faults["crash"] + faults["shutdown"]

NothingFailed == \A k \in FaultKinds : faults[k] = 0

(* Without faults, once the pipeline is done with a task the row has its   *)
(* outcome: delivered and paid once, or failed, unsent and not paid, and   *)
(* then nothing is left frozen.                                            *)
OutcomeIsRecorded ==
    NothingFailed =>
        /\ \A t \in Tasks :
              Quiet(t) =>
                  \/ status[t] = "success" /\ sent[t] = 1 /\ charged[t] = 1
                  \/ status[t] = "failed" /\ sent[t] = 0 /\ charged[t] = 0
        /\ (\A t \in Tasks : Quiet(t)) => wallet.frozen = 0

(* Every message is eventually handled for good: the retries end.          *)
EveryMessageSettles == \A t \in Tasks : <>[]Quiet(t)

(* What the comment on the handlers' defer says it ensures: when a handler *)
(* returns an error its mark is gone, so that the retry is not skipped.    *)
ErrorClearsMark ==
    \A w \in Workers :
        pc[w] = "settle" /\ verdict[w] = "retry" => mark[Task(w)] = "none"

=============================================================================
