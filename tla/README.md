# AreYouOK: verification project

AreYouOK (安否) asks its users to check in once a day and to report back from
journeys, reminds them by SMS, and alerts their emergency contacts by SMS when
they do not answer.  This directory holds TLA+ models of its back end, the TLC
configurations that check them and the TLAPS proofs about them.  Paths below
are relative to `src/` unless they start with a module's name.

1. The system · 2. Modules and code · 3. Runs · 4. Bounds · 5. Fairness ·
6. Proofs · 7. Where code and comments differ · 8. Not modelled · 9. Plan

## 1. The system

Three Go processes share PostgreSQL (READ COMMITTED, GORM), Redis and RabbitMQ
(with the delayed-message exchange):

* **server** (`cmd/server`): the HTTP API; handlers call `internal/service`.
* **scheduler** (`cmd/scheduler`): one instance.  A daily run at 00:05 publishes
  the day's check-in reminders and timeouts; a scan every 5 minutes publishes
  journey reminders and timeouts; an hourly scan catches overdue journeys.
* **worker** (`cmd/worker`): five consumer goroutines, one per queue, each of
  which handles one message at a time (`storage/mq/consumer.go`).  A rolling
  update of its deployment runs the old and the new worker together.

Nothing is coordinated except by rows, Redis keys and messages:

```
 HTTP request --> service --> rows ----------------+
                    |  (settings cache, marks)     |
                    v                              v
 scheduler --> delayed exchange --> reminder / timeout consumers
                                      | tasks (notification_tasks)
                                      v
                                notification.sms --> SendSMS --> provider
                                      |                 |
                                  retries, DLQ      SMS wallet
```

| component | state | operations | hard behaviours | what makes it correct |
|---|---|---|---|---|
| SMS wallet (`service/quota.go`) | `quota_wallets`, `quota_transactions` | PreDeduct, ConfirmDeduction, Refund, GrantQuota | unlocked read then relative update; holds whose owner dies | no money appears or vanishes, the ledger agrees with the row, bounded overdraft |
| SMS delivery (`queue/consumer.go`, `service/notification.go`, `storage/mq/consumer.go`) | `notification.sms` and its DLQ, Redis marks, `notification_tasks` | publish, deliver, claim, SendSMS, retry, dead-letter | redelivery, duplicates, lost answers, crashes between send and record, shutdown | one sender per task, one SMS, pay for sent messages only, every message settles |
| Journeys (`service/journey.go`, `schedule/journey_scheduler.go`) | `journeys`, Redis marks, delayed messages | create, update, complete, delete, scans, remind, time out | read/decide/write by id beside other handlers; several messages per journey; lost and early messages | one alert, recorded in the row; overdue journeys are handled; what the user ends stays ended |
| Daily check-in (`service/checkin.go`, `schedule/checkin_scheduler.go`) | `daily_check_ins`, settings cache, marks, monthly counter, delayed messages | schedule, validate, remind, complete, time out, change settings | settings changed while messages are in flight, Redis counters beside transactions, retries of half-done batches | one reminder a day, one recorded timeout, the forgotten are alerted |
| Contacts (`service/contact.go`) | `users.emergency_contacts` (JSONB), `users.status` | create, delete, replace | read-modify-write of the whole list, activation with the first one | active users have somebody to alert, and users with contacts are active |
| Login, waitlist, tokens (`service/auth.go`, `service/user.go`, `cache/token.go`) | `users`, wallets, `token:refresh:<id>`, `waitlist:info:<open id>` | login by Alipay, login by code, waitlist, refresh, delete | count before insert; reads that find deleted rows; status written from an old read; get, compare, set | bounded capacity, one bonus per user, deleted users stay as they are, a race signs out one client at most |
| Verification (`service/verification.go`, `cache/captcha.go`, `cache/slider.go`) | the code, the slider token and the day's counter of a number | send, solve the slider, verify | get, compare and delete are separate calls; a failed SMS deletes a code | daily limits, a delivered code works, and works once |
| Rate limiter (`middleware/ratelimit.go`) | a sorted set and a block key per client | allow, block | a pipeline that is no transaction; counts before judging | the window's limit, and a block for whoever exceeds it |
| Publisher (`storage/mq/publisher.go`) | the shared AMQP channel | get, publish, close notice | a late close notice clears a newer channel | a publish uses an open channel |
| Ids (`pkg/snowflake`) | node numbers | NextID | node numbers overlap between processes | ids are unique |

Everything in this code that tests would hardly reach is listed, with its line,
under `hazards` in `PROJECT.json`, with the properties that cover it or the
reason why none does.

## 2. Modules and code

| module | models | instance |
|---|---|---|
| `Quota` | `service/quota.go`, one wallet used by several goroutines | `MCQuota` |
| `QuotaProofs` | theorems about `Quota` | |
| `SmsDelivery` | the SMS consumer, `mq.Consume`, SendSMS; composed with `Quota` by `INSTANCE Quota WITH Clients <- Workers` | `MCSmsDelivery` |
| `SmsProofs` | theorems about `SmsDelivery`; takes those of `QuotaProofs` over | |
| `DelayedQueue` | the queues behind the delayed exchange: bags of messages that wait | (in `Journey`, `CheckIn`) |
| `DelayedQueueProofs` | lemmas about those bags | |
| `Journey` | one journey, from its creation | `MCJourney` |
| `JourneyProofs` | theorems about `Journey` | |
| `CheckIn` | one day of a group of users with one reminder time | `MCCheckIn` |
| `CheckInProofs` | theorems about `CheckIn` | |
| `RateLimiter` | the rate limiting middleware, for one key | (in `Captcha`) |
| `Captcha` | codes and sliders of one number on one day, behind the limiter; composed with it by `INSTANCE RateLimiter` | `MCCaptcha` |
| `CaptchaProofs` | theorems about `Captcha` and the limiter in it | |
| `Account` | the users table under logins, the waitlist, contact changes, refreshes and deletions | `MCAccount` |
| `AccountProofs` | theorems about `Account` | |
| `Counting` | how the sizes of finite sets change: lemmas of the proofs | |

The map in `PROJECT.json` gives the lines of every definition.  A service call
that reads, decides and writes is two or more steps when nothing locks the row
in between: that is where the other processes come in.  A call to Redis, the
database, the provider or the broker that may fail has a disjunct for each
outcome; the failures that the environment injects are counted in `faults` and
bounded by constants.  Definitions named `Mut...` are never part of a
specification: each is the form a definition would have with a plausible bug,
and shows that a property notices it.

**Quota.**  Each of the four methods is one transaction: a plain `SELECT`
(`...Read`, which decides) and a relative `UPDATE` with its ledger row
(`...Commit`).  `Rollback` is the failure of any of them; `Abandon` is an owner
of a hold that dies, or whose refund fails.  The ledger is its sums by reason
(amounts are positive there, the reason has the sign) and the newest
`balance_after`.

**SmsDelivery.**  `pc` follows the handler of `StartSMSNotificationConsumer`
and SendSMS call by call.  `mark` is `message:processed:<id>`; a worker's
`hand` is the message it has not acknowledged; `open` tells whether the broker
still waits for that (a lost connection hands the message to somebody else
while the handler goes on).  `Republish`/`AckRepublished` are the two halves of
the retry.  `Shutdown` cancels the context, after which every call that takes
it fails but the acknowledgement does not.  `sent`, `charged` and
`refusedForGood` are history variables.  `Publish` is
`PublishSMSNotification` by any of the other consumers.

**Journey.**  `CreateJourney` gives the initial states.  `Requests` are HTTP
handlers in flight; `UpdateRead`/`UpdateWrite` and the like show that the row
is read by public id (which also finds deleted rows) and written by primary key
(which does not).  `CheckJourneyTimeouts` has one step per Redis or broker
call; marks are read before and written after the publication.  The consumers
read, commit, publish and finish; `Retry` and `Crash` give the message back with
or without its mark.  `Truncation` is the fraction of a second that
`int(delay.Seconds())` cuts off, scaled to one instant.

**CheckIn.**  `ScheduleRead` ... `MarkTimeoutScheduled` are
`ScheduleDailyCheckIns` for one group.  `UpdateSettings`, `CacheSettings`,
`UnmarkCheckinScheduled` and `UpdatePublish` are `UpdateUserSettings` and its
rebuilt message.  `ValidateReminderBatch`, `SelectUsers`, `CreateReminders` (or
`RollBackReminders`) and `PublishReminders` are the reminder consumer;
`ReadTimeouts`, `CommitTimeouts`, `PublishAlerts` the timeout consumer.  The SMS
pipeline is `SettleReminder`: it ends each reminder with or without a stamp of
the row, which is what `SmsDelivery` shows of it.  Counting in Redis happens
inside a transaction that may still roll back.

**RateLimiter.**  `gate` follows a request through the middleware: `Enter` is
`IsBlocked`, `Add` the `ZREMRANGEBYSCORE` and `ZADD` of the pipeline, `Admit` and
`Refuse` its `ZCARD` with the decision, `Block` the `SET` of the block key.  Other
requests come between any two of them, since the pipeline is no transaction.
`Slide` makes the oldest entry older than the window, and `Unblock` ends the
block when all entries are: the block lasts longer than the window in every
configuration (`ratelimit.go:41-65, 207-240`).

**Captcha.**  `req` has the request that each server goroutine serves and its
next call: `IncrCaptchaCount`, `CheckSlider`, `StoreCode`, `SendCaptchaSMS` and
`UndoSend` are `SendCaptcha`; `SolveSlider` and `SetSliderVerificationToken`
are `VerifySlider`; `CompareCode` and `DeleteCode` are `VerifyCaptcha`.  Codes and
tokens are numbered as they are stored.  A client sends any token that was
issued and any code that was delivered, or a wrong guess.  `delivered`,
`unguarded`, `accepted` and `lost` are history variables.

**Account.**  `rows` is the table by primary key, soft-deleted rows included;
`Live` is what the query builder sees, `AnyByPhone` and `ReadUser` are the raw
SQL that sees everything.  A request in a slot carries what it has read of its
row, and writes by that: `Lookup`, `ExchangePhone`, `VerifyPhone`,
`VerifyFallback`, `LoginCount`, `LoginCreate` and `LoginBind` are the two logins;
`GenerateTokenPair`, `SetRefreshToken` and `AnswerToken` end them and the
refresh, which begins with `ValidateRefreshToken` and `RefreshLookup`;
`ReadSnapshot` ... `SaveSnapshot` are `GetWaitListInfo`; `ReadUser` and
`WriteContacts` are the three changes of contacts, `DeleteUser` the deletion.
`LoginCreate` and `LoginBind` are one step each because their transactions
begin with the write that locks the row (an `INSERT` under the unique indexes,
an `UPDATE`).  `invited` and `reverted` are history variables.

What connects the models: the wallet's variables in `SmsDelivery` move by the
actions of `Quota` or not at all, by construction; `PipelineImplementsWallet`
puts that into a theorem, so that those of `QuotaProofs` hold of the
delivery's wallet.  `Journey` and `CheckIn`
end where a notification is handed to the SMS queue; `SmsDelivery` begins there.  `Captcha` ends where a code is accepted, and
`BeginVerify` in `Account` begins there.  `Account` gives users their wallet and
bonus, which is `QuotaInit`.

## 3. Runs

| run | question | shows |
|---|---|---|
| `quota_shared` | Does the wallet survive racing, failing and dying callers? | `QuotaTypeOK`; `BooksBalance`: conservation, and the ledger reconciles with the row; `FrozenIsHeld`; `OverdraftBounded`: at most one price per further client; `BalanceAfterIsExact` whenever no one overtook the read |
| `sms_faults` | What is left after any two of a crash, a lost connection, a shutdown, failures of Redis and the database, a lost answer, an expiry, with two workers and a duplicate? | `OneSenderPerTask`; `SentAtMostOnce` but for lost answers; `MessagesAreKept`: bounded copies, and a loss leaves its mark; `OutcomeIsFinal`; `RecordsAreTrue`: nobody pays for an unsent SMS, success means paid, reminders are stamped only if sent; `PaidIsRecorded`: one charge per task, and its row says so, but for one per database error, crash or shutdown between the two commits |
| `sms_settles` | Does the pipeline come to an end? | `EveryMessageSettles`; `OutcomeIsRecorded`: without faults the outcome is in the row and nothing stays frozen |
| `sms_shutdown` (violation) | Is the mark cleared on every error? | `ErrorClearsMark`: not after a shutdown |
| `journey_requests` | A journey beside the user's requests, with faults | `NotifiedAtMostOnce`: one alert, one reminder; `AlertIsRecorded`; `EndIsFinal`: a deleted journey stays as it is, nobody decides to alert for one that is over, and a completion nobody had overtaken stands; `TasksArePublished` |
| `journey_timely` | The return time is moved while everyone keeps up, or something is lost | `RemindedBeforeAlert`; `OverdueIsHandled` |
| `journey_truncated` (violation) | Is a timeout message never early? | `TimeoutCheckIsNotEarly`: it can be |
| `checkin_faults` | A day with faults and a change of settings | `RemindersLimited`: one reminder a day, and the monthly limit; `AlertIsRecorded`; `TasksArePublished` |
| `checkin_timely` | A day on which everyone keeps up, with deadlines at the reminder time (the default), after it and mixed | `ForgottenIsAlerted`: who was reminded and forgot has timed out after the last deadline, or the timeout overlooked him, which takes a deadline no later than the reminder; nobody times out before the first; `EnabledIsReminded`: switching off and on loses no reminder |
| `checkin_alerted` (violation) | Are only users alerted who did not check in? | `OnlyForgottenIsAlerted`: users who did are alerted too |
| `captcha_limits` | Sends, sliders and logins for one number race behind the rate limiter, with a failing Redis and expiring keys | `LimitHolds`: the window never admits too many, and who exceeds it is blocked; `DailyLimits`; `OneLoginPerCode`: never more logins than requests served at once; `DeliveredCodeWorks` |
| `account_races` | Two requests at a time of every kind on three open ids and two phones, one of which may fail anywhere | `ContactsMakeActive`; `OneBonus`; `CapacityOvershootBounded`; `DeletedIsFrozen`; `OnlyCodesRevive`: a refresh token dies with its user; `SomebodyStaysSignedIn`; `OnlyReturnersAreSentAhead`: the waitlist's cached answer sends nobody to a step he has not reached, but those who deleted an account and came back |

`SentAtMostOnce` grants one more SMS per lost answer of Redis, the database or
the provider, and `OneSenderPerTask` needs Redis: the handler goes on when the
`SETNX` fails.  `NotifiedAtMostOnce` and `RemindersLimited` need one consumer per
queue: the marks are per message, and a journey has several messages.

## 4. Bounds

* **Quota**: three clients, so that two decide on one balance while a third
  releases; a grant of 7 with price 5 is one hold and a rest that is too small;
  one top-up; three holds.  The theorems remove all of these bounds.
* **SmsDelivery**: two workers (a rolling update) and one task published twice,
  where at most two faults happen, of different kinds (`MaxFaults`, and one in
  each kind's bound); or one worker and two tasks that share a wallet that pays
  for one, with a fault of every kind.  One retry in place of three: the counter
  only ends the loop.
* **Journey**: time is a sequence of instants; the lead time, the grace period and
  the look-ahead are ten minutes and the scan interval is five, so they are two
  instants each.  In `journey_requests`, where every step may be late by any
  time, instants of ten minutes do, and an update writes the return time that is
  there; in `journey_timely` two updates move it back and forth.  `MaxDelay`
  stands for 24 hours and is no less than any delay of these journeys;
  instant `Horizon` stands for all later ones.  One request in flight and one or
  two in all; one fault.
* **CheckIn**: two users in one group (symmetric); the month begins with or
  without reminders left; one or two changes of settings; one fault; one run of
  the scheduler (the theorems are for any number).  In `checkin_timely` a deadline
  is at the reminder time, as the default is, or at the end of the grace time, in
  groups of one deadline and in mixed ones, with an instant between reminder and
  grace.
* **Captcha**: two goroutines and five requests for one number; two requests in
  the window, two codes a day and a slider from the second on, so that every
  limit is passed; one failing call of Redis and one expiry.
* **Account**: two slots, as every race of the code is one of two requests;
  four requests in all (a login, a change, a deletion and a request that comes
  late); capacity one; three open ids, as two users and a newcomer are what the
  capacity and the phone checks tell apart; two phones; three rows and three
  token pairs per user are as many as four requests can make.
* **MaxMessages** caps the queues in `Journey` and `CheckIn`: publishing is
  disabled beyond it.

Deadlock is checked for `Journey`, where time never stops.  It is not for the others:
a wallet without clients' calls, an empty queue, the end of the day and the
last request of a run are states in which the models stop as the program waits.

## 5. Fairness

* `SmsFairSpec`: weak fairness of a worker's consumer (a goroutine that never
  waits between two calls and takes a message when there is one,
  `storage/mq/consumer.go:60-165`), of the end of a cancelled worker and of the
  restart of a stopped one (a Kubernetes deployment).  Which answer Redis, the
  database or the provider gives is left open.
* `JourneyFairSpec`: weak fairness of time, of the two loops of
  `cmd/scheduler/main.go:123-175`, of each consumer and of the answer to a
  request that has begun.  Nothing is assumed of users; crashes and failed
  publications stay possible within their bound.
* `Timely` in `Journey` and `CheckIn` is a condition on `Tick` and no fairness: time
  waits for those who are due.  The properties that need it say so; without it a
  consumer may be arbitrarily late, as it may be in the program.

## 6. Proofs

`QuotaProofs` proves, for every set of clients and every price, grant and
bound (`ClientsAssumption`, `AmountsAssumption`, `BoundsAssumption`):

| theorem | states |
|---|---|
| `QuotaTypeCorrect` | `QuotaSpec => []QuotaTypeOK`; `used`, `granted` and the ledger never become negative |
| `QuotaBooksBalance` | `QuotaSpec => []BooksBalance`, the two of which follow |
| `QuotaConserved` | `QuotaSpec => []Conservation` |
| `QuotaFrozenIsHeld` | `QuotaSpec => []FrozenIsHeld` |
| `QuotaLedgerReconciles` | `QuotaSpec => []LedgerReconciles` |
| `QuotaOverdraftBounded` | `QuotaSpec => []OverdraftBounded` |
| `QuotaBalanceAfterExact` | `QuotaSpec => BalanceAfterIsExact`, an action property |
| `QuotaNoOverdraft` | with one client `QuotaSpec => []NoOverdraft`, which no run checks: with more it is false |

The argument is one inductive invariant, `QuotaInv`: the types, `Conservation`,
`FrozenIsHeld`, `LedgerReconciles` and `DecidersCovered`.  The first four are
inductive together; `FrozenIsHeld` counts holders, and needs to know by how
much each step changes that count (`HoldersAfterMove`, from the cardinality
facts of `FiniteSetTheorems`).  `OverdraftBounded` alone is not inductive: a
client that has read a balance and not yet committed will take a price that the
invariant does not see.  `DecidersCovered` says that the bound still holds when all
those clients have committed; a client joins them only when the balance it read is
at least one price, and there are at most `Cardinality(Clients)` of them.  With one client
the bound is zero, which is `NoOverdraft`: what the lock of the comment would give for any number.

`QuotaBalanceAfterExact` needs the types and that a step moves one client
(`StepMovesOneClient`): for the others nothing is claimed of the new ledger row.

`AccountProofs` proves, for every set of users, phones and slots, every
capacity and every bound on rows, tokens and faults (`AccountAssumption`):

| theorem | states |
|---|---|
| `AccountTypeCorrect` | `AccountSpec => []AccountTypeOK` |
| `DeletedStaysFrozen` | `AccountSpec => DeletedIsFrozen`, an action property |
| `CapacityBounded` | `AccountSpec => []CapacityOvershootBounded` |
| `RefreshDiesWithUser` | `AccountSpec => []OnlyCodesRevive` |
| `ContactsAndActivation` | `AccountSpec => []ContactsMakeActive` |
| `BonusOnce` | `AccountSpec => []OneBonus` |
| `SnapshotsLeadOnlyReturners` | `AccountSpec => []OnlyReturnersAreSentAhead` |
| `NobodyLocksAllOut` | `AccountSpec => []SomebodyStaysSignedIn` |

`AccountTypeOK` is not inductive: a step that writes a row needs that the
request has found one, and the token that is stored must have been generated.
`AccountInv` adds both (`RequestsOK`) and that only users who exist hold tokens
(`HoldersExist`).  Each action has a lemma that shows `AccountInv` kept, and what
the step does to the table: nothing, one row written, or one added (`RowsMove`).
`DeletedStaysFrozen` follows from that alone, since what is written to a deleted row
differs in its wallet only.  `CapacityOvershootBounded` does not see a request
that has counted and not yet inserted; `CapacityInv` counts those with the users
invited (`Pending`).  A count that finds room leaves at most all slots pending above
`MaxUsers - 1` users, an insert turns a pending request into a user, and every
other step is `Calm`.  `OnlyCodesRevive` holds of the requests at their end;
`GoneInv` says what they carry there: users who were gone when the request began are
gone still, `Exchange` reads live rows only, and a refresh looks its user up
between the check of the token and the next pair.

The next three are about rows that are read early and written late, and share
`UserInv`.  Every step is a `Progress`: a user who has been deleted, has contacts, has
his bonus or has left the onboarding (`Settled`) stays so, and the rank of his step only
grows, but for those a login throws back (`reverted`).  `ReadOK` says what of a request's
copy of the row is still true when it writes: a phone that was read has its
bonus, a list that was not empty is not empty now, a list that was empty belongs
to a user in status `contact` - as everybody with a token is settled - and the step
that will be saved is not ahead.  That no client sends an empty list
(`AccountAssumption`) is needed: `ReplaceContacts` refuses one
(`service/contact.go:416`), else an active user could be left without contacts.
A snapshot is made of a row and served to an open id; `NamesOK` ties the two: no
two live users have one open id, and a snapshot, kept or about to be saved, was made of
a row of its open id.  So that row is the live user's own, where `UserInv` helps, or
one he has deleted.
`SomebodyStaysSignedIn` is about the moments between storing and answering;
`TokenInv` adds that a token that is stored was answered or is about to be, also for
users who have no token yet.

### The SMS pipeline

`SmsProofs` is for any sets of tasks and workers, any number of copies and any
bounds on the faults (`SmsAssumption`; the set of workers is finite and not
empty, and a fault budget may be any number):

| theorem | states |
|---|---|
| `SmsTypeCorrect` | `SmsSpec => []SmsTypeOK` |
| `PipelineImplementsWallet` | `SmsSpec => Wallet!QuotaSpec`: each step is a step of `Quota` with the workers as clients, or stutters |
| `PipelineBooksBalance` | `SmsSpec => []Wallet!BooksBalance`, from `QuotaProofs` |
| `OneSender` | `SmsSpec => []OneSenderPerTask` |
| `RecordsTrue` | `SmsSpec => []RecordsAreTrue` |
| `PaidRecorded` | `SmsSpec => []PaidIsRecorded` |
| `OutcomesFinal` | `SmsSpec => OutcomeIsFinal`, an action property |
| `SentOnce` | `SmsSpec => []SentAtMostOnce` |
| `MessagesKept` | `SmsSpec => []MessagesAreKept` |
| `OutcomesRecorded` | `SmsSpec => []OutcomeIsRecorded` |

The invariants build on each other.  `Typed` has the types and `CallsInOrder`: at
each call of the handler, where the worker is with its hold and what it may
have decided.  With that each call is a step of `Quota`, and its invariant holds of
the wallet (`WalletSound`).  `MarkIsLock` says that while Redis answers the owner
of a task - the worker between `SETNX` and its last call - has the mark, and no
task has two; a handler whose context was cancelled before the wallet owns
nothing, which is why `OneSenderPerTask` is about senders only.
`RowsAreTrue` and `ChargesCovered` relate the records to the sends: a worker
that is about to record a success has charged for it, and one that is about to
charge has sent.  `OutcomesStand` says that the owner of a task that was
delivered or refused for good is giving it up.  `PaymentsKnown` counts the charges
that the row does not show yet against the workers that can still write it
(`Writing`: a cancelled one cannot, and its shutdown is counted); that a success
row is never overwritten comes from `OutcomesStand`.  `ClaimsPaid` counts what
`SentAtMostOnce` cannot see, the workers that may still send (`Entitled`): each of
them stands for a first send or a lost answer.  `CopiesBounded` counts the copies
of a message on both sides of the broker, and `NothingLost` says which steps may
end a pending task's last copy.  `OutcomesExact` is the faultless run: what was
sent and charged at each call, exactly.

### Journeys

`JourneyProofs` is for any finite sets of consumers, any requests and any instants
(`JourneyAssumption`):

| theorem | states |
|---|---|
| `JourneyTypeCorrect` | `JourneySpec => []JourneyTypeOK` |
| `JourneyEndIsFinal` | `JourneySpec => EndIsFinal`, an action property |
| `JourneyTasksPublished` | `JourneySpec => []TasksArePublished` |
| `JourneyNotified` | at most one alert and one reminder for each goroutine (failed stamps aside), and none without a task |
| `JourneyNotifiedOnce` | with one goroutine per queue `JourneySpec => []NotifiedAtMostOnce` |
| `JourneyAlertRecorded` | with one timeout consumer `JourneySpec => []AlertIsRecorded` |
| `JourneyRemindedFirst` | if `TimesFit`, `JourneySpec => []RemindedBeforeAlert` |

The worker starts one goroutine for each queue, so one consumer is what runs
outside a rolling update; the theorems with that hypothesis follow from
bounds that hold for any number.  `NotifiedAtMostOnce` is not inductive: a consumer that has
read an ongoing journey will alert, whatever happens meanwhile.  `AlertsBounded`
counts those consumers with the alerts; none reads an ongoing journey after
the first alert (`RowGoesOn`).  `RemindersBounded` does the same for reminders,
where a stamp that fails lets the next message remind again.

`RemindedBeforeAlert` is about the order of two messages that both wait.  Its
invariant `InOrder` holds while everyone keeps up and nothing has failed.  It says
that an update leaves time (`UpdatesLeaveTime`), that what the scan has seen is marked
(`DueIsMarked`), that before the scan there is no message that could alert
(`NothingBeforeScan`), that the scan publishes the reminder first (`ScanIsOrdered`),
that the reminder arrives in time (`RemindersInTime`) and that every message that could
alert comes after it (`AlertsComeLast`).  `TimesFit` asks of the constants
`1 <= Lead`, `1 <= Grace` and `Window < Lead + Grace`.  All three are ten
minutes in the code (`service/journey.go:65`, `cmd/scheduler/main.go:141`,
`service/journey.go:659`).  The last condition cannot be dropped: TLC finds
an alert without reminder when the scan looks `Lead + Grace` ahead.

### The daily check-in

`CheckInProofs` is for any number of users, any finite sets of consumers and any
instants (`CheckInAssumption`):

| theorem | states |
|---|---|
| `CheckInTypeCorrect` | `CheckInSpec => []CheckInTypeOK` |
| `CheckInTasksPublished` | `CheckInSpec => []TasksArePublished` |
| `CheckInReminders` | `ReminderLimits`, with at least one reminder consumer |
| `CheckInAlerts` | `CheckInSpec => []AlertLimits` |
| `CheckInRemindersLimited` | with one reminder consumer `CheckInSpec => []RemindersLimited` |
| `CheckInAlertRecorded` | with one timeout consumer `CheckInSpec => []AlertIsRecorded` |
| `CheckInInTime` | `CheckInSpec => []InTimeKept` |
| `CheckInEnabledReminded` | `CheckInSpec => []EnabledIsReminded`, with `UpdatesRebuild` and `RemindAt <= GraceUntil` |
| `CheckInForgottenAlerted` | `CheckInSpec => []ForgottenIsAlerted` |

`Typed` adds to the types that a run, an update and a batch are about somebody,
that a consumer is in the handler of its queue and that it picks users it has
read.  The limits again count who is in the middle of something, user by user
(`HandsAt`): consumers that have selected a user and not yet created the task
count as reminders of the day (`RemindersBounded`) and of the month
(`MonthBounded`), those that have read a row and not yet committed count as
timeouts (`AlertsBounded`).  A consumer joins the former only when there is no
task and Redis says that the limit is not reached, or fails, which is the failure
the limit is up to; it joins the latter only when the row has no alert, and
`AlertedIsCounted` says that then there was none.  A reminder that is rolled back
leaves the month's counter one higher and makes room for nobody.
`TasksArePublished` needs `AlertsPublished`: without failures the rounds of
alerts are exactly those handed out and those whose consumer is about to.

Both queues are bags (`DelayedQueue`).  `Aged` is written without a sum over the
bag, since what a recursive sum yields is an induction the prover cannot do; it
moves each message one instant closer (`AgedIsABag`).

The last three theorems are about a day on which nothing fails and everyone keeps
up, for any number of users, changes of settings and runs of the scheduler.  A user
is owed a reminder (`Owed`) while enabled, below the limit and without a task, unless
the settings changed after the grace time - or, where users change deadlines
(`UpdatesRebuild` is false), changed at all.  `OwedIsOnItsWay` says where that
reminder is: in a message that the consumer will not drop, in a batch that will
create the task, with an update that is going to publish it, or with the first run
of the day.  Rest on it: messages are due at the reminder time (`MessagesInTime`), an
update publishes in the instant it wrote the cache (`PublishersInTime`), and the
cache tells what the database does (`CacheTells`).  When the grace time is over none
of the four places is left, so nobody is owed one.  For the timeout, `ColdTimesOut`
says of who has left the settings alone and can still be reminded, or was and has
not checked in, that the timeout is on its way and the last deadline not over, unless
a timeout has overlooked him; and `TimeoutsInTime` that whatever is on its way is due
at one of the group's deadlines (`DueTimes`).
`ColdSettled` is why it finds the row: after the reminder time no reminder is
created or sent to such a user any more, which needs `OwedIsOnItsWay` and
`TasksArePublished`.

`ForgottenIsAlerted` is for any deadlines, mixed, changed or at the default, where
deadline and reminder are one (`model/user.go:28-30`).  Both messages are then due at
once, and a timeout that comes first finds no row and does not come again: the
user is reminded and nobody is alerted.  The history variable `overlooked` records
these users; the code keeps no such list.  Without the exception TLC finds a violation in
`checkin_timely`; that it needs a deadline no later than the reminder is part of the
property.  A message has the deadline of the first user only
(`schedule/checkin_scheduler.go:369`), so in mixed groups no more can be said than that
the timeout lies between the first deadline and the last.

`EnabledIsReminded` does need `UpdatesRebuild`: a new deadline makes the consumer drop
the reminder's message and publishes none (`service/checkin.go:160`), and the
property fails in `checkin_timely` with `UpdateKinds = {"deadline"}`.

### Verification codes and the limiter

`CaptchaProofs` is for any finite set of goroutines and any limits
(`CaptchaAssumption`):

| theorem | states |
|---|---|
| `CaptchaTypeCorrect` | `CaptchaSpec => []CaptchaTypeOK` |
| `LimiterHolds` | `CaptchaSpec => []LimitHolds` |
| `DailyLimitsHold` | `CaptchaSpec => []DailyLimits` |
| `OneLogin` | `CaptchaSpec => []OneLoginPerCode` |
| `CodeWorks` | `CaptchaSpec => []DeliveredCodeWorks` |

Every step of `Captcha` is a step of the limiter, or lets a handler give up its slot
(`LimiterStep`): a handler that loses Redis counts a fault of the limiter's Redis
too, so the composition is the limiter's specification with one more action, and the
limiter's properties are proved of that.  Entries older than one that was
admitted only age, so a request that was admitted was counted when no more than
the limit was in the window.  `DailyLimits` is not inductive: a request
that `INCR` has let through has not stored its code.  `Counted` covers what is
done and still to come by the requests that arrived, by those that were counted
and by the limits they were compared with.  `LoginsBounded` counts the requests
between the comparison and the deletion of a code; `CodesKept` says that unless
something failed or expired the newest code is stored until it logs somebody in.

### Not proved

Every safety property that a run checks is stated by a theorem, but the three
comments that runs refute (section 7).  Liveness (`EveryMessageSettles`,
`OverdueIsHandled`) stays with TLC: the prover does not treat fairness and
`ENABLED`.

## 7. Where code and comments differ

Shown by a run, and listed under `findings`:

* The deferred clean-up of the mark uses the consumer's context
  (`queue/consumer.go:742`); after a shutdown it fails, and the message that
  comes back is skipped (`sms_shutdown`).
* A timeout message is published with whole seconds of delay
  (`schedule/journey_scheduler.go:249`) and can arrive before the ten minutes
  its comment promises; the consumer drops it as too early (`journey_truncated`).
* The timeout of a check-in looks at `alert_triggered_at` and not at the status
  (`service/checkin.go:661`), so users who checked in are alerted, against the
  comment on the function (`checkin_alerted`).

Met while modelling, in the models, and not given a run of their own:

* `service/quota.go:42` promises a pessimistic lock; the query takes none, and
  two clients overdraw the wallet.  `OverdraftBounded` is what remains true.
* `service/user.go:467` lets only as many users in as there are places; a
  waitlisted user who logs in afterwards is bound to his phone without a look
  at the capacity (`LoginBind`).
* `service/auth.go:515` finds deleted users: a login by code into such a row
  writes nothing and hands out tokens for it (`VerifyFallback`).
* `service/auth.go:651` writes the status that follows from an earlier read.  A
  user whose first contact was added in between is in status contact, with
  contacts, and no later contact activates him (`reverted`).
* `handler/contact.go:114-134` never binds the request of PATCH, so that
  `UpdateContact` always refuses an empty one.
* `service/verification.go:96-108` answers success in production when the SMS
  failed and the code was deleted - whichever code was stored by then.
* `service/verification.go:148` says that a solved slider lasts five minutes; the
  key lives for ten.
* The comments of `middleware/ratelimit.go:51, 52, 62, 211` name other limits than
  the values beside them.
* `schema/schema.sql:52` wants the numbers of a user's contacts to differ; no
  code looks.
* `service/journey.go:718` updates by id: a journey that its user completes
  between the read and the commit becomes a timeout although it is over.
  `EndIsFinal` is what remains true: nobody decides that after the completion.
* `storage/mq/consumer.go:119` announces that the mark is cleaned up before a
  message is dead-lettered; it only logs.
* `service/notification.go:299` acknowledges what cannot be retried, where
  `pkg/errors/errors.go:174` speaks of the dead letter queue.
* `balance_after` is computed from the row as it was read: overtaken
  transactions record a balance the wallet never had.  `BalanceAfterIsExact`
  is what remains true.
* `service/user.go:207` compares a time of the year 0 with now, so a change of
  the reminder time is always refused; `CheckIn` therefore has one constant
  `RemindAt`.
* `schedule/checkin_scheduler.go:423` leaves a failed timeout publication to
  the next run, which is the next day's.
* `service/checkin.go:160` drops a reminder whose user has changed only the
  deadline, although `:185` means to keep it; `service/user.go:273-285` makes no
  new one, and the user is not reminded that day.
* `service/user.go:451` serves the waitlist's answer by open id, and `DeleteUser`
  (`:399-405`) leaves it: who deletes his account and signs up again within
  five minutes is told the step of the old account.  `OnlyReturnersAreSentAhead`
  is what remains true.
* At the defaults of `model/user.go:28-30` the deadline is the reminder time: a
  timeout that is handled before the reminder's SMS finds no row, and the user is
  reminded but never alerted for.  Users with another deadline than the first of
  their group time out at his (`schedule/checkin_scheduler.go:369`).
  `ForgottenIsAlerted` is what remains true.

## 8. Not modelled, and why

* The publisher's cached channel and the snowflake ids: publishing is one step
  that may fail in every model, and ids are unique.  The protected cache serves
  reads only.
* Routing, telemetry, configuration, encryption and the provider clients are I/O
  or stateless.  Generated queries and the schema are the rows of the models.
* `SmsDelivery`, `Journey`, `CheckIn`: payloads, phone numbers and templates are
  abstract; all contacts of a user are one round of alerts; one change of
  settings is in progress at a time; retries in `Journey` and `CheckIn` end by
  success or by the fault budget, since `SmsDelivery` has the retry limit and the
  dead letter queue.  Left out with that: an error while the daily run reads one
  user's marks (`schedule/checkin_scheduler.go:119`); two changes of settings
  at once, which can leave a stale cache (`service/user.go:258`); a timeout that
  failed to publish and a user over the monthly limit, whom nobody is alerted for;
  a scheduler that starts after 00:05, whose day has no reminders
  (`cmd/scheduler/main.go:96`: `ScheduleRuns` allows it, the properties of
  `checkin_timely` assume a run).
* `Captcha`: one number, one client address and one day; two random codes never
  collide; the limiter of `/auth` in front of the one for codes, which is the same
  code with another key.
* `RateLimiter`: `ZADD`s in the same nanosecond, which would share an entry; an
  answer to `IsBlocked` that fails, which is 500.
* `Account`: names and numbers of contacts; `is_new_user`; pairs of tokens signed
  in the same second are one pair; the unique index on a wallet's user and channel,
  which would refuse a second wallet that `OneBonus` shows is never made; the rate refusal of the waitlist
  (`service/user.go:439-448`); access tokens never expire within a run.

## 9. Plan

The order follows what the product is for: that an alert goes out, once, and
is paid for.

1. *Done*: `Quota` and `Account` with their proofs, `SmsDelivery` composed with
   `Quota`, `Journey`, `CheckIn`, `Captcha` composed with `RateLimiter`; their
   runs and mutants.
2. *Next models*: `Publisher` (shared channel and close notice) and the ids as
   small modules; concurrent changes of settings.
3. *Done*: proofs of every safety property of `Quota`, `Account`, `SmsDelivery`,
   `Journey`, `CheckIn` and `Captcha`.
4. *Next proofs*: what the new models promise.
