------------------------------ MODULE CheckIn ------------------------------
(***************************************************************************)
(* The daily check-in of a group of users with one reminder time, from the *)
(* run of the scheduler after midnight to the end of the day: the delayed  *)
(* reminder and timeout messages for the group, the consumers that remind  *)
(* the users and alert their emergency contacts, the users who check in    *)
(* and change their settings.                                              *)
(*                                                                         *)
(* A user has no row in daily_check_ins before the reminder SMS was sent   *)
(* or the user has checked in.  Time is a sequence of instants.            *)
(*                                                                         *)
(* The reminder time itself never changes: UpdateUserSettings parses it    *)
(* without a date and rejects every value as too close (user.go:207).  So  *)
(* the snapshot of the settings in a message is left out: only its         *)
(* reminder time is compared to any effect.                                *)
(***************************************************************************)
EXTENDS Integers, FiniteSets, DelayedQueue

CONSTANTS
    Users,
    ReminderConsumers, \* goroutines of StartCheckInReminderConsumer
    TimeoutConsumers,  \* goroutines of StartCheckInTimeoutConsumer
    RemindAt,          \* daily_check_in_remind_at
    Deadlines,         \* the values of daily_check_in_deadline, and those
    InitialDeadlines,  \* it has in the morning
    GraceUntil,        \* daily_check_in_grace_until
    EndOfDay,
    MonthlyReminderLimit,
    UpdateKinds,       \* which settings users change, and how often in all
    MaxUpdates,
    ScheduleRuns,      \* how often the scheduler runs on this day
    FaultKinds,        \* what may fail, and how often in all
    MaxFaults,
    MaxMessages,       \* bound on the messages waiting in the queues
    Timely             \* everyone keeps up with time

ASSUME CheckInAssumption ==
    /\ IsFiniteSet(ReminderConsumers) /\ IsFiniteSet(TimeoutConsumers)
    /\ ReminderConsumers \cap TimeoutConsumers = {}
    /\ {RemindAt, GraceUntil, EndOfDay, MonthlyReminderLimit,
        MaxUpdates, ScheduleRuns} \subseteq Nat
    /\ InitialDeadlines \subseteq Deadlines /\ Deadlines \subseteq 0..EndOfDay
    /\ UpdateKinds \subseteq {"enabled", "deadline"}
    /\ FaultKinds \subseteq {"crash", "db", "redis", "publish"}
    /\ Timely \in BOOLEAN

VARIABLES
    now,
    settings,   \* users: daily_check_in_enabled, daily_check_in_deadline
    cached,     \* Redis user:settings:<user>: whether the check-in is enabled,
                \* and since when (never: no entry)
    marks,      \* Redis checkin:reminder/timeout:scheduled:<date>:<user>
    monthly,    \* Redis checkin:reminder:monthly:<user>:<month>
    row,        \* the day's daily_check_ins rows
    created,    \* the day's check_in_reminder tasks, by user
    pending,    \* those of them whose SMS is not settled
    waiting,    \* those of them that are in the SMS queue
    alerts,     \* rounds of check_in_timeout tasks, by user
    unpaid,     \* timeouts the wallet did not pay for, by user
    notified,   \* rounds of alerts handed to the SMS queue, by user
    overlooked, \* history: users without a row when a timeout looked for
                \* them, no later than the time of the reminder
    queue,      \* messages waiting for the two consumers
    hand,       \* what each consumer does
    update,     \* what UpdateUserSettings does
    sched,      \* what ScheduleDailyCheckIns does
    updates, runs, faults

taskVars == <<created, pending, waiting>>
alertVars == <<alerts, unpaid, notified, overlooked>>
redisVars == <<cached, marks, monthly>>
countVars == <<updates, runs>>
checkInVars == <<now, settings, redisVars, row, taskVars, alertVars, queue,
                 hand, update, sched, countVars, faults>>

Consumers == ReminderConsumers \cup TimeoutConsumers
Kind(c) == IF c \in ReminderConsumers THEN "reminder" ELSE "timeout"
Never == -1

Message(kind, users, at, delay, marked) ==
    [kind |-> kind, users |-> users, at |-> at, delay |-> delay,
     marked |-> marked]

NoRow == [status |-> "none", reminded |-> FALSE, alerted |-> FALSE]
Idle == [pc |-> "idle", users |-> {}, at |-> 0, marked |-> FALSE,
         valid |-> {}, picked |-> {}]
NoUpdate == [pc |-> "idle", users |-> {}, enabled |-> FALSE,
             affects |-> FALSE, at |-> 0]
NoRun == [pc |-> "idle", users |-> {}, at |-> 0, due |-> [u \in Users |-> 0]]

CheckInTypeOK ==
    /\ now \in 0..EndOfDay
    /\ settings \in [Users -> [enabled : BOOLEAN, deadline : Deadlines]]
    /\ cached \in [Users -> [enabled : BOOLEAN, at : Nat \cup {Never}]]
    /\ marks \in [reminder : SUBSET Users, timeout : SUBSET Users]
    /\ monthly \in [Users -> Nat]
    /\ row \in [Users -> [status : {"none", "pending", "done", "timeout"},
                          reminded : BOOLEAN, alerted : BOOLEAN]]
    /\ created \in [Users -> Nat] /\ pending \in [Users -> Nat]
    /\ waiting \in [Users -> Nat]
    /\ \A u \in Users : waiting[u] <= pending[u] /\ pending[u] <= created[u]
    /\ alerts \in [Users -> Nat] /\ unpaid \in [Users -> Nat]
    /\ notified \in [Users -> Nat] /\ overlooked \subseteq Users
    /\ IsABag(queue)
    /\ BagToSet(queue) \subseteq
          [kind : {"reminder", "timeout"}, users : (SUBSET Users) \ {{}},
           at : 0..EndOfDay, delay : Nat, marked : BOOLEAN]
    /\ hand \in [Consumers -> [pc : {"idle", "validate", "select", "create",
                                     "publish", "read", "alert", "notify",
                                     "finish"},
                               users : SUBSET Users, at : 0..EndOfDay,
                               marked : BOOLEAN, valid : SUBSET Users,
                               picked : SUBSET Users]]
    /\ update \in [pc : {"idle", "cache", "unmark", "publish"},
                   users : SUBSET Users, enabled : BOOLEAN, affects : BOOLEAN, at : 0..EndOfDay]
    /\ sched \in [pc : {"idle", "filter", "remind", "markReminder", "timeout",
                        "markTimeout"},
                  users : SUBSET Users, at : 0..EndOfDay,
                  due : [Users -> Deadlines \cup {0}]]
    /\ updates \in 0..MaxUpdates /\ runs \in 0..ScheduleRuns
    /\ faults \in [{"crash", "db", "redis", "publish"} -> Nat]

(* After midnight; the month may have used up some of its reminders.       *)
CheckInInit ==
    /\ now = 0
    /\ settings \in [Users -> [enabled : {TRUE}, deadline : InitialDeadlines]]
    /\ cached = [u \in Users |-> [enabled |-> FALSE, at |-> Never]]
    /\ marks = [reminder |-> {}, timeout |-> {}]
    /\ monthly \in [Users -> 0..MonthlyReminderLimit]
    /\ row = [u \in Users |-> NoRow]
    /\ created = [u \in Users |-> 0] /\ pending = created /\ waiting = created
    /\ alerts = created /\ unpaid = created /\ notified = created
    /\ overlooked = {}
    /\ queue = EmptyBag
    /\ hand = [c \in Consumers |-> Idle]
    /\ update = NoUpdate
    /\ sched = NoRun
    /\ updates = 0 /\ runs = 0
    /\ faults = [crash |-> 0, db |-> 0, redis |-> 0, publish |-> 0]

-----------------------------------------------------------------------------

Fault(kind) ==
    /\ kind \in FaultKinds
    /\ faults.crash + faults.db + faults.redis + faults.publish < MaxFaults
    /\ faults' = [faults EXCEPT ![kind] = @ + 1]

NoFault == UNCHANGED faults

Until(time) == IF time > now THEN time - now ELSE 0

(* PublishCheckInReminder and PublishCheckInTimeout                        *)
Post(kind, users, at, delay) ==
    /\ BagCardinality(queue) < MaxMessages
    /\ queue' = With(queue, Message(kind, users, at, delay, FALSE))

(* One more of something for each of some users.                           *)
CountFor(counts, users) ==
    [u \in Users |-> IF u \in users THEN counts[u] + 1 ELSE counts[u]]

-----------------------------------------------------------------------------
(* ScheduleDailyCheckIns and scheduleTimeGroup                             *)

GotoSched(pc) == sched' = [sched EXCEPT !.pc = pc]

(* The enabled users and their marks.  A user whose marks Redis does not   *)
(* tell counts as scheduled.                                               *)
ScheduleRead ==
    /\ sched.pc = "idle" /\ runs < ScheduleRuns
    /\ runs' = runs + 1
    /\ LET users == {u \in Users : settings[u].enabled}
           both == marks.reminder \cap marks.timeout
       IN  \/ /\ sched' = IF users \subseteq both THEN NoRun
                          ELSE [pc |-> "filter", users |-> users, at |-> now,
                                due |-> [u \in Users |-> settings[u].deadline]]
              /\ NoFault
           \/ /\ \E kind \in {"db", "redis"} : Fault(kind)
              /\ sched' = NoRun
    /\ UNCHANGED <<now, settings, redisVars, row, taskVars, alertVars, queue,
                   hand, update, updates>>

(* Users who have a reminder or timeout task are left out.                 *)
HasTask == {u \in Users : created[u] + alerts[u] > 0}

TooLate == now > RemindAt /\ now >= GraceUntil

ScheduleFilter ==
    /\ sched.pc = "filter"
    /\ \E left \in SUBSET sched.users :
          /\ \/ left = sched.users \ HasTask /\ NoFault
             \/ left = sched.users /\ Fault("db")
          /\ sched' = IF left = {} \/ TooLate THEN NoRun
                      ELSE [sched EXCEPT !.pc = "remind", !.users = left,
                                         !.at = now]
    /\ UNCHANGED <<now, settings, redisVars, row, taskVars, alertVars, queue,
                   hand, update, countVars>>

ScheduleReminder ==
    /\ sched.pc = "remind"
    /\ \/ /\ Post("reminder", sched.users, sched.at, Until(RemindAt))
          /\ GotoSched("markReminder")
          /\ NoFault
       \/ Fault("publish") /\ sched' = NoRun /\ UNCHANGED queue
    /\ UNCHANGED <<now, settings, redisVars, row, taskVars, alertVars, hand,
                   update, countVars>>

MarkReminderScheduled ==
    /\ sched.pc = "markReminder"
    /\ \E marked \in SUBSET sched.users :
          /\ IF marked = sched.users THEN NoFault ELSE Fault("redis")
          /\ marks' = [marks EXCEPT !.reminder = @ \cup marked]
    /\ GotoSched("timeout")
    /\ UNCHANGED <<now, settings, cached, monthly, row, taskVars, alertVars,
                   queue, hand, update, countVars>>

(* Broken variant: the group times out at the time of its reminder.        *)
MutScheduleTimeout ==
    /\ sched.pc = "timeout"
    /\ \/ /\ Post("timeout", sched.users, sched.at, Until(RemindAt))
          /\ GotoSched("markTimeout")
          /\ NoFault
       \/ Fault("publish") /\ sched' = NoRun /\ UNCHANGED queue
    /\ UNCHANGED <<now, settings, redisVars, row, taskVars, alertVars, hand,
                   update, countVars>>

(* The whole group times out at the deadline of its first user, of         *)
(* whichever the database has returned first.                              *)
ScheduleTimeout ==
    /\ sched.pc = "timeout"
    /\ \/ /\ \E first \in sched.users :
                Post("timeout", sched.users, sched.at,
                     Until(sched.due[first]))
          /\ GotoSched("markTimeout")
          /\ NoFault
       \/ Fault("publish") /\ sched' = NoRun /\ UNCHANGED queue
    /\ UNCHANGED <<now, settings, redisVars, row, taskVars, alertVars, hand,
                   update, countVars>>

MarkTimeoutScheduled ==
    /\ sched.pc = "markTimeout"
    /\ \E marked \in SUBSET sched.users :
          /\ IF marked = sched.users THEN NoFault ELSE Fault("redis")
          /\ marks' = [marks EXCEPT !.timeout = @ \cup marked]
    /\ sched' = NoRun
    /\ UNCHANGED <<now, settings, cached, monthly, row, taskVars, alertVars,
                   queue, hand, update, countVars>>

SchedulerStops ==
    /\ sched.pc # "idle"
    /\ Fault("crash")
    /\ sched' = NoRun
    /\ UNCHANGED <<now, settings, redisVars, row, taskVars, alertVars, queue,
                   hand, update, countVars>>

-----------------------------------------------------------------------------
(* The users                                                               *)

(* CompleteCheckIn: an upsert that sets the status and keeps the rest.     *)
CompleteCheckIn(u) ==
    /\ settings[u].enabled
    /\ row[u].status # "done"
    /\ row' = [row EXCEPT ![u].status = "done"]
    /\ UNCHANGED <<now, settings, redisVars, taskVars, alertVars, queue, hand,
                   update, sched, countVars, faults>>

(* UpdateUserSettings: the UPDATE, the cache entry, the scheduler's marks  *)
(* and a new reminder.  A new deadline does not affect the reminder.       *)
UpdateSettings(u) ==
    /\ update.pc = "idle" /\ updates < MaxUpdates
    /\ updates' = updates + 1
    /\ \/ /\ "enabled" \in UpdateKinds
          /\ \E enabled \in BOOLEAN :
                /\ settings' = [settings EXCEPT ![u].enabled = enabled]
                /\ update' = [NoUpdate EXCEPT !.pc = "cache", !.users = {u},
                                 !.enabled = enabled, !.affects = TRUE]
       \/ /\ "deadline" \in UpdateKinds
          /\ \E d \in Deadlines \ {settings[u].deadline} :
                settings' = [settings EXCEPT ![u].deadline = d]
          /\ update' = [NoUpdate EXCEPT !.pc = "cache", !.users = {u},
                           !.enabled = settings[u].enabled]
    /\ UNCHANGED <<now, redisVars, row, taskVars, alertVars, queue, hand,
                   sched, runs, faults>>

(* Broken variant: the grace time is not used.                             *)
MutRebuilds == update.enabled /\ update.affects /\ now <= RemindAt

(* buildReminderMessage gives none after the grace time.                   *)
Rebuilds == update.enabled /\ update.affects /\ ~TooLate

CacheSettings ==
    /\ update.pc = "cache"
    /\ \/ /\ cached' = [u \in Users |->
                        IF u \in update.users
                        THEN [enabled |-> update.enabled, at |-> now]
                        ELSE cached[u]]
          /\ NoFault
       \/ Fault("redis") /\ UNCHANGED cached
    /\ update' = IF Rebuilds THEN [update EXCEPT !.pc = "unmark", !.at = now]
                 ELSE NoUpdate
    /\ UNCHANGED <<now, settings, marks, monthly, row, taskVars, alertVars,
                   queue, hand, sched, countVars>>

UnmarkCheckinScheduled ==
    /\ update.pc = "unmark"
    /\ \/ /\ marks' = [marks EXCEPT !.reminder = @ \ update.users,
                                    !.timeout = @ \ update.users]
          /\ NoFault
       \/ Fault("redis") /\ UNCHANGED marks
    /\ update' = [update EXCEPT !.pc = "publish"]
    /\ UNCHANGED <<now, settings, cached, monthly, row, taskVars, alertVars,
                   queue, hand, sched, countVars>>

UpdatePublish ==
    /\ update.pc = "publish"
    /\ \/ /\ Post("reminder", update.users, update.at, Until(RemindAt))
          /\ NoFault
       \/ Fault("publish") /\ UNCHANGED queue
    /\ update' = NoUpdate
    /\ UNCHANGED <<now, settings, redisVars, row, taskVars, alertVars, hand,
                   sched, countVars>>

(* The server process dies in the middle of the request.                   *)
RequestLost ==
    /\ update.pc # "idle"
    /\ Fault("crash")
    /\ update' = NoUpdate
    /\ UNCHANGED <<now, settings, redisVars, row, taskVars, alertVars, queue,
                   hand, sched, countVars>>

-----------------------------------------------------------------------------
(* The consumers                                                           *)

GotoHand(c, pc) == hand' = [hand EXCEPT ![c].pc = pc]

GiveBack(c, marked) ==
    /\ queue' = With(queue, Message(Kind(c), hand[c].users, hand[c].at, 0,
                                    marked))
    /\ hand' = [hand EXCEPT ![c] = Idle]

Hold(c, m, marked) ==
    hand' = [hand EXCEPT ![c] =
                [Idle EXCEPT !.pc = IF m.kind = "reminder" THEN "validate"
                                    ELSE "read",
                             !.users = m.users, !.at = m.at,
                             !.marked = marked]]

(* Delivery and TryMarkMessageProcessing: a marked message is skipped, and *)
(* handled when Redis does not answer.                                     *)
Take(c, m) ==
    /\ hand[c].pc = "idle"
    /\ m.kind = Kind(c) /\ m.delay = 0
    /\ queue' = Without(queue, m)
    /\ \/ m.marked /\ NoFault /\ UNCHANGED hand
       \/ ~m.marked /\ NoFault /\ Hold(c, m, TRUE)
       \/ Fault("redis") /\ Hold(c, m, m.marked)
    /\ UNCHANGED <<now, settings, redisVars, row, taskVars, alertVars, update,
                   sched, countVars>>

(* ValidateReminderBatch: who changed settings after the message was made  *)
(* is left to the write path, which has made a message of its own.         *)
Unchanged(u, at) == cached[u].at = Never \/
                    (cached[u].at <= at /\ cached[u].enabled)

ValidateReminderBatch(c) ==
    /\ hand[c].pc = "validate"
    /\ \E valid \in SUBSET hand[c].users :
          /\ \/ /\ valid = {u \in hand[c].users : Unchanged(u, hand[c].at)}
                /\ NoFault
             \/ Fault("redis") /\ valid = hand[c].users
          /\ hand' = [hand EXCEPT ![c].valid = valid,
                         ![c].pc = IF valid = {} THEN "finish" ELSE "select"]
    /\ UNCHANGED <<now, settings, redisVars, row, taskVars, alertVars, queue,
                   update, sched, countVars>>

(* Broken variant: one reminder more than the limit.                       *)
MutBelowLimit(u) == monthly[u] <= MonthlyReminderLimit

BelowLimit(u) == monthly[u] < MonthlyReminderLimit

Due(c) == {u \in hand[c].valid : settings[u].enabled /\ created[u] = 0}

(* ProcessReminderBatch: the users still enabled who have no task yet and  *)
(* are below the limit of the month (or Redis does not tell).              *)
SelectUsers(c) ==
    /\ hand[c].pc = "select"
    /\ LET due == Due(c)
           below == {u \in due : BelowLimit(u)}
       IN  \/ hand' = [hand EXCEPT ![c].picked = below, ![c].pc = "create"]
              /\ NoFault
           \/ \E u \in due \ below :
                 hand' = [hand EXCEPT ![c].picked = below \cup {u},
                                      ![c].pc = "create"]
              /\ Fault("redis")
    /\ UNCHANGED <<now, settings, redisVars, row, taskVars, alertVars, queue,
                   update, sched, countVars>>

(* Broken variant: the number of created tasks gets lost.                  *)
MutCreateReminders(c) ==
    /\ hand[c].pc = "create"
    /\ created' = CountFor(created, hand[c].picked)
    /\ pending' = CountFor(pending, hand[c].picked)
    /\ monthly' = CountFor(monthly, hand[c].picked)
    /\ GotoHand(c, "finish")
    /\ UNCHANGED <<now, settings, cached, marks, row, waiting, alertVars,
                   queue, update, sched, countVars, faults>>

(* The transaction commits, its counters in Redis already incremented.     *)
CreateReminders(c) ==
    /\ hand[c].pc = "create"
    /\ created' = CountFor(created, hand[c].picked)
    /\ pending' = CountFor(pending, hand[c].picked)
    /\ \/ monthly' = CountFor(monthly, hand[c].picked) /\ NoFault
       \/ \E lost \in hand[c].picked :
             /\ monthly' = CountFor(monthly, hand[c].picked \ {lost})
             /\ Fault("redis")
    /\ GotoHand(c, IF hand[c].picked = {} THEN "finish" ELSE "publish")
    /\ UNCHANGED <<now, settings, cached, marks, row, waiting, alertVars,
                   queue, update, sched, countVars>>

(* It is rolled back half way: Redis keeps what it has counted.            *)
RollBackReminders(c) ==
    /\ hand[c].pc = "create"
    /\ \/ Fault("db") /\ GiveBack(c, FALSE)
       \/ Fault("crash") /\ GiveBack(c, hand[c].marked)
    /\ \E done \in SUBSET hand[c].picked : monthly' = CountFor(monthly, done)
    /\ UNCHANGED <<now, settings, cached, marks, row, taskVars, alertVars,
                   update, sched, countVars>>

(* Broken variant: tasks are published whatever their status.              *)
MutPublishReminders(c) ==
    /\ hand[c].pc = "publish"
    /\ waiting' = [u \in Users |-> IF u \in hand[c].valid
                                   THEN created[u] ELSE waiting[u]]
    /\ GotoHand(c, "finish")
    /\ UNCHANGED <<now, settings, redisVars, row, created, pending, alertVars,
                   queue, update, sched, countVars, faults>>

(* Every pending task of the batch's users is published, those of earlier  *)
(* batches too (the SMS consumer skips their duplicates); of all users, or *)
(* none, when a query fails.  No failure is an error here.                 *)
PublishReminders(c) ==
    /\ hand[c].pc = "publish"
    /\ \/ /\ waiting' = [u \in Users |-> IF u \in hand[c].valid
                                         THEN pending[u] ELSE waiting[u]]
          /\ NoFault
       \/ /\ \E kind \in {"db", "publish"} : Fault(kind)
          /\ waiting' = waiting \/ waiting' = pending
    /\ GotoHand(c, "finish")
    /\ UNCHANGED <<now, settings, redisVars, row, created, pending, alertVars,
                   queue, update, sched, countVars>>

(* ProcessTimeoutBatch reads the rows without an alert and the wallets.    *)
ReadTimeouts(c) ==
    /\ hand[c].pc = "read"
    /\ LET listed == {u \in hand[c].users :
                         row[u].status # "none" /\ ~row[u].alerted}
       IN  \E paid \in SUBSET listed :
              hand' = [hand EXCEPT ![c].valid = listed, ![c].picked = paid,
                                   ![c].pc = "alert"]
    /\ overlooked' = overlooked \cup
          {u \in hand[c].users : row[u].status = "none" /\ now <= RemindAt}
    /\ UNCHANGED <<now, settings, redisVars, row, taskVars, alerts, unpaid,
                   notified, queue, update, sched, countVars, faults>>

(* The transaction updates the rows it has read, by id.                    *)
CommitTimeouts(c) ==
    /\ hand[c].pc = "alert"
    /\ row' = [u \in Users |-> IF u \in hand[c].valid
                               THEN [row[u] EXCEPT !.status = "timeout",
                                                   !.alerted = TRUE]
                               ELSE row[u]]
    /\ alerts' = CountFor(alerts, hand[c].picked)
    /\ unpaid' = CountFor(unpaid, hand[c].valid \ hand[c].picked)
    /\ GotoHand(c, IF hand[c].picked = {} THEN "finish" ELSE "notify")
    /\ UNCHANGED <<now, settings, redisVars, taskVars, notified, overlooked,
                   queue, update, sched, countVars, faults>>

PublishAlerts(c) ==
    /\ hand[c].pc = "notify"
    /\ \/ notified' = CountFor(notified, hand[c].picked) /\ NoFault
       \/ /\ \E kind \in {"db", "publish"} : Fault(kind)
          /\ UNCHANGED notified
    /\ GotoHand(c, "finish")
    /\ UNCHANGED <<now, settings, redisVars, row, taskVars, alerts, unpaid,
                   overlooked, queue, update, sched, countVars>>

(* MarkMessageProcessed and Ack.                                           *)
Finish(c) ==
    /\ hand[c].pc = "finish"
    /\ hand' = [hand EXCEPT ![c] = Idle]
    /\ UNCHANGED <<now, settings, redisVars, row, taskVars, alertVars, queue,
                   update, sched, countVars, faults>>

(* A database error: the mark is cleared and the message comes again.      *)
Retry(c) ==
    /\ hand[c].pc \in {"select", "read", "alert"}
    /\ Fault("db")
    /\ GiveBack(c, FALSE)
    /\ UNCHANGED <<now, settings, redisVars, row, taskVars, alertVars, update,
                   sched, countVars>>

(* The worker dies: the message comes again, and its mark is still there.  *)
Crash(c) ==
    /\ hand[c].pc \notin {"idle", "create"}
    /\ Fault("crash")
    /\ GiveBack(c, hand[c].marked)
    /\ UNCHANGED <<now, settings, redisVars, row, taskVars, alertVars, update,
                   sched, countVars>>

(* Broken variant: the upsert replaces the whole row.                      *)
MutStamped(old) == [NoRow EXCEPT !.status = "pending", !.reminded = TRUE]

(* updateReminderSentAt: an upsert that keeps the status of an old row.    *)
Stamped(old) == [old EXCEPT !.reminded = TRUE,
                            !.status = IF @ = "none" THEN "pending" ELSE @]

(* The SMS consumer (SmsDelivery) settles a reminder task: sent, and the   *)
(* row is created or stamped, or not sent.                                 *)
SettleReminder(u) ==
    /\ waiting[u] > 0
    /\ waiting' = [waiting EXCEPT ![u] = @ - 1]
    /\ pending' = [pending EXCEPT ![u] = @ - 1]
    /\ \/ row' = [row EXCEPT ![u] = Stamped(@)]
       \/ UNCHANGED row
    /\ UNCHANGED <<now, settings, redisVars, created, alertVars, queue, hand,
                   update, sched, countVars, faults>>

-----------------------------------------------------------------------------

(* Under Timely, time waits for whatever can be done now.                  *)
UpToDate ==
    /\ sched.pc = "idle" /\ runs > 0 /\ update.pc = "idle"
    /\ \A c \in Consumers : hand[c].pc = "idle"
    /\ \A m \in BagToSet(queue) : m.delay > 0
    /\ \A u \in Users : waiting[u] = 0

Tick ==
    /\ now < EndOfDay
    /\ Timely => UpToDate
    /\ now' = now + 1
    /\ queue' = Aged(queue)
    /\ UNCHANGED <<settings, redisVars, row, taskVars, alertVars, hand, update,
                   sched, countVars, faults>>

Schedule ==
    \/ ScheduleRead \/ ScheduleFilter
    \/ ScheduleReminder \/ MarkReminderScheduled
    \/ ScheduleTimeout \/ MarkTimeoutScheduled
    \/ SchedulerStops

Serve(u) == CompleteCheckIn(u) \/ UpdateSettings(u)

Update == CacheSettings \/ UnmarkCheckinScheduled \/ UpdatePublish \/ RequestLost

Consume(c) ==
    \/ \E m \in BagToSet(queue) : Take(c, m)
    \/ ValidateReminderBatch(c) \/ SelectUsers(c)
    \/ CreateReminders(c) \/ RollBackReminders(c) \/ PublishReminders(c)
    \/ ReadTimeouts(c) \/ CommitTimeouts(c) \/ PublishAlerts(c)
    \/ Finish(c) \/ Retry(c) \/ Crash(c)

CheckInNext ==
    \/ Tick \/ Schedule \/ Update
    \/ \E u \in Users : Serve(u) \/ SettleReminder(u)
    \/ \E c \in Consumers : Consume(c)

CheckInSpec == CheckInInit /\ [][CheckInNext]_checkInVars

-----------------------------------------------------------------------------

(* One reminder task per user and day, with one reminder consumer: however *)
(* often the scheduler and the settings publish the reminder and whatever  *)
(* fails half way.                                                         *)
RemindedAtMostOnce == \A u \in Users : created[u] <= 1

(* One timeout per user and day, with one timeout consumer, and the row    *)
(* tells of it: a later check-in or reminder does not take it back.        *)
AlertIsRecorded ==
    \A u \in Users :
        alerts[u] + unpaid[u] = IF row[u].alerted THEN 1 ELSE 0

(* The counter of the month covers the reminders and stays within the      *)
(* limit, up to a failure of Redis: also when a transaction is rolled back *)
(* after Redis has counted.                                                *)
MonthlyLimitHolds ==
    \A u \in Users :
        /\ monthly[u] <= MonthlyReminderLimit + faults["redis"]
        /\ created[u] <= monthly[u] + faults["redis"]

(* Reminders are limited, per day and per month.                           *)
RemindersLimited == RemindedAtMostOnce /\ MonthlyLimitHolds

(* A reminder or an alert is handed to the SMS queue by the consumer that  *)
(* created it, or something has failed: no later message, run or retry     *)
(* strands a task that an earlier one would have published.                *)
Failures == faults["crash"] + faults["publish"] + faults["db"]

TasksArePublished ==
    \A u \in Users :
        /\ waiting[u] < pending[u] =>
              \/ \E c \in ReminderConsumers :
                    hand[c].pc = "publish" /\ u \in hand[c].picked
              \/ Failures > 0
        /\ notified[u] < alerts[u] =>
              \/ \E c \in TimeoutConsumers :
                    hand[c].pc = "notify" /\ u \in hand[c].picked
              \/ Failures > 0

NothingFailed == \A kind \in DOMAIN faults : faults[kind] = 0

(* The deadlines a group's timeout may be due at: the message carries the  *)
(* one that its first user had when the scheduler ran.                     *)
DueTimes == IF "deadline" \in UpdateKinds THEN Deadlines
            ELSE {settings[u].deadline : u \in Users}

(* A user who was reminded, has not checked in when the last deadline of   *)
(* the group is over and has left the settings alone has been dealt with,  *)
(* when everyone keeps up and nothing fails - or the timeout looked for    *)
(* him before the reminder had left a row, and looks no more.  That can    *)
(* happen in groups with a deadline no later than the reminder, as the     *)
(* default is, and in no others; and nobody times out before the first of  *)
(* the deadlines.                                                          *)
ForgottenIsAlerted ==
    Timely /\ NothingFailed =>
        /\ \A u \in Users :
              row[u].status = "pending" /\ cached[u].at = Never
                  /\ (\A d \in DueTimes : d < now)
                      => u \in overlooked
        /\ overlooked # {} => \E d \in DueTimes : d <= RemindAt
        /\ \A u \in Users : row[u].alerted => \E d \in DueTimes : d <= now

(* Switching the check-in off and on while the day's reminder is on its    *)
(* way does not lose the reminder: the consumer drops the old message only *)
(* if the write path has published, or will publish, a new one.            *)
EnabledIsReminded ==
    Timely /\ NothingFailed /\ now > GraceUntil /\ update.pc = "idle" =>
        \A u \in Users :
            settings[u].enabled /\ cached[u].at < GraceUntil
                /\ monthly[u] < MonthlyReminderLimit
                    => created[u] > 0

(* "Finds the users who timed out (not checked in at 21:00, and reminded)  *)
(* and notifies their emergency contacts" (the comment on                  *)
(* ProcessTimeoutBatch).                                                   *)
OnlyForgottenIsAlerted ==
    [][\A u \in Users : alerts'[u] > alerts[u]
          => row[u].status # "done" /\ row[u].reminded]_checkInVars

=============================================================================
