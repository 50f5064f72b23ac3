---------------------------- MODULE CheckInProofs ----------------------------
(***************************************************************************)
(* What CheckIn's runs check on small instances, for any number of users,  *)
(* consumers, instants and failures: the types and the tasks that are      *)
(* published; and, for the one goroutine that consumes each queue, one     *)
(* reminder and one timeout for a user and day, the limit of the month and *)
(* the row that tells of the timeout; and, when nothing fails and everyone *)
(* keeps up, that no reminder gets lost and nobody's timeout is forgotten. *)
(***************************************************************************)
EXTENDS CheckIn, Counting, DelayedQueueProofs

-----------------------------------------------------------------------------
(* Who changes what                                                        *)

consumerVars == <<monthly, created, alertVars, hand>>

(* What the scheduler, the users and the clock leave alone: the tasks, the *)
(* alerts and the consumers.                                               *)
LEMMA OthersLeave ==
    ASSUME [CheckInNext]_checkInVars
    PROVE  \/ UNCHANGED <<consumerVars, row, pending, waiting>>
           \/ \E u \in Users : CompleteCheckIn(u) \/ SettleReminder(u)
           \/ \E c \in Consumers : Consume(c)
<1>. USE DEF consumerVars, redisVars, taskVars, alertVars
<1>1. CASE UNCHANGED checkInVars \/ Tick
  BY <1>1 DEF checkInVars, Tick
<1>2. CASE Schedule
  BY <1>2 DEF Schedule, ScheduleRead, ScheduleFilter, ScheduleReminder,
     MarkReminderScheduled, ScheduleTimeout, MarkTimeoutScheduled,
     SchedulerStops
<1>3. CASE Update
  BY <1>3 DEF Update, CacheSettings, UnmarkCheckinScheduled, UpdatePublish,
     RequestLost
<1>4. ASSUME NEW u \in Users, Serve(u)
      PROVE  \/ UNCHANGED <<consumerVars, row, pending, waiting>>
             \/ CompleteCheckIn(u)
  BY <1>4 DEF Serve, UpdateSettings
<1>. QED  BY <1>1, <1>2, <1>3, <1>4 DEF CheckInNext

(* A step fails in one way at most.                                        *)
LEMMA FaultChanges ==
    ASSUME [CheckInNext]_checkInVars
    PROVE  NoFault \/ \E kind \in FaultKinds : Fault(kind)
<1>0. \A kind : Fault(kind) => kind \in FaultKinds
  BY DEF Fault
<1>. USE <1>0 DEF NoFault
<1>1. CASE UNCHANGED checkInVars \/ Tick
  BY <1>1 DEF checkInVars, Tick
<1>2. CASE Schedule
  BY <1>2 DEF Schedule, ScheduleRead, ScheduleFilter, ScheduleReminder,
     MarkReminderScheduled, ScheduleTimeout, MarkTimeoutScheduled,
     SchedulerStops
<1>3. CASE Update
  BY <1>3 DEF Update, CacheSettings, UnmarkCheckinScheduled, UpdatePublish,
     RequestLost
<1>4. ASSUME NEW u \in Users, Serve(u) \/ SettleReminder(u)
      PROVE  NoFault
  BY <1>4 DEF Serve, CompleteCheckIn, UpdateSettings, SettleReminder
<1>5. ASSUME NEW c \in Consumers, Consume(c)
      PROVE  NoFault \/ \E kind \in FaultKinds : Fault(kind)
  BY <1>5 DEF Consume, Take, ValidateReminderBatch, SelectUsers,
     CreateReminders, RollBackReminders, PublishReminders, ReadTimeouts,
     CommitTimeouts, PublishAlerts, Finish, Retry, Crash
<1>. QED  BY <1>1, <1>2, <1>3, <1>4, <1>5 DEF CheckInNext

-----------------------------------------------------------------------------
(* Types                                                                   *)

Times == 0..EndOfDay
Messages == [kind : {"reminder", "timeout"}, users : (SUBSET Users) \ {{}},
             at : Times, delay : Nat, marked : BOOLEAN]
Hands == [pc : {"idle", "validate", "select", "create", "publish", "read",
                "alert", "notify", "finish"},
          users : SUBSET Users, at : Times, marked : BOOLEAN,
          valid : SUBSET Users, picked : SUBSET Users]
Updates == [pc : {"idle", "cache", "unmark", "publish"}, users : SUBSET Users,
            enabled : BOOLEAN, affects : BOOLEAN, at : Times]
Runs == [pc : {"idle", "filter", "remind", "markReminder", "timeout",
               "markTimeout"},
         users : SUBSET Users, at : Times, due : [Users -> Deadlines \cup {0}]]
RowStates == [status : {"none", "pending", "done", "timeout"},
              reminded : BOOLEAN, alerted : BOOLEAN]

DayTyped ==
    /\ now \in Times
    /\ settings \in [Users -> [enabled : BOOLEAN, deadline : Deadlines]]
    /\ cached \in [Users -> [enabled : BOOLEAN, at : Nat \cup {Never}]]
    /\ marks \in [reminder : SUBSET Users, timeout : SUBSET Users]
    /\ updates \in 0..MaxUpdates /\ runs \in 0..ScheduleRuns

(* A run and an update are about somebody.                                 *)
PublishersTyped ==
    /\ sched \in Runs /\ (sched.pc # "idle" => sched.users # {})
    /\ update \in Updates /\ (update.pc # "idle" => update.users # {})

CountsTyped ==
    /\ monthly \in [Users -> Nat]
    /\ created \in [Users -> Nat] /\ pending \in [Users -> Nat]
    /\ waiting \in [Users -> Nat]
    /\ \A u \in Users : waiting[u] <= pending[u] /\ pending[u] <= created[u]
    /\ alerts \in [Users -> Nat] /\ unpaid \in [Users -> Nat]
    /\ notified \in [Users -> Nat]
    /\ faults \in [{"crash", "db", "redis", "publish"} -> Nat]

QueueTyped == IsABag(queue) /\ BagToSet(queue) \subseteq Messages

(* A consumer works on a batch, is where the handler of its queue can be,  *)
(* and picks users of the batch.                                           *)
HandTyped ==
    /\ hand \in [Consumers -> Hands]
    /\ \A c \in Consumers :
          /\ hand[c].pc # "idle" => hand[c].users # {}
          /\ hand[c].picked \subseteq hand[c].valid
          /\ hand[c].pc \in {"validate", "select", "create", "publish"}
                => c \in ReminderConsumers
          /\ hand[c].pc \in {"read", "alert", "notify"}
                => c \in TimeoutConsumers
          /\ hand[c].pc \in {"validate", "select"} => hand[c].picked = {}

RowTyped == row \in [Users -> RowStates]

OverlookedTyped == overlooked \subseteq Users

Typed == /\ DayTyped /\ PublishersTyped /\ CountsTyped /\ QueueTyped
         /\ HandTyped /\ RowTyped /\ OverlookedTyped

(* The constants are numbers, and deadlines are of the day.                *)
LEMMA Constants ==
    /\ RemindAt \in Nat /\ GraceUntil \in Nat /\ EndOfDay \in Nat
    /\ MonthlyReminderLimit \in Nat /\ MaxUpdates \in Nat
    /\ ScheduleRuns \in Nat
    /\ Deadlines \subseteq Times /\ InitialDeadlines \subseteq Deadlines
    /\ 0 \in Times /\ Times \subseteq Nat
  BY CheckInAssumption DEF Times

(* A consumer reads one of the two queues.                                 *)
LEMMA KindIs ==
    \A c \in Consumers :
        /\ Kind(c) \in {"reminder", "timeout"}
        /\ c \in ReminderConsumers <=> Kind(c) = "reminder"
        /\ c \in TimeoutConsumers <=> Kind(c) = "timeout"
  BY CheckInAssumption DEF Kind, Consumers

(* One more for some users, the same for the others.                       *)
LEMMA CountForIs ==
    ASSUME NEW counts \in [Users -> Nat], NEW users
    PROVE  /\ CountFor(counts, users) \in [Users -> Nat]
           /\ \A u \in Users :
                 CountFor(counts, users)[u] =
                    counts[u] + (IF u \in users THEN 1 ELSE 0)
  BY DEF CountFor

(* A time still to come, or none.                                          *)
LEMMA UntilIs == ASSUME DayTyped, NEW time \in Nat PROVE Until(time) \in Nat
  BY Constants DEF DayTyped, Until, Times

(* Time, settings, cache and marks keep their types.                       *)
LEMMA DayStep == ASSUME Typed, [CheckInNext]_checkInVars PROVE DayTyped'
<1>. USE Constants DEF Typed
<1>0. UNCHANGED <<now, settings, cached, marks, updates, runs>> => DayTyped'
  BY DEF DayTyped
<1>1. CASE UNCHANGED checkInVars
  BY <1>0, <1>1 DEF checkInVars, redisVars, countVars
<1>2. CASE Tick
  <2>1. now' \in Times /\ UNCHANGED <<settings, cached, marks, updates, runs>>
    BY <1>2 DEF Tick, DayTyped, Times, redisVars, countVars
  <2>. QED  BY <2>1 DEF DayTyped
<1>3. CASE Schedule
  <2>1. CASE ScheduleRead
    <3>1. /\ runs' \in 0..ScheduleRuns
          /\ UNCHANGED <<now, settings, cached, marks, updates>>
      BY <2>1 DEF ScheduleRead, DayTyped, redisVars
    <3>. QED  BY <3>1 DEF DayTyped
  <2>2. CASE MarkReminderScheduled \/ MarkTimeoutScheduled
    <3>1. PICK marked \in SUBSET sched.users :
             \/ marks' = [marks EXCEPT !.reminder = @ \cup marked]
             \/ marks' = [marks EXCEPT !.timeout = @ \cup marked]
      BY <2>2 DEF MarkReminderScheduled, MarkTimeoutScheduled
    <3>2. marked \subseteq Users
      BY DEF PublishersTyped, Runs
    <3>3. marks' \in [reminder : SUBSET Users, timeout : SUBSET Users]
      BY <3>1, <3>2 DEF DayTyped
    <3>4. UNCHANGED <<now, settings, cached, updates, runs>>
      BY <2>2 DEF MarkReminderScheduled, MarkTimeoutScheduled, countVars
    <3>. QED  BY <3>3, <3>4 DEF DayTyped
  <2>3. CASE ScheduleFilter \/ ScheduleReminder \/ ScheduleTimeout
             \/ SchedulerStops
    BY <1>0, <2>3 DEF ScheduleFilter, ScheduleReminder, ScheduleTimeout,
       SchedulerStops, redisVars, countVars
  <2>. QED  BY <1>3, <2>1, <2>2, <2>3 DEF Schedule
<1>4. CASE Update
  <2>1. CASE CacheSettings
    <3>1. cached' \in [Users -> [enabled : BOOLEAN, at : Nat \cup {Never}]]
      <4>1. [enabled |-> update.enabled, at |-> now]
               \in [enabled : BOOLEAN, at : Nat \cup {Never}]
        BY DEF PublishersTyped, Updates, DayTyped
      <4>. QED  BY <2>1, <4>1 DEF CacheSettings, DayTyped
    <3>2. UNCHANGED <<now, settings, marks, updates, runs>>
      BY <2>1 DEF CacheSettings, countVars
    <3>. QED  BY <3>1, <3>2 DEF DayTyped
  <2>2. CASE UnmarkCheckinScheduled
    <3>1. marks' \in [reminder : SUBSET Users, timeout : SUBSET Users]
      BY <2>2 DEF UnmarkCheckinScheduled, DayTyped
    <3>2. UNCHANGED <<now, settings, cached, updates, runs>>
      BY <2>2 DEF UnmarkCheckinScheduled, countVars
    <3>. QED  BY <3>1, <3>2 DEF DayTyped
  <2>3. CASE UpdatePublish \/ RequestLost
    BY <1>0, <2>3 DEF UpdatePublish, RequestLost, redisVars, countVars
  <2>. QED  BY <1>4, <2>1, <2>2, <2>3 DEF Update
<1>5. ASSUME NEW u \in Users, Serve(u) \/ SettleReminder(u) PROVE DayTyped'
  <2>1. CASE UpdateSettings(u)
    <3>1. settings' \in [Users -> [enabled : BOOLEAN, deadline : Deadlines]]
      <4>1. CASE \E enabled \in BOOLEAN :
                    settings' = [settings EXCEPT ![u].enabled = enabled]
        BY <4>1 DEF DayTyped
      <4>2. CASE \E d \in Deadlines :
                    settings' = [settings EXCEPT ![u].deadline = d]
        BY <4>2 DEF DayTyped
      <4>. QED  BY <2>1, <4>1, <4>2 DEF UpdateSettings
    <3>2. updates' \in 0..MaxUpdates
      <4>1. updates < MaxUpdates /\ updates' = updates + 1
        BY <2>1 DEF UpdateSettings
      <4>. QED  BY <4>1 DEF DayTyped
    <3>3. UNCHANGED <<now, cached, marks, runs>>
      BY <2>1 DEF UpdateSettings, redisVars
    <3>. QED  BY <3>1, <3>2, <3>3 DEF DayTyped
  <2>2. CASE CompleteCheckIn(u) \/ SettleReminder(u)
    BY <1>0, <2>2 DEF CompleteCheckIn, SettleReminder, redisVars, countVars
  <2>. QED  BY <1>5, <2>1, <2>2 DEF Serve
<1>6. ASSUME NEW c \in Consumers, Consume(c) PROVE DayTyped'
  BY <1>0, <1>6 DEF redisVars, countVars, Consume, Take,
     ValidateReminderBatch, SelectUsers, CreateReminders, RollBackReminders,
     PublishReminders, ReadTimeouts, CommitTimeouts, PublishAlerts, Finish,
     Retry, Crash
<1>. QED  BY <1>1, <1>2, <1>3, <1>4, <1>5, <1>6 DEF CheckInNext


(* The scheduler and the settings publish for somebody, and know when.     *)
LEMMA PublishersStep ==
    ASSUME Typed, [CheckInNext]_checkInVars PROVE PublishersTyped'
<1>. USE DEF Typed
<1>0. UNCHANGED <<sched, update>> => PublishersTyped'
  BY DEF PublishersTyped
<1>1. CASE UNCHANGED checkInVars \/ Tick
  BY <1>0, <1>1 DEF checkInVars, Tick
<1>2. CASE Schedule
  <2>0. NoRun \in Runs /\ NoRun.pc = "idle"
    BY Constants DEF NoRun, Runs
  <2>1. sched' = NoRun /\ UNCHANGED update => PublishersTyped'
    BY <2>0 DEF PublishersTyped
  <2>2. ASSUME NEW pc \in {"markReminder", "timeout", "markTimeout"},
               GotoSched(pc), sched.pc # "idle", UNCHANGED update
        PROVE  PublishersTyped'
    <3>1. /\ [sched EXCEPT !.pc = pc] \in Runs
          /\ [sched EXCEPT !.pc = pc].users = sched.users
      BY DEF PublishersTyped, Runs
    <3>. QED  BY <2>2, <3>1 DEF PublishersTyped, GotoSched
  <2>3. CASE ScheduleRead
    <3>. DEFINE users == {u \in Users : settings[u].enabled}
                due == [u \in Users |-> settings[u].deadline]
                new == [pc |-> "filter", users |-> users, at |-> now,
                        due |-> due]
    <3>1. due \in [Users -> Deadlines \cup {0}]
      BY DEF DayTyped
    <3>2. new \in Runs /\ new.users = users
      BY <3>1 DEF Runs, DayTyped
    <3>3. \/ sched' = NoRun
          \/ sched' = new /\ ~(users \subseteq marks.reminder \cap marks.timeout)
      BY <2>3 DEF ScheduleRead
    <3>4. UNCHANGED update
      BY <2>3 DEF ScheduleRead
    <3>. HIDE DEF new
    <3>. QED  BY <2>1, <3>2, <3>3, <3>4 DEF PublishersTyped
  <2>4. CASE ScheduleFilter
    <3>1. PICK left \in SUBSET sched.users :
             sched' = IF left = {} \/ TooLate THEN NoRun
                      ELSE [sched EXCEPT !.pc = "remind", !.users = left,
                                         !.at = now]
      BY <2>4 DEF ScheduleFilter
    <3>2. UNCHANGED update
      BY <2>4 DEF ScheduleFilter
    <3>3. /\ [sched EXCEPT !.pc = "remind", !.users = left, !.at = now] \in Runs
          /\ [sched EXCEPT !.pc = "remind", !.users = left, !.at = now].users
                = left
      BY DEF PublishersTyped, Runs, DayTyped
    <3>4. CASE left = {} \/ TooLate
      BY <2>1, <3>1, <3>2, <3>4
    <3>5. CASE left # {} /\ ~TooLate
      BY <3>1, <3>2, <3>3, <3>5 DEF PublishersTyped
    <3>. QED  BY <3>4, <3>5
  <2>5. CASE ScheduleReminder
    BY <2>1, <2>2, <2>5 DEF ScheduleReminder
  <2>6. CASE MarkReminderScheduled
    BY <2>2, <2>6 DEF MarkReminderScheduled
  <2>7. CASE ScheduleTimeout
    BY <2>1, <2>2, <2>7 DEF ScheduleTimeout
  <2>8. CASE MarkTimeoutScheduled \/ SchedulerStops
    BY <2>1, <2>8 DEF MarkTimeoutScheduled, SchedulerStops
  <2>. QED  BY <1>2, <2>3, <2>4, <2>5, <2>6, <2>7, <2>8 DEF Schedule
<1>3. ASSUME NEW u \in Users, Serve(u) \/ SettleReminder(u)
      PROVE  PublishersTyped'
  <2>1. CASE UpdateSettings(u)
    <3>1. \A enabled, affects \in BOOLEAN :
             LET new == [pc |-> "cache", users |-> {u}, enabled |-> enabled,
                         affects |-> affects, at |-> 0]
             IN  new \in Updates /\ new.users # {}
      BY Constants DEF Updates
    <3>2. settings[u].enabled \in BOOLEAN
      BY DEF DayTyped
    <3>3. \E enabled, affects \in BOOLEAN :
             update' = [pc |-> "cache", users |-> {u}, enabled |-> enabled,
                        affects |-> affects, at |-> 0]
      <4>1. \/ \E enabled \in BOOLEAN :
                  update' = [NoUpdate EXCEPT !.pc = "cache", !.users = {u},
                                !.enabled = enabled, !.affects = TRUE]
            \/ update' = [NoUpdate EXCEPT !.pc = "cache", !.users = {u},
                             !.enabled = settings[u].enabled]
        BY <2>1 DEF UpdateSettings
      <4>. QED  BY <3>2, <4>1 DEF NoUpdate
    <3>4. UNCHANGED sched
      BY <2>1 DEF UpdateSettings
    <3>. QED  BY <3>1, <3>3, <3>4 DEF PublishersTyped
  <2>2. CASE CompleteCheckIn(u) \/ SettleReminder(u)
    BY <1>0, <2>2 DEF CompleteCheckIn, SettleReminder
  <2>. QED  BY <1>3, <2>1, <2>2 DEF Serve
<1>4. CASE Update
  <2>0. NoUpdate \in Updates /\ NoUpdate.pc = "idle"
    BY Constants DEF NoUpdate, Updates
  <2>1. update' = NoUpdate /\ UNCHANGED sched => PublishersTyped'
    BY <2>0 DEF PublishersTyped
  <2>2. CASE CacheSettings
    <3>1. /\ [update EXCEPT !.pc = "unmark", !.at = now] \in Updates
          /\ [update EXCEPT !.pc = "unmark", !.at = now].users = update.users
      BY DEF PublishersTyped, Updates, DayTyped
    <3>2. /\ \/ update' = NoUpdate
             \/ update' = [update EXCEPT !.pc = "unmark", !.at = now]
          /\ update.pc = "cache" /\ UNCHANGED sched
      BY <2>2 DEF CacheSettings
    <3>. QED  BY <2>1, <3>1, <3>2 DEF PublishersTyped
  <2>3. CASE UnmarkCheckinScheduled
    <3>1. /\ [update EXCEPT !.pc = "publish"] \in Updates
          /\ [update EXCEPT !.pc = "publish"].users = update.users
      BY DEF PublishersTyped, Updates
    <3>2. /\ update' = [update EXCEPT !.pc = "publish"]
          /\ update.pc = "unmark" /\ UNCHANGED sched
      BY <2>3 DEF UnmarkCheckinScheduled
    <3>. QED  BY <3>1, <3>2 DEF PublishersTyped
  <2>4. CASE UpdatePublish \/ RequestLost
    BY <2>1, <2>4 DEF UpdatePublish, RequestLost
  <2>. QED  BY <1>4, <2>2, <2>3, <2>4 DEF Update
<1>5. ASSUME NEW c \in Consumers, Consume(c) PROVE PublishersTyped'
  BY <1>0, <1>5 DEF Consume, Take, ValidateReminderBatch, SelectUsers,
     CreateReminders, RollBackReminders, PublishReminders, ReadTimeouts,
     CommitTimeouts, PublishAlerts, Finish, Retry, Crash
<1>. QED  BY <1>1, <1>2, <1>3, <1>4, <1>5 DEF CheckInNext

(* A failure is counted, and none is forgotten.                            *)
LEMMA FaultCounted ==
    ASSUME CountsTyped, NEW kind, Fault(kind)
    PROVE  /\ faults' \in [{"crash", "db", "redis", "publish"} -> Nat]
           /\ kind \in DOMAIN faults
           /\ faults'[kind] = faults[kind] + 1
           /\ \A k \in DOMAIN faults : k # kind => faults'[k] = faults[k]
<1>1. kind \in {"crash", "db", "redis", "publish"}
  BY CheckInAssumption DEF Fault
<1>. QED  BY <1>1 DEF CountsTyped, Fault

(* The counts of failures only grow.                                       *)
LEMMA FaultsGrow ==
    ASSUME CountsTyped, [CheckInNext]_checkInVars
    PROVE  /\ faults' \in [{"crash", "db", "redis", "publish"} -> Nat]
           /\ \A k \in {"crash", "db", "redis", "publish"} :
                 faults'[k] >= faults[k]
<1>1. CASE NoFault
  BY <1>1 DEF NoFault, CountsTyped
<1>2. ASSUME NEW kind, Fault(kind)
      PROVE  /\ faults' \in [{"crash", "db", "redis", "publish"} -> Nat]
             /\ \A k \in {"crash", "db", "redis", "publish"} :
                   faults'[k] >= faults[k]
  BY <1>2, FaultCounted DEF CountsTyped
<1>. QED  BY <1>1, <1>2, FaultChanges

(* Tasks, alerts and failures are counted, and a task that waits for the   *)
(* SMS consumer is pending.                                                *)
LEMMA CountsStep == ASSUME Typed, [CheckInNext]_checkInVars PROVE CountsTyped'
<1>. USE DEF Typed
<1>1. UNCHANGED <<monthly, created, pending, waiting, alerts, unpaid, notified>>
         => CountsTyped'
  BY FaultsGrow DEF CountsTyped
<1>2. ASSUME NEW u \in Users, CompleteCheckIn(u) \/ SettleReminder(u)
      PROVE  CountsTyped'
  <2>1. CASE CompleteCheckIn(u)
    BY <1>1, <2>1 DEF CompleteCheckIn, redisVars, taskVars, alertVars
  <2>2. CASE SettleReminder(u)
    <3>1. /\ waiting[u] > 0
          /\ waiting' = [waiting EXCEPT ![u] = @ - 1]
          /\ pending' = [pending EXCEPT ![u] = @ - 1]
          /\ UNCHANGED <<monthly, created, alerts, unpaid, notified>>
      BY <2>2 DEF SettleReminder, redisVars, alertVars
    <3>2. /\ waiting' \in [Users -> Nat] /\ pending' \in [Users -> Nat]
          /\ \A v \in Users :
                waiting'[v] <= pending'[v] /\ pending'[v] <= created[v]
      BY <3>1 DEF CountsTyped
    <3>. QED  BY <3>1, <3>2, FaultsGrow DEF CountsTyped
  <2>. QED  BY <1>2, <2>1, <2>2
<1>3. ASSUME NEW c \in Consumers, Consume(c) PROVE CountsTyped'
  <2>1. ASSUME NEW users, monthly' = CountFor(monthly, users),
               UNCHANGED <<created, pending, waiting, alerts, unpaid, notified>>
        PROVE  CountsTyped'
    BY <2>1, CountForIs, FaultsGrow DEF CountsTyped
  <2>2. CASE CreateReminders(c)
    <3>1. /\ created' = CountFor(created, hand[c].picked)
          /\ pending' = CountFor(pending, hand[c].picked)
          /\ \E users : monthly' = CountFor(monthly, users)
          /\ UNCHANGED <<waiting, alerts, unpaid, notified>>
      BY <2>2 DEF CreateReminders, alertVars
    <3>2. /\ monthly' \in [Users -> Nat] /\ created' \in [Users -> Nat]
          /\ pending' \in [Users -> Nat]
      BY <3>1, CountForIs DEF CountsTyped
    <3>3. \A u \in Users :
             waiting[u] <= pending'[u] /\ pending'[u] <= created'[u]
      BY <3>1, CountForIs DEF CountsTyped
    <3>. QED  BY <3>1, <3>2, <3>3, FaultsGrow DEF CountsTyped
  <2>3. CASE RollBackReminders(c)
    BY <2>1, <2>3 DEF RollBackReminders, taskVars, alertVars
  <2>4. CASE PublishReminders(c)
    <3>1. /\ waiting' \in [Users -> Nat]
          /\ \A u \in Users : waiting'[u] <= pending[u]
      <4>1. CASE waiting' = waiting \/ waiting' = pending
        BY <4>1 DEF CountsTyped
      <4>2. CASE waiting' = [u \in Users |-> IF u \in hand[c].valid
                                             THEN pending[u] ELSE waiting[u]]
        BY <4>2 DEF CountsTyped
      <4>. QED  BY <2>4, <4>1, <4>2 DEF PublishReminders
    <3>2. UNCHANGED <<monthly, created, pending, alerts, unpaid, notified>>
      BY <2>4 DEF PublishReminders, redisVars, alertVars
    <3>. QED  BY <3>1, <3>2, FaultsGrow DEF CountsTyped
  <2>5. CASE CommitTimeouts(c) \/ PublishAlerts(c)
    <3>1. /\ \/ UNCHANGED alerts
             \/ alerts' = CountFor(alerts, hand[c].picked)
          /\ \/ UNCHANGED unpaid
             \/ unpaid' = CountFor(unpaid, hand[c].valid \ hand[c].picked)
          /\ \/ UNCHANGED notified
             \/ notified' = CountFor(notified, hand[c].picked)
          /\ UNCHANGED <<monthly, created, pending, waiting>>
      BY <2>5 DEF CommitTimeouts, PublishAlerts, redisVars, taskVars
    <3>2. /\ alerts' \in [Users -> Nat] /\ unpaid' \in [Users -> Nat]
          /\ notified' \in [Users -> Nat]
      BY <3>1, CountForIs DEF CountsTyped
    <3>. QED  BY <3>1, <3>2, FaultsGrow DEF CountsTyped
  <2>. QED  BY <1>1, <1>3, <2>2, <2>3, <2>4, <2>5 DEF redisVars, taskVars,
       alertVars, Consume, Take, ValidateReminderBatch, SelectUsers,
       ReadTimeouts, Finish, Retry, Crash
<1>. QED  BY <1>1, <1>2, <1>3, OthersLeave
          DEF consumerVars, alertVars

(* The messages that are published are about somebody.                     *)
LEMMA PostTyped ==
    ASSUME QueueTyped, NEW kind \in {"reminder", "timeout"},
           NEW users \in SUBSET Users, users # {}, NEW at \in Times,
           NEW delay \in Nat, Post(kind, users, at, delay)
    PROVE  QueueTyped'
<1>. DEFINE m == Message(kind, users, at, delay, FALSE)
<1>1. m \in Messages
  BY DEF Message, Messages
<1>2. queue' = With(queue, m)
  BY DEF Post
<1>. HIDE DEF m
<1>. QED  BY <1>1, <1>2, WithIsABag DEF QueueTyped

(* A message that comes again is that of the batch, and due.               *)
LEMMA GivenBackTyped ==
    ASSUME QueueTyped, HandTyped, NEW c \in Consumers, hand[c].pc # "idle",
           NEW marked \in BOOLEAN, GiveBack(c, marked)
    PROVE  QueueTyped'
<1>1. Message(Kind(c), hand[c].users, hand[c].at, 0, marked) \in Messages
  BY KindIs DEF Message, Messages, HandTyped, Hands
<1>. QED  BY <1>1, WithIsABag DEF QueueTyped, GiveBack

(* Messages have a delay, which comes down to 0 and stays there.           *)
LEMMA SoonerTyped ==
    ASSUME NEW m \in Messages
    PROVE  /\ Sooner(m) \in Messages
           /\ m.delay = 0 => Sooner(m) = m
           /\ m.delay > 0 => Later(Sooner(m)) = m
<1>1. CASE m.delay = 0
  BY <1>1 DEF Messages, Sooner
<1>2. CASE m.delay > 0
  <2>1. /\ Sooner(m) \in Messages /\ Sooner(m).delay = m.delay - 1
        /\ Sooner(m).kind = m.kind /\ Sooner(m).users = m.users
        /\ Sooner(m).at = m.at /\ Sooner(m).marked = m.marked
    BY <1>2 DEF Sooner, Messages
  <2>2. /\ Later(Sooner(m)) \in Messages /\ Later(Sooner(m)).delay = m.delay
        /\ Later(Sooner(m)).kind = m.kind
        /\ Later(Sooner(m)).users = m.users
        /\ Later(Sooner(m)).at = m.at
        /\ Later(Sooner(m)).marked = m.marked
    BY <2>1 DEF Later, Messages
  <2>3. \A n \in Messages :
           /\ n.kind = m.kind /\ n.users = m.users /\ n.at = m.at
           /\ n.marked = m.marked /\ n.delay = m.delay
           => n = m
    BY DEF Messages
  <2>4. Later(Sooner(m)) = m
    BY <2>2, <2>3
  <2>. QED  BY <1>2, <2>1, <2>4
<1>. QED  BY <1>1, <1>2 DEF Messages

(* Whoever publishes, takes or gives back keeps the queue's types.         *)
LEMMA QueueStep == ASSUME Typed, [CheckInNext]_checkInVars PROVE QueueTyped'
<1>. USE DEF Typed
<1>0. (queue' = queue) => QueueTyped'
  BY DEF QueueTyped
<1>1. CASE UNCHANGED checkInVars
  BY <1>0, <1>1 DEF checkInVars
<1>2. CASE Tick
  <2>1. \A m \in BagToSet(queue) :
           /\ (m.delay = 0 /\ Sooner(m) = m) \/ Later(Sooner(m)) = m
           /\ Sooner(m) \in Messages
    BY SoonerTyped DEF QueueTyped, Messages
  <2>2. /\ IsABag(Aged(queue))
        /\ BagToSet(Aged(queue)) = {Sooner(m) : m \in BagToSet(queue)}
    BY <2>1, AgedIsABag DEF QueueTyped
  <2>. QED  BY <1>2, <2>1, <2>2 DEF Tick, QueueTyped
<1>3. CASE Schedule
  <2>1. CASE ScheduleRead \/ ScheduleFilter \/ MarkReminderScheduled
             \/ MarkTimeoutScheduled \/ SchedulerStops
    BY <2>1, <1>0 DEF ScheduleRead, ScheduleFilter, MarkReminderScheduled,
       MarkTimeoutScheduled, SchedulerStops
  <2>2. /\ sched.users \in SUBSET Users /\ sched.at \in Times
        /\ sched.pc # "idle" => sched.users # {}
        /\ sched.due \in [Users -> Nat]
    BY Constants DEF PublishersTyped, Runs
  <2>3. CASE ScheduleReminder
    <3>1. Until(RemindAt) \in Nat
      BY UntilIs, Constants
    <3>. QED  BY <2>2, <2>3, <3>1, <1>0, PostTyped DEF ScheduleReminder
  <2>4. CASE ScheduleTimeout
    <3>1. \A first \in sched.users : Until(sched.due[first]) \in Nat
      BY <2>2, UntilIs
    <3>. QED  BY <2>2, <2>4, <3>1, <1>0, PostTyped DEF ScheduleTimeout
  <2>. QED  BY <1>3, <2>1, <2>3, <2>4 DEF Schedule
<1>4. CASE Update
  <2>1. CASE UpdatePublish
    <3>1. /\ update.users \in SUBSET Users /\ update.at \in Times
          /\ update.pc # "idle" => update.users # {}
      BY DEF PublishersTyped, Updates
    <3>2. Until(RemindAt) \in Nat
      BY UntilIs, Constants
    <3>. QED  BY <2>1, <3>1, <3>2, <1>0, PostTyped DEF UpdatePublish
  <2>. QED  BY <1>0, <1>4, <2>1 DEF Update, CacheSettings,
       UnmarkCheckinScheduled, RequestLost
<1>5. ASSUME NEW u \in Users, Serve(u) \/ SettleReminder(u) PROVE QueueTyped'
  BY <1>0, <1>5 DEF Serve, CompleteCheckIn, UpdateSettings, SettleReminder
<1>6. ASSUME NEW c \in Consumers, Consume(c) PROVE QueueTyped'
  <2>1. ASSUME NEW m \in BagToSet(queue), Take(c, m) PROVE QueueTyped'
    BY <2>1, WithoutIsABag DEF QueueTyped, Take
  <2>2. hand[c].marked \in BOOLEAN
    BY DEF HandTyped, Hands
  <2>3. CASE Retry(c) \/ Crash(c) \/ RollBackReminders(c)
    BY <2>2, <2>3, GivenBackTyped DEF Retry, Crash, RollBackReminders
  <2>. QED  BY <1>0, <1>6, <2>1, <2>3 DEF Consume, ValidateReminderBatch,
       SelectUsers, CreateReminders, PublishReminders, ReadTimeouts,
       CommitTimeouts, PublishAlerts, Finish
<1>. QED  BY <1>1, <1>2, <1>3, <1>4, <1>5, <1>6 DEF CheckInNext

(* A consumer starts with the message's batch, and nobody picked.          *)
LEMMA HoldIs ==
    ASSUME NEW c, NEW m \in Messages, NEW marked \in BOOLEAN,
           Hold(c, m, marked)
    PROVE  \E h \in Hands :
              /\ h.pc = (IF m.kind = "reminder" THEN "validate" ELSE "read")
              /\ h.users = m.users /\ h.valid = {} /\ h.picked = {}
              /\ hand' = [hand EXCEPT ![c] = h]
<1>. DEFINE pc == IF m.kind = "reminder" THEN "validate" ELSE "read"
            h == [Idle EXCEPT !.pc = pc, !.users = m.users, !.at = m.at,
                              !.marked = marked]
<1>1. Idle \in Hands /\ Idle.valid = {} /\ Idle.picked = {}
  BY Constants DEF Idle, Hands
<1>2. /\ pc \in {"validate", "read"} /\ m.users \in SUBSET Users
      /\ m.at \in Times
  BY DEF Messages
<1>3. /\ h \in Hands /\ h.pc = pc /\ h.users = m.users
      /\ h.valid = {} /\ h.picked = {}
  <2>. HIDE DEF pc
  <2>. QED  BY <1>1, <1>2 DEF Hands
<1>4. hand' = [hand EXCEPT ![c] = h]
  BY DEF Hold
<1>. HIDE DEF h
<1>. QED  BY <1>3, <1>4

(* Who takes part in a batch: nobody but its consumer changes its hand.    *)
LEMMA HandStep == ASSUME Typed, [CheckInNext]_checkInVars PROVE HandTyped'
<1>. USE DEF Typed
<1>1. CASE UNCHANGED hand
  BY <1>1 DEF HandTyped
<1>2. ASSUME NEW c \in Consumers, Consume(c) PROVE HandTyped'
  <2>. DEFINE InHandler(h) ==
                 /\ h \in Hands
                 /\ h.pc # "idle" => h.users # {}
                 /\ h.picked \subseteq h.valid
                 /\ h.pc \in {"validate", "select", "create", "publish"}
                       => c \in ReminderConsumers
                 /\ h.pc \in {"read", "alert", "notify"}
                       => c \in TimeoutConsumers
                 /\ h.pc \in {"validate", "select"} => h.picked = {}
              old == hand[c]
  <2>0. old \in Hands /\ InHandler(old)
    BY DEF HandTyped
  <2>1. ASSUME NEW h, InHandler(h), hand' = [hand EXCEPT ![c] = h]
        PROVE  HandTyped'
    BY <2>1 DEF HandTyped
  <2>2. InHandler(Idle)
    BY Constants DEF Idle, Hands
  <2>3. ASSUME NEW pc \in {"publish", "notify", "finish"}, GotoHand(c, pc),
               pc = "publish" => old.pc = "create",
               pc = "notify" => old.pc = "alert", old.pc # "idle"
        PROVE  HandTyped'
    <3>1. hand' = [hand EXCEPT ![c] = [old EXCEPT !.pc = pc]]
      BY <2>3 DEF GotoHand, HandTyped
    <3>2. /\ [old EXCEPT !.pc = pc] \in Hands
          /\ [old EXCEPT !.pc = pc].pc = pc
          /\ [old EXCEPT !.pc = pc].users = old.users
          /\ [old EXCEPT !.pc = pc].valid = old.valid
          /\ [old EXCEPT !.pc = pc].picked = old.picked
      BY <2>0 DEF Hands
    <3>3. InHandler([old EXCEPT !.pc = pc])
      <4>. DEFINE h == [old EXCEPT !.pc = pc]
      <4>. HIDE DEF h, old
      <4>. QED  BY <2>0, <2>3, <3>2 DEF h
    <3>. HIDE DEF InHandler
    <3>. QED  BY <2>1, <3>1, <3>3
  <2>4. ASSUME NEW m \in BagToSet(queue), Take(c, m) PROVE HandTyped'
    <3>1. m \in Messages /\ m.kind = Kind(c)
      BY <2>4 DEF QueueTyped, Take
    <3>2. UNCHANGED hand \/ \E b \in BOOLEAN : Hold(c, m, b)
      <4>1. m.marked \in BOOLEAN
        BY <3>1 DEF Messages
      <4>. QED  BY <2>4, <4>1 DEF Take
    <3>3. ASSUME NEW b \in BOOLEAN, Hold(c, m, b) PROVE HandTyped'
      <4>. HIDE DEF Typed, InHandler
      <4>1. PICK h \in Hands :
               /\ h.pc = (IF m.kind = "reminder" THEN "validate" ELSE "read")
               /\ h.users = m.users /\ h.valid = {} /\ h.picked = {}
               /\ hand' = [hand EXCEPT ![c] = h]
        BY <3>1, <3>3, HoldIs
      <4>2. m.users # {}
        BY <3>1 DEF Messages
      <4>3. InHandler(h)
        BY <3>1, <4>1, <4>2, KindIs DEF InHandler
      <4>. QED  BY <2>1, <4>1, <4>3
    <3>. QED  BY <1>1, <3>2, <3>3
  <2>5. CASE ValidateReminderBatch(c)
    <3>1. PICK valid \in SUBSET old.users :
             hand' = [hand EXCEPT ![c].valid = valid,
                         ![c].pc = IF valid = {} THEN "finish" ELSE "select"]
      BY <2>5 DEF ValidateReminderBatch
    <3>. DEFINE h == [old EXCEPT !.valid = valid,
                        !.pc = IF valid = {} THEN "finish" ELSE "select"]
    <3>2. hand' = [hand EXCEPT ![c] = h]
      BY <3>1 DEF HandTyped
    <3>3. /\ h \in Hands /\ h.users = old.users /\ h.picked = old.picked
          /\ h.pc \in {"finish", "select"}
      BY <2>0 DEF Hands
    <3>4. old.pc = "validate"
      BY <2>5 DEF ValidateReminderBatch
    <3>5. InHandler(h)
      <4>. HIDE DEF h, old
      <4>. QED  BY <2>0, <3>3, <3>4
    <3>. HIDE DEF InHandler, h
    <3>. QED  BY <2>1, <3>2, <3>5
  <2>6. CASE SelectUsers(c)
    <3>1. PICK picked \in SUBSET Due(c) :
             hand' = [hand EXCEPT ![c].picked = picked, ![c].pc = "create"]
      <4>1. \/ hand' = [hand EXCEPT
                           ![c].picked = {u \in Due(c) : BelowLimit(u)},
                           ![c].pc = "create"]
            \/ \E u \in Due(c) :
                  hand' = [hand EXCEPT
                              ![c].picked = {v \in Due(c) : BelowLimit(v)}
                                                \cup {u},
                              ![c].pc = "create"]
        BY <2>6 DEF SelectUsers
      <4>. QED  BY <4>1
    <3>. DEFINE h == [old EXCEPT !.picked = picked, !.pc = "create"]
    <3>2. hand' = [hand EXCEPT ![c] = h]
      BY <3>1 DEF HandTyped
    <3>3. picked \subseteq old.valid
      BY DEF Due
    <3>4. /\ h \in Hands /\ h.users = old.users /\ h.valid = old.valid
          /\ h.pc = "create" /\ h.picked = picked
      BY <2>0, <3>3 DEF Hands
    <3>5. old.pc = "select"
      BY <2>6 DEF SelectUsers
    <3>6. InHandler(h)
      <4>. HIDE DEF h, old
      <4>. QED  BY <2>0, <3>3, <3>4, <3>5
    <3>. HIDE DEF InHandler, h
    <3>. QED  BY <2>1, <3>2, <3>6
  <2>7. CASE ReadTimeouts(c)
    <3>1. PICK listed, picked :
             /\ listed \subseteq old.users /\ picked \subseteq listed
             /\ hand' = [hand EXCEPT ![c].valid = listed, ![c].picked = picked,
                                     ![c].pc = "alert"]
      <4>. DEFINE S == {u \in old.users :
                          row[u].status # "none" /\ ~row[u].alerted}
      <4>1. \E picked \in SUBSET S :
               hand' = [hand EXCEPT ![c].valid = S, ![c].picked = picked,
                                    ![c].pc = "alert"]
        BY <2>7 DEF ReadTimeouts
      <4>. QED  BY <4>1
    <3>. DEFINE h == [old EXCEPT !.valid = listed, !.picked = picked,
                                 !.pc = "alert"]
    <3>2. hand' = [hand EXCEPT ![c] = h]
      BY <3>1 DEF HandTyped
    <3>3. /\ h \in Hands /\ h.users = old.users /\ h.valid = listed
          /\ h.pc = "alert" /\ h.picked = picked
      <4>1. listed \in SUBSET Users /\ picked \in SUBSET Users
        BY <2>0, <3>1 DEF Hands
      <4>. QED  BY <2>0, <4>1 DEF Hands
    <3>4. old.pc = "read"
      BY <2>7 DEF ReadTimeouts
    <3>5. InHandler(h)
      <4>. HIDE DEF h, old
      <4>. QED  BY <2>0, <3>1, <3>3, <3>4
    <3>. HIDE DEF InHandler, h
    <3>. QED  BY <2>1, <3>2, <3>5
  <2>8. CASE CreateReminders(c) \/ PublishReminders(c)
    BY <2>3, <2>8 DEF CreateReminders, PublishReminders
  <2>9. CASE CommitTimeouts(c) \/ PublishAlerts(c)
    BY <2>3, <2>9 DEF CommitTimeouts, PublishAlerts
  <2>10. CASE Finish(c) \/ Retry(c) \/ Crash(c) \/ RollBackReminders(c)
    <3>1. hand' = [hand EXCEPT ![c] = Idle]
      BY <2>10 DEF Finish, Retry, Crash, RollBackReminders, GiveBack
    <3>. HIDE DEF InHandler
    <3>. QED  BY <2>1, <2>2, <3>1
  <2>. QED  BY <1>2, <2>4, <2>5, <2>6, <2>7, <2>8, <2>9, <2>10 DEF Consume
<1>. QED  BY <1>1, <1>2, OthersLeave
          DEF consumerVars, CompleteCheckIn, SettleReminder

(* A row has one of the code's states.                                     *)
LEMMA RowStep == ASSUME Typed, [CheckInNext]_checkInVars PROVE RowTyped'
<1>. USE DEF Typed
<1>1. CASE UNCHANGED row
  BY <1>1 DEF RowTyped
<1>2. ASSUME NEW u \in Users, CompleteCheckIn(u) \/ SettleReminder(u)
      PROVE  RowTyped'
  <2>1. \A old \in RowStates : Stamped(old) \in RowStates
    BY DEF Stamped, RowStates
  <2>2. CASE row' = [row EXCEPT ![u] = Stamped(@)]
    BY <2>1, <2>2 DEF RowTyped
  <2>3. CASE row' = [row EXCEPT ![u].status = "done"]
    BY <2>3 DEF RowTyped, RowStates
  <2>. QED  BY <1>1, <1>2, <2>2, <2>3 DEF CompleteCheckIn, SettleReminder
<1>3. ASSUME NEW c \in Consumers, Consume(c) PROVE RowTyped'
  <2>1. CASE CommitTimeouts(c)
    BY <2>1 DEF CommitTimeouts, RowTyped, RowStates
  <2>. QED  BY <1>1, <1>3, <2>1 DEF Consume, Take, ValidateReminderBatch,
       SelectUsers, CreateReminders, RollBackReminders, PublishReminders,
       ReadTimeouts, PublishAlerts, Finish, Retry, Crash
<1>. QED  BY <1>1, <1>2, <1>3, OthersLeave

(* Only a timeout that reads the rows overlooks somebody, of its batch.    *)
LEMMA OverlookedMoves ==
    ASSUME [CheckInNext]_checkInVars
    PROVE  \/ UNCHANGED overlooked
           \/ \E c \in Consumers : ReadTimeouts(c)
<1>. USE DEF alertVars
<1>1. ASSUME NEW u \in Users, CompleteCheckIn(u) \/ SettleReminder(u)
      PROVE  UNCHANGED overlooked
  BY <1>1 DEF CompleteCheckIn, SettleReminder
<1>2. ASSUME NEW c \in Consumers, Consume(c)
      PROVE  UNCHANGED overlooked \/ ReadTimeouts(c)
  BY <1>2 DEF Consume, Take, ValidateReminderBatch, SelectUsers,
     CreateReminders, RollBackReminders, PublishReminders, CommitTimeouts,
     PublishAlerts, Finish, Retry, Crash
<1>. QED  BY <1>1, <1>2, OthersLeave DEF consumerVars

(* So the overlooked are users.                                            *)
LEMMA OverlookedStep ==
    ASSUME Typed, [CheckInNext]_checkInVars PROVE OverlookedTyped'
<1>1. ASSUME NEW c \in Consumers, ReadTimeouts(c) PROVE OverlookedTyped'
  <2>1. overlooked' \subseteq overlooked \cup hand[c].users
    BY <1>1 DEF ReadTimeouts
  <2>2. hand[c].users \subseteq Users
    BY DEF Typed, HandTyped, Hands
  <2>. QED  BY <2>1, <2>2 DEF Typed, OverlookedTyped
<1>. QED  BY <1>1, OverlookedMoves DEF Typed, OverlookedTyped

(* The day starts with these types.                                        *)
LEMMA TypedInit == CheckInInit => Typed
<1>. SUFFICES ASSUME CheckInInit PROVE Typed
  OBVIOUS
<1>. USE Constants DEF CheckInInit
<1>1. DayTyped
  <2>1. settings \in [Users -> [enabled : BOOLEAN, deadline : Deadlines]]
    <3>1. [enabled : {TRUE}, deadline : InitialDeadlines]
             \subseteq [enabled : BOOLEAN, deadline : Deadlines]
      OBVIOUS
    <3>. QED  BY <3>1
  <2>2. cached \in [Users -> [enabled : BOOLEAN, at : Nat \cup {Never}]]
    OBVIOUS
  <2>3. now \in Times /\ marks \in [reminder : SUBSET Users, timeout : SUBSET Users]
    OBVIOUS
  <2>4. updates \in 0..MaxUpdates /\ runs \in 0..ScheduleRuns
    OBVIOUS
  <2>. QED  BY <2>1, <2>2, <2>3, <2>4 DEF DayTyped
<1>2. PublishersTyped
  BY DEF PublishersTyped, NoRun, Runs, NoUpdate, Updates
<1>3. CountsTyped
  <2>1. monthly \in [Users -> Nat]
    OBVIOUS
  <2>2. created = [u \in Users |-> 0]
        /\ pending = [u \in Users |-> 0] /\ waiting = [u \in Users |-> 0]
        /\ alerts = [u \in Users |-> 0] /\ unpaid = [u \in Users |-> 0]
        /\ notified = [u \in Users |-> 0]
    OBVIOUS
  <2>3. faults \in [{"crash", "db", "redis", "publish"} -> Nat]
    OBVIOUS
  <2>. QED  BY <2>1, <2>2, <2>3 DEF CountsTyped
<1>4. QueueTyped
  BY NoneIsABag DEF QueueTyped
<1>5. HandTyped
  BY DEF HandTyped, Hands, Idle
<1>6. RowTyped
  BY DEF RowTyped, RowStates, NoRow
<1>7. OverlookedTyped
  BY DEF OverlookedTyped
<1>. QED  BY <1>1, <1>2, <1>3, <1>4, <1>5, <1>6, <1>7 DEF Typed

(* Every reachable state has these types.                                  *)
THEOREM CheckInTyped == CheckInSpec => []Typed
<1>1. Typed /\ [CheckInNext]_checkInVars => Typed'
  BY DayStep, PublishersStep, CountsStep, QueueStep, HandStep, RowStep,
     OverlookedStep DEF Typed
<1>. QED  BY TypedInit, <1>1, PTL DEF CheckInSpec

(* The state of the day is what CheckInTypeOK says.                        *)
THEOREM CheckInTypeCorrect == CheckInSpec => []CheckInTypeOK
<1>1. Typed => CheckInTypeOK
  <2>. SUFFICES ASSUME Typed PROVE CheckInTypeOK
    OBVIOUS
  <2>. QED  BY DEF Typed, DayTyped, PublishersTyped, CountsTyped, QueueTyped,
       HandTyped, RowTyped, OverlookedTyped, Times, Messages, Hands, Updates,
       Runs, RowStates, CheckInTypeOK
<1>. QED  BY <1>1, CheckInTyped, PTL

-----------------------------------------------------------------------------
(* Batches                                                                 *)

(* The users a consumer works for: those it creates or publishes tasks     *)
(* for, and all it has read, paid or not, before a round of alerts.        *)
Batch(h) == IF h.pc = "alert" THEN h.valid ELSE h.picked

Busy(h, pc, u) == IF h.pc = pc /\ u \in Batch(h) THEN 1 ELSE 0

HandsAt(pc, u) == {c \in Consumers : hand[c].pc = pc /\ u \in Batch(hand[c])}

(* A step of one consumer leaves the others where they are.                *)
LEMMA OneHandMoves ==
    ASSUME HandTyped, NEW c \in Consumers, Consume(c)
    PROVE  \A d \in Consumers : d # c => hand'[d] = hand[d]
<1>. USE DEF HandTyped
<1>1. CASE UNCHANGED hand
  BY <1>1
<1>2. ASSUME NEW m \in BagToSet(queue), Take(c, m)
      PROVE  \A d \in Consumers : d # c => hand'[d] = hand[d]
  BY <1>2 DEF Take, Hold
<1>3. CASE Finish(c) \/ Retry(c) \/ Crash(c) \/ RollBackReminders(c)
  BY <1>3 DEF Finish, Retry, Crash, RollBackReminders, GiveBack
<1>4. CASE ValidateReminderBatch(c) \/ SelectUsers(c) \/ ReadTimeouts(c)
  BY <1>4 DEF ValidateReminderBatch, SelectUsers, ReadTimeouts
<1>5. CASE CreateReminders(c) \/ PublishReminders(c) \/ CommitTimeouts(c)
           \/ PublishAlerts(c)
  BY <1>5 DEF CreateReminders, PublishReminders, CommitTimeouts,
     PublishAlerts, GotoHand
<1>. QED  BY <1>2, <1>3, <1>4, <1>5 DEF Consume

(* Where a step takes a consumer, and with which users.                    *)
LEMMA PcMoves ==
    ASSUME HandTyped, NEW c \in Consumers
    PROVE  /\ \A pc : GotoHand(c, pc) =>
                 /\ hand'[c].pc = pc /\ hand'[c].valid = hand[c].valid
                 /\ hand'[c].picked = hand[c].picked
           /\ \A m : GiveBack(c, m) => hand'[c].pc = "idle"
           /\ Finish(c) => hand'[c].pc = "idle"
           /\ \A m : Take(c, m) =>
                 /\ hand[c].pc = "idle"
                 /\ hand'[c].pc \in {"idle", "validate", "read"}
           /\ ValidateReminderBatch(c) =>
                 hand'[c].pc \in {"finish", "select"}
           /\ SelectUsers(c) =>
                 /\ hand'[c].pc = "create"
                 /\ \A u \in hand'[c].picked :
                       /\ created[u] = 0
                       /\ BelowLimit(u) \/ Fault("redis")
           /\ ReadTimeouts(c) =>
                 /\ hand'[c].pc = "alert"
                 /\ \A u \in hand'[c].valid : ~row[u].alerted
<1>. USE DEF HandTyped, Hands
<1>1. \A pc : GotoHand(c, pc) =>
         /\ hand'[c].pc = pc /\ hand'[c].valid = hand[c].valid
         /\ hand'[c].picked = hand[c].picked
  BY DEF GotoHand
<1>2. /\ \A m : GiveBack(c, m) => hand'[c].pc = "idle"
      /\ Finish(c) => hand'[c].pc = "idle"
  BY DEF GiveBack, Finish, Idle
<1>3. \A m : Take(c, m) => /\ hand[c].pc = "idle"
                           /\ hand'[c].pc \in {"idle", "validate", "read"}
  <2>1. \A m, b : Hold(c, m, b) => hand'[c].pc \in {"validate", "read"}
    BY DEF Hold, Idle
  <2>. QED  BY <2>1 DEF Take
<1>4. ValidateReminderBatch(c) => hand'[c].pc \in {"finish", "select"}
  BY DEF ValidateReminderBatch
<1>5. ASSUME SelectUsers(c)
      PROVE  /\ hand'[c].pc = "create"
             /\ \A u \in hand'[c].picked :
                   created[u] = 0 /\ (BelowLimit(u) \/ Fault("redis"))
  <2>. DEFINE below == {u \in Due(c) : BelowLimit(u)}
  <2>1. CASE hand' = [hand EXCEPT ![c].picked = below, ![c].pc = "create"]
    <3>1. hand'[c].pc = "create" /\ hand'[c].picked = below
      BY <2>1
    <3>. QED  BY <3>1 DEF Due
  <2>2. ASSUME NEW u \in Due(c), Fault("redis"),
               hand' = [hand EXCEPT ![c].picked = below \cup {u},
                                    ![c].pc = "create"]
        PROVE  /\ hand'[c].pc = "create"
               /\ \A v \in hand'[c].picked :
                     created[v] = 0 /\ (BelowLimit(v) \/ Fault("redis"))
    <3>1. hand'[c].pc = "create" /\ hand'[c].picked = below \cup {u}
      BY <2>2
    <3>. QED  BY <2>2, <3>1 DEF Due
  <2>. QED  BY <1>5, <2>1, <2>2 DEF SelectUsers
<1>6. ASSUME ReadTimeouts(c)
      PROVE  /\ hand'[c].pc = "alert"
             /\ \A u \in hand'[c].valid : ~row[u].alerted
  <2>. DEFINE listed == {u \in hand[c].users :
                            row[u].status # "none" /\ ~row[u].alerted}
  <2>1. PICK paid \in SUBSET listed :
           hand' = [hand EXCEPT ![c].valid = listed, ![c].picked = paid,
                                ![c].pc = "alert"]
    BY <1>6 DEF ReadTimeouts
  <2>2. hand'[c].pc = "alert" /\ hand'[c].valid = listed
    BY <2>1
  <2>. QED  BY <2>2
<1>. QED  BY <1>1, <1>2, <1>3, <1>4, <1>5, <1>6

(* Consumers can be counted, and so can those of each queue.               *)
LEMMA ConsumersFinite ==
    /\ IsFiniteSet(Consumers)
    /\ \A pc, u : /\ IsFiniteSet(HandsAt(pc, u))
                  /\ Cardinality(HandsAt(pc, u)) \in Nat
<1>1. IsFiniteSet(Consumers)
  BY CheckInAssumption, FS_Union DEF Consumers
<1>2. \A pc, u : HandsAt(pc, u) \subseteq Consumers
  BY DEF HandsAt
<1>. QED  BY <1>1, <1>2, FS_Subset, FS_CardinalityType

(* There are as many at some point of a handler as consumers at most.      *)
LEMMA HandsAreConsumers ==
    /\ Cardinality(ReminderConsumers) \in Nat
    /\ Cardinality(TimeoutConsumers) \in Nat
    /\ \A S \in SUBSET ReminderConsumers :
          Cardinality(S) <= Cardinality(ReminderConsumers)
    /\ \A S \in SUBSET TimeoutConsumers :
          Cardinality(S) <= Cardinality(TimeoutConsumers)
  BY CheckInAssumption, FS_Subset, FS_CardinalityType

(* One consumer moves at a time.                                           *)
LEMMA HandsMove ==
    ASSUME HandTyped, NEW c \in Consumers, Consume(c), NEW pc, NEW u
    PROVE  /\ Cardinality(HandsAt(pc, u)) \in Nat
           /\ Cardinality(HandsAt(pc, u))' \in Nat
           /\ Cardinality(HandsAt(pc, u))' =
                 Cardinality(HandsAt(pc, u))
                   + Busy(hand'[c], pc, u) - Busy(hand[c], pc, u)
<1>. DEFINE S == HandsAt(pc, u)
            T == HandsAt(pc, u)'
<1>1. IsFiniteSet(S)
  BY ConsumersFinite
<1>2. T \ {c} = S \ {c}
  BY OneHandMoves DEF HandsAt, Batch
<1>3. /\ Busy(hand[c], pc, u) = IF c \in S THEN 1 ELSE 0
      /\ Busy(hand'[c], pc, u) = IF c \in T THEN 1 ELSE 0
  BY DEF HandsAt, Busy, Batch
<1>. HIDE DEF S, T
<1>4. /\ Cardinality(S) \in Nat /\ Cardinality(T) \in Nat
      /\ Cardinality(T) = Cardinality(S) + (IF c \in T THEN 1 ELSE 0)
                                         - (IF c \in S THEN 1 ELSE 0)
  BY <1>1, <1>2, CountMoves
<1>. QED  BY <1>3, <1>4 DEF S, T

(* The consumers are where they were when none of them moves.              *)
LEMMA HandsStay ==
    ASSUME UNCHANGED hand, NEW pc, NEW u
    PROVE  HandsAt(pc, u)' = HandsAt(pc, u)
  BY DEF HandsAt, Batch

(* What others than the consumers do to what the consumers count.          *)
LEMMA OthersKeep ==
    ASSUME RowTyped, [CheckInNext]_checkInVars
    PROVE  \/ /\ UNCHANGED consumerVars
              /\ \A u \in Users : row'[u].alerted = row[u].alerted
           \/ \E c \in Consumers : Consume(c)
<1>1. ASSUME NEW u \in Users, CompleteCheckIn(u) \/ SettleReminder(u)
      PROVE  /\ UNCHANGED consumerVars
             /\ \A v \in Users : row'[v].alerted = row[v].alerted
  <2>1. UNCHANGED consumerVars
    BY <1>1 DEF CompleteCheckIn, SettleReminder, consumerVars, redisVars,
       taskVars, alertVars
  <2>2. \A old \in RowStates : Stamped(old).alerted = old.alerted
    BY DEF Stamped, RowStates
  <2>3. CASE row' = [row EXCEPT ![u] = Stamped(@)]
    BY <2>1, <2>2, <2>3 DEF RowTyped
  <2>4. CASE row' = [row EXCEPT ![u].status = "done"]
    BY <2>1, <2>4 DEF RowTyped, RowStates
  <2>5. CASE UNCHANGED row
    BY <2>1, <2>5
  <2>. QED  BY <1>1, <2>3, <2>4, <2>5 DEF CompleteCheckIn, SettleReminder
<1>. QED  BY <1>1, OthersLeave

-----------------------------------------------------------------------------
(* Tasks and their messages                                                *)

(* What has failed is not forgotten, and is seen at once.                  *)
LEMMA FailuresGrow ==
    ASSUME CountsTyped, [CheckInNext]_checkInVars
    PROVE  /\ Failures \in Nat /\ Failures' \in Nat
           /\ Failures > 0 => Failures' > 0
           /\ \A kind \in {"crash", "publish", "db"} :
                 Fault(kind) => Failures' > 0
<1>1. /\ faults["crash"] \in Nat /\ faults["publish"] \in Nat
      /\ faults["db"] \in Nat
      /\ faults'["crash"] \in Nat /\ faults'["publish"] \in Nat
      /\ faults'["db"] \in Nat
      /\ faults'["crash"] >= faults["crash"]
      /\ faults'["publish"] >= faults["publish"]
      /\ faults'["db"] >= faults["db"]
  BY FaultsGrow DEF CountsTyped
<1>2. ASSUME NEW kind \in {"crash", "publish", "db"}, Fault(kind)
      PROVE  faults'["crash"] > 0 \/ faults'["publish"] > 0 \/ faults'["db"] > 0
  <2>1. faults'[kind] = faults[kind] + 1
    BY <1>2, FaultCounted
  <2>. QED  BY <1>1, <2>1
<1>3. /\ Failures \in Nat /\ Failures' \in Nat
      /\ Failures > 0 => Failures' > 0
  BY <1>1 DEF Failures
<1>4. faults'["crash"] > 0 \/ faults'["publish"] > 0 \/ faults'["db"] > 0
         => Failures' > 0
  BY <1>1 DEF Failures
<1>. QED  BY <1>2, <1>3, <1>4

(* A task that does not wait for the SMS consumer is about to: its         *)
(* consumer publishes it, or something has failed.                         *)
RemindersPublished ==
    \A u \in Users :
        waiting[u] < pending[u] /\ Failures = 0
            => \E c \in ReminderConsumers :
                  hand[c].pc = "publish" /\ u \in hand[c].picked

(* The consumer that has created tasks publishes them: the steps of the    *)
(* others strand none.                                                     *)
LEMMA RemindersPublishedStep ==
    ASSUME Typed, RemindersPublished, [CheckInNext]_checkInVars
    PROVE  RemindersPublished'
<1>. SUFFICES ASSUME NEW u \in Users, waiting'[u] < pending'[u], Failures' = 0
              PROVE  \E c \in ReminderConsumers :
                        hand'[c].pc = "publish" /\ u \in hand'[c].picked
  BY DEF RemindersPublished
<1>. USE DEF Typed
<1>0. Failures = 0 /\ \A kind \in {"crash", "publish", "db"} : ~Fault(kind)
  BY FailuresGrow
<1>1. waiting[u] < pending[u]
         => \E c \in ReminderConsumers :
               hand[c].pc = "publish" /\ u \in hand[c].picked
  BY <1>0 DEF RemindersPublished
<1>2. CASE UNCHANGED <<hand, pending, waiting>>
  BY <1>1, <1>2
<1>3. ASSUME NEW v \in Users, SettleReminder(v)
      PROVE  waiting[u] < pending[u] /\ UNCHANGED hand
  BY <1>3 DEF SettleReminder, CountsTyped
<1>4. ASSUME NEW c \in Consumers, Consume(c)
      PROVE  \E d \in ReminderConsumers :
                hand'[d].pc = "publish" /\ u \in hand'[d].picked
  <2>1. \A d \in ReminderConsumers :
           d \in Consumers /\ (d # c => hand'[d] = hand[d])
    BY <1>4, OneHandMoves DEF Consumers
  <2>2. CASE CreateReminders(c)
    <3>1. CASE u \in hand[c].picked
      <4>1. GotoHand(c, "publish") /\ c \in ReminderConsumers
        BY <2>2, <3>1 DEF CreateReminders, HandTyped
      <4>. QED  BY <3>1, <4>1, PcMoves
    <3>2. CASE u \notin hand[c].picked
      <4>1. pending'[u] = pending[u] /\ waiting'[u] = waiting[u]
        BY <2>2, <3>2, CountForIs DEF CreateReminders, CountsTyped
      <4>2. hand[c].pc # "publish"
        BY <2>2 DEF CreateReminders
      <4>. QED  BY <1>1, <2>1, <4>1, <4>2
    <3>. QED  BY <3>1, <3>2
  <2>3. CASE PublishReminders(c)
    <3>1. /\ waiting' = [v \in Users |-> IF v \in hand[c].valid
                                         THEN pending[v] ELSE waiting[v]]
          /\ UNCHANGED pending
      BY <1>0, <2>3 DEF PublishReminders
    <3>2. waiting'[u] = pending[u] \/ u \notin hand[c].valid
      BY <3>1
    <3>3. waiting[u] < pending[u] /\ u \notin hand[c].picked
      BY <3>1, <3>2 DEF CountsTyped, HandTyped
    <3>. QED  BY <1>1, <2>1, <3>3
  <2>4. ASSUME UNCHANGED <<pending, waiting>>, hand[c].pc # "publish"
        PROVE  \E d \in ReminderConsumers :
                  hand'[d].pc = "publish" /\ u \in hand'[d].picked
    BY <1>1, <2>1, <2>4
  <2>5. ASSUME NEW m \in BagToSet(queue), Take(c, m)
        PROVE  UNCHANGED <<pending, waiting>> /\ hand[c].pc # "publish"
    BY <2>5 DEF Take, taskVars
  <2>6. ~RollBackReminders(c) /\ ~Retry(c) /\ ~Crash(c)
    BY <1>0 DEF RollBackReminders, Retry, Crash
  <2>7. CASE ValidateReminderBatch(c) \/ SelectUsers(c) \/ ReadTimeouts(c)
             \/ CommitTimeouts(c) \/ PublishAlerts(c) \/ Finish(c)
    BY <2>4, <2>7 DEF taskVars, ValidateReminderBatch, SelectUsers,
       ReadTimeouts, CommitTimeouts, PublishAlerts, Finish
  <2>. QED  BY <1>4, <2>2, <2>3, <2>4, <2>5, <2>6, <2>7 DEF Consume
<1>5. ASSUME NEW v \in Users, CompleteCheckIn(v)
      PROVE  UNCHANGED <<hand, pending, waiting>>
  BY <1>5 DEF CompleteCheckIn, taskVars
<1>. QED  BY <1>1, <1>2, <1>3, <1>4, <1>5, OthersLeave DEF consumerVars

(* Rounds of alerts are handed out by the consumers that have committed    *)
(* them, each round once, and all of them if nothing fails.                *)
AlertsPublished ==
    \A u \in Users :
        /\ notified[u] + Cardinality(HandsAt("notify", u)) <= alerts[u]
        /\ Failures = 0 =>
              alerts[u] <= notified[u] + Cardinality(HandsAt("notify", u))

(* The consumer that has committed a round of alerts hands it out, and no  *)
(* step of the others does.                                                *)
LEMMA AlertsPublishedStep ==
    ASSUME Typed, AlertsPublished, [CheckInNext]_checkInVars
    PROVE  AlertsPublished'
<1>. SUFFICES ASSUME NEW u \in Users
              PROVE  /\ notified'[u] + Cardinality(HandsAt("notify", u))'
                           <= alerts'[u]
                     /\ Failures' = 0 =>
                           alerts'[u] <= notified'[u]
                                           + Cardinality(HandsAt("notify", u))'
  BY DEF AlertsPublished
<1>. DEFINE n == Cardinality(HandsAt("notify", u))
            n1 == Cardinality(HandsAt("notify", u))'
<1>0. /\ notified[u] \in Nat /\ alerts[u] \in Nat /\ n \in Nat
      /\ Failures \in Nat /\ Failures' \in Nat
      /\ Failures > 0 => Failures' > 0
      /\ \A kind \in {"crash", "publish", "db"} :
            Fault(kind) => Failures' > 0
      /\ notified[u] + n <= alerts[u]
      /\ Failures = 0 => alerts[u] <= notified[u] + n
  BY FailuresGrow, ConsumersFinite DEF Typed, CountsTyped, AlertsPublished
<1>1. CASE UNCHANGED consumerVars
  <2>1. n1 = n /\ UNCHANGED <<notified, alerts>>
    BY <1>1, HandsStay DEF consumerVars, alertVars
  <2>. HIDE DEF n, n1
  <2>2. /\ notified'[u] + n1 <= alerts'[u]
        /\ Failures' = 0 => alerts'[u] <= notified'[u] + n1
    BY <1>0, <2>1
  <2>. QED  BY <2>2 DEF n1
<1>2. ASSUME NEW c \in Consumers, Consume(c)
      PROVE  /\ notified'[u] + n1 <= alerts'[u]
             /\ Failures' = 0 => alerts'[u] <= notified'[u] + n1
  <2>. DEFINE b == Busy(hand[c], "notify", u)
              b1 == Busy(hand'[c], "notify", u)
  <2>0. /\ n1 \in Nat /\ n1 = n + b1 - b /\ b \in 0..1 /\ b1 \in 0..1
    BY <1>2, HandsMove DEF Typed, Busy
  <2>. HIDE DEF n, n1
  <2>1. CASE CommitTimeouts(c)
    <3>1. /\ alerts'[u] = alerts[u] + (IF u \in hand[c].picked THEN 1 ELSE 0)
          /\ UNCHANGED notified
      <4>1. alerts' = CountFor(alerts, hand[c].picked) /\ UNCHANGED notified
        BY <2>1 DEF CommitTimeouts
      <4>. QED  BY <4>1, CountForIs DEF Typed, CountsTyped
    <3>2. b = 0
      BY <2>1 DEF CommitTimeouts, Busy
    <3>3. b1 = IF u \in hand[c].picked THEN 1 ELSE 0
      <4>1. GotoHand(c, IF hand[c].picked = {} THEN "finish" ELSE "notify")
        BY <2>1 DEF CommitTimeouts
      <4>2. /\ hand'[c].pc = IF hand[c].picked = {} THEN "finish" ELSE "notify"
            /\ hand'[c].picked = hand[c].picked
        BY <4>1, PcMoves DEF Typed
      <4>. QED  BY <4>2 DEF Busy, Batch
    <3>. HIDE DEF b, b1
    <3>. QED  BY <1>0, <2>0, <3>1, <3>2, <3>3
  <2>2. CASE PublishAlerts(c)
    <3>1. b = (IF u \in hand[c].picked THEN 1 ELSE 0) /\ b1 = 0
      BY <2>2, PcMoves DEF PublishAlerts, Typed, Busy, Batch
    <3>2. UNCHANGED alerts
      BY <2>2 DEF PublishAlerts
    <3>3. \/ notified'[u] = notified[u] + (IF u \in hand[c].picked THEN 1 ELSE 0)
          \/ Failures' > 0 /\ UNCHANGED notified
      BY <2>2, <1>0, CountForIs DEF PublishAlerts, Typed, CountsTyped
    <3>. HIDE DEF b, b1
    <3>. QED  BY <1>0, <2>0, <3>1, <3>2, <3>3
  <2>3. CASE Crash(c)
    <3>1. b1 = 0 /\ Failures' > 0 /\ UNCHANGED <<notified, alerts>>
      BY <2>3, <1>0, PcMoves DEF Crash, Typed, Busy, alertVars
    <3>. HIDE DEF b, b1
    <3>. QED  BY <1>0, <2>0, <3>1
  <2>4. ASSUME UNCHANGED <<notified, alerts>>, b = 0, b1 = 0
        PROVE  /\ notified'[u] + n1 <= alerts'[u]
               /\ Failures' = 0 => alerts'[u] <= notified'[u] + n1
    <3>. HIDE DEF b, b1
    <3>. QED  BY <1>0, <2>0, <2>4
  <2>5. ASSUME NEW m \in BagToSet(queue), Take(c, m)
        PROVE  UNCHANGED <<notified, alerts>> /\ b = 0 /\ b1 = 0
    BY <2>5, PcMoves DEF Take, alertVars, Typed, Busy
  <2>6. CASE ValidateReminderBatch(c) \/ SelectUsers(c) \/ ReadTimeouts(c)
             \/ Retry(c) \/ Finish(c) \/ RollBackReminders(c)
    <3>1. hand[c].pc # "notify" /\ UNCHANGED <<notified, alerts>>
      BY <2>6 DEF ValidateReminderBatch, SelectUsers, ReadTimeouts, Retry,
         Finish, RollBackReminders, alertVars
    <3>2. hand'[c].pc # "notify"
      BY <2>6, PcMoves DEF Retry, RollBackReminders, Typed
    <3>. QED  BY <2>4, <3>1, <3>2 DEF Busy
  <2>7. CASE CreateReminders(c) \/ PublishReminders(c)
    <3>1. hand[c].pc # "notify" /\ UNCHANGED <<notified, alerts>>
      BY <2>7 DEF CreateReminders, PublishReminders, alertVars
    <3>2. hand'[c].pc # "notify"
      BY <2>7, PcMoves DEF CreateReminders, PublishReminders, Typed
    <3>. QED  BY <2>4, <3>1, <3>2 DEF Busy
  <2>. QED  BY <1>2, <2>1, <2>2, <2>3, <2>4, <2>5, <2>6, <2>7 DEF Consume
<1>. QED  BY <1>1, <1>2, OthersKeep DEF Typed

(* However the consumers interleave, and whatever the scheduler and the    *)
(* settings publish again, a task without a message is the work of a       *)
(* failure.                                                                *)
THEOREM CheckInTasksPublished == CheckInSpec => []TasksArePublished
<1>1. CheckInInit => RemindersPublished /\ AlertsPublished
  <2>. SUFFICES ASSUME CheckInInit PROVE RemindersPublished /\ AlertsPublished
    OBVIOUS
  <2>1. RemindersPublished
    BY DEF CheckInInit, RemindersPublished
  <2>2. \A u : HandsAt("notify", u) = {}
    BY DEF CheckInInit, HandsAt, Idle
  <2>3. \A u : Cardinality(HandsAt("notify", u)) = 0
    BY <2>2, FS_EmptySet
  <2>4. \A u \in Users : notified[u] = 0 /\ alerts[u] = 0
    BY DEF CheckInInit
  <2>. QED  BY <2>1, <2>3, <2>4 DEF AlertsPublished
<1>2. Typed /\ RemindersPublished /\ AlertsPublished
         /\ [CheckInNext]_checkInVars
         => (RemindersPublished /\ AlertsPublished)'
  BY RemindersPublishedStep, AlertsPublishedStep
<1>3. Typed /\ RemindersPublished /\ AlertsPublished => TasksArePublished
  <2>. SUFFICES ASSUME Typed, RemindersPublished, AlertsPublished,
                       NEW u \in Users
                PROVE  /\ waiting[u] < pending[u] =>
                             \/ \E c \in ReminderConsumers :
                                   hand[c].pc = "publish" /\ u \in hand[c].picked
                             \/ Failures > 0
                       /\ notified[u] < alerts[u] =>
                             \/ \E c \in TimeoutConsumers :
                                   hand[c].pc = "notify" /\ u \in hand[c].picked
                             \/ Failures > 0
    BY DEF TasksArePublished
  <2>1. Failures \in Nat
    BY DEF Failures, Typed, CountsTyped
  <2>2. ASSUME notified[u] < alerts[u], Failures = 0
        PROVE  \E c \in TimeoutConsumers :
                  hand[c].pc = "notify" /\ u \in hand[c].picked
    <3>1. Cardinality(HandsAt("notify", u)) # 0
      BY <2>2 DEF AlertsPublished, Typed, CountsTyped
    <3>2. HandsAt("notify", u) # {}
      BY <3>1, FS_EmptySet
    <3>3. PICK c \in Consumers : hand[c].pc = "notify" /\ u \in Batch(hand[c])
      BY <3>2 DEF HandsAt
    <3>. QED  BY <3>3 DEF Batch, Typed, HandTyped
  <2>. QED  BY <2>1, <2>2 DEF RemindersPublished
<1>. QED  BY <1>1, <1>2, <1>3, CheckInTyped, PTL DEF CheckInSpec

-----------------------------------------------------------------------------
(* One reminder and one timeout for each goroutine                         *)

(* A consumer that has selected a user creates one task; none selects the  *)
(* user after the first one.                                               *)
RemindersBounded ==
    \A u \in Users :
        created[u] + Cardinality(HandsAt("create", u))
            <= Cardinality(ReminderConsumers)

(* All consumers may have found the same last reminder of the month.       *)
MonthBounded ==
    \A u \in Users :
        monthly[u] + Cardinality(HandsAt("create", u))
            <= MonthlyReminderLimit + faults["redis"]
                 + Cardinality(ReminderConsumers) - 1

(* Redis counts what is created, unless it fails.                          *)
CreatedIsCounted ==
    \A u \in Users : created[u] <= monthly[u] + faults["redis"]

(* A consumer that has read a row without an alert alerts once, and the    *)
(* row tells of it from the first one on.                                  *)
AlertsBounded ==
    \A u \in Users :
        alerts[u] + unpaid[u] + Cardinality(HandsAt("alert", u))
            <= Cardinality(TimeoutConsumers)

AlertedIsCounted ==
    \A u \in Users : row[u].alerted <=> alerts[u] + unpaid[u] > 0

ReminderLimits == RemindersBounded /\ MonthBounded /\ CreatedIsCounted
AlertLimits == AlertsBounded /\ AlertedIsCounted

(* The failures of Redis, counted.                                         *)
LEMMA RedisFaults ==
    ASSUME CountsTyped, [CheckInNext]_checkInVars
    PROVE  /\ faults["redis"] \in Nat /\ faults'["redis"] \in Nat
           /\ faults'["redis"] >= faults["redis"]
           /\ Fault("redis") => faults'["redis"] = faults["redis"] + 1
  BY FaultsGrow, FaultCounted DEF CountsTyped

(* At most all reminder consumers have selected a user.                    *)
LEMMA CreatingBounded ==
    ASSUME Typed, [CheckInNext]_checkInVars, NEW u
    PROVE  Cardinality(HandsAt("create", u))' <= Cardinality(ReminderConsumers)
<1>1. HandTyped'
  BY HandStep
<1>2. HandsAt("create", u)' \subseteq ReminderConsumers
  BY <1>1 DEF HandsAt, HandTyped
<1>. QED  BY <1>2, HandsAreConsumers

(* No more consumers work on a user's timeout than there are.              *)
LEMMA AlertingBounded ==
    ASSUME Typed, [CheckInNext]_checkInVars, NEW u
    PROVE  Cardinality(HandsAt("alert", u))' <= Cardinality(TimeoutConsumers)
<1>1. HandTyped'
  BY HandStep
<1>2. HandsAt("alert", u)' \subseteq TimeoutConsumers
  BY <1>1 DEF HandsAt, HandTyped
<1>. QED  BY <1>2, HandsAreConsumers

(* A batch of reminders is selected, and created or rolled back once.      *)
LEMMA ReminderLimitsStep ==
    ASSUME Typed, ReminderLimits, [CheckInNext]_checkInVars
    PROVE  ReminderLimits'
<1>. SUFFICES ASSUME NEW u \in Users
              PROVE  /\ created'[u] + Cardinality(HandsAt("create", u))'
                           <= Cardinality(ReminderConsumers)
                     /\ monthly'[u] + Cardinality(HandsAt("create", u))'
                           <= MonthlyReminderLimit + faults'["redis"]
                                + Cardinality(ReminderConsumers) - 1
                     /\ created'[u] <= monthly'[u] + faults'["redis"]
  BY DEF ReminderLimits, RemindersBounded, MonthBounded, CreatedIsCounted
<1>. DEFINE n == Cardinality(HandsAt("create", u))
            n1 == Cardinality(HandsAt("create", u))'
            all == Cardinality(ReminderConsumers)
            f == faults["redis"]
            f1 == faults'["redis"]
            Within == /\ created'[u] + n1 <= all
                      /\ monthly'[u] + n1 <= MonthlyReminderLimit + f1 + all - 1
                      /\ created'[u] <= monthly'[u] + f1
<1>0. /\ created[u] \in Nat /\ monthly[u] \in Nat
      /\ n \in Nat /\ all \in Nat /\ f \in Nat /\ f1 \in Nat
      /\ MonthlyReminderLimit \in Nat /\ f1 >= f
      /\ Fault("redis") => f1 = f + 1
      /\ created[u] + n <= all
      /\ monthly[u] + n <= MonthlyReminderLimit + f + all - 1
      /\ created[u] <= monthly[u] + f
  BY RedisFaults, ConsumersFinite, HandsAreConsumers, Constants
     DEF Typed, CountsTyped, ReminderLimits, RemindersBounded, MonthBounded,
         CreatedIsCounted
<1>1. ASSUME UNCHANGED <<created, monthly>>, n1 = n PROVE Within
  <2>. HIDE DEF n, n1, all, f, f1
  <2>. QED  BY <1>0, <1>1
<1>2. CASE UNCHANGED consumerVars
  <2>1. n1 = n /\ UNCHANGED <<created, monthly>>
    BY <1>2, HandsStay DEF consumerVars
  <2>. QED  BY <1>1, <2>1
<1>3. ASSUME NEW c \in Consumers, Consume(c) PROVE Within
  <2>. DEFINE b == Busy(hand[c], "create", u)
              b1 == Busy(hand'[c], "create", u)
  <2>0. /\ n1 \in Nat /\ n1 = n + b1 - b /\ b \in 0..1 /\ b1 \in 0..1
    BY <1>3, HandsMove DEF Typed, Busy
  <2>1. CASE SelectUsers(c)
    <3>1. b = 0 /\ UNCHANGED <<created, monthly>>
      BY <2>1 DEF SelectUsers, Busy, taskVars, redisVars
    <3>2. b1 = 1 => created[u] = 0 /\ (monthly[u] < MonthlyReminderLimit
                                         \/ f1 = f + 1)
      <4>1. b1 = 1 => u \in hand'[c].picked
        BY <2>1, PcMoves DEF Busy, Batch, Typed
      <4>. QED  BY <1>0, <2>1, <4>1, PcMoves DEF BelowLimit, Typed
    <3>3. n1 <= all
      BY CreatingBounded
    <3>. HIDE DEF n, n1, all, f, f1, b, b1
    <3>4. CASE b1 = 0
      BY <1>0, <2>0, <3>1, <3>4
    <3>5. CASE b1 = 1
      BY <1>0, <2>0, <3>1, <3>2, <3>3, <3>5
    <3>. QED  BY <2>0, <3>4, <3>5
  <2>2. CASE CreateReminders(c)
    <3>1. b = IF u \in hand[c].picked THEN 1 ELSE 0
      BY <2>2 DEF CreateReminders, Busy, Batch
    <3>2. b1 = 0
      <4>1. hand'[c].pc \in {"finish", "publish"}
        BY <2>2, PcMoves DEF CreateReminders, Typed
      <4>. QED  BY <4>1 DEF Busy
    <3>3. created'[u] = created[u] + b
      <4>1. created' = CountFor(created, hand[c].picked)
        BY <2>2 DEF CreateReminders
      <4>. QED  BY <3>1, <4>1, CountForIs DEF Typed, CountsTyped
    <3>4. monthly'[u] = monthly[u] + b
             \/ (monthly'[u] \in {monthly[u], monthly[u] + b} /\ f1 = f + 1)
      <4>1. \/ monthly' = CountFor(monthly, hand[c].picked)
            \/ /\ \E lost : monthly' = CountFor(monthly,
                                                hand[c].picked \ {lost})
               /\ Fault("redis")
        BY <2>2 DEF CreateReminders
      <4>2. CASE monthly' = CountFor(monthly, hand[c].picked)
        BY <3>1, <4>2, CountForIs DEF Typed, CountsTyped
      <4>3. ASSUME NEW lost, monthly' = CountFor(monthly,
                                                 hand[c].picked \ {lost})
            PROVE  monthly'[u] \in {monthly[u], monthly[u] + b}
        <5>1. monthly'[u] = monthly[u]
                 + (IF u \in hand[c].picked \ {lost} THEN 1 ELSE 0)
          BY <4>3, CountForIs DEF Typed, CountsTyped
        <5>. HIDE DEF b
        <5>. QED  BY <1>0, <3>1, <5>1
      <4>. QED  BY <1>0, <4>1, <4>2, <4>3
    <3>. HIDE DEF n, n1, all, f, f1, b, b1
    <3>. QED  BY <1>0, <2>0, <3>2, <3>3, <3>4
  <2>3. CASE RollBackReminders(c)
    <3>1. b = IF u \in hand[c].picked THEN 1 ELSE 0
      BY <2>3 DEF RollBackReminders, Busy, Batch
    <3>2. b1 = 0
      <4>1. hand'[c].pc = "idle"
        BY <2>3, PcMoves DEF RollBackReminders, Typed
      <4>. QED  BY <4>1 DEF Busy
    <3>3. UNCHANGED created
      BY <2>3 DEF RollBackReminders, taskVars
    <3>4. monthly'[u] = monthly[u] \/ monthly'[u] = monthly[u] + b
      <4>1. PICK done \in SUBSET hand[c].picked : monthly' = CountFor(monthly, done)
        BY <2>3 DEF RollBackReminders
      <4>2. monthly'[u] = monthly[u] + (IF u \in done THEN 1 ELSE 0)
        BY <4>1, CountForIs DEF Typed, CountsTyped
      <4>. HIDE DEF b
      <4>. QED  BY <1>0, <3>1, <4>1, <4>2
    <3>. HIDE DEF n, n1, all, f, f1, b, b1
    <3>. QED  BY <1>0, <2>0, <3>2, <3>3, <3>4
  <2>4. ASSUME UNCHANGED <<created, monthly>>, b = 0, b1 = 0 PROVE Within
    <3>1. n1 = n
      <4>. HIDE DEF n, n1, b, b1
      <4>. QED  BY <1>0, <2>0, <2>4
    <3>. QED  BY <1>1, <2>4, <3>1
  <2>5. ASSUME NEW m \in BagToSet(queue), Take(c, m) PROVE Within
    <3>1. UNCHANGED <<created, monthly>> /\ b = 0 /\ b1 = 0
      BY <2>5, PcMoves DEF Take, taskVars, redisVars, Typed, Busy
    <3>. QED  BY <2>4, <3>1
  <2>6. CASE ValidateReminderBatch(c) \/ PublishReminders(c)
             \/ ReadTimeouts(c) \/ CommitTimeouts(c) \/ PublishAlerts(c)
    <3>1. hand[c].pc # "create" /\ UNCHANGED <<created, monthly>>
      BY <2>6 DEF ValidateReminderBatch, PublishReminders, ReadTimeouts,
         CommitTimeouts, PublishAlerts, taskVars, redisVars
    <3>2. hand'[c].pc # "create"
      <4>1. \/ hand'[c].pc \in {"finish", "select", "alert"}
            \/ GotoHand(c, "finish") \/ GotoHand(c, "notify")
        BY <2>6, PcMoves DEF PublishReminders, CommitTimeouts, PublishAlerts,
           Typed
      <4>. QED  BY <4>1, PcMoves DEF Typed
    <3>. QED  BY <2>4, <3>1, <3>2 DEF Busy
  <2>7. CASE Finish(c) \/ Retry(c) \/ Crash(c)
    <3>1. hand[c].pc # "create" /\ UNCHANGED <<created, monthly>>
      BY <2>7 DEF Finish, Retry, Crash, taskVars, redisVars
    <3>2. hand'[c].pc = "idle"
      BY <2>7, PcMoves DEF Retry, Crash, Typed
    <3>. QED  BY <2>4, <3>1, <3>2 DEF Busy
  <2>. QED  BY <1>3, <2>1, <2>2, <2>3, <2>5, <2>6, <2>7 DEF Consume
<1>. QED  BY <1>2, <1>3, OthersKeep DEF Typed

(* A batch of timeouts is read, and committed once.                        *)
LEMMA AlertLimitsStep ==
    ASSUME Typed, AlertLimits, [CheckInNext]_checkInVars
    PROVE  AlertLimits'
<1>. SUFFICES ASSUME NEW u \in Users
              PROVE  /\ alerts'[u] + unpaid'[u]
                           + Cardinality(HandsAt("alert", u))'
                              <= Cardinality(TimeoutConsumers)
                     /\ row'[u].alerted <=> alerts'[u] + unpaid'[u] > 0
  BY DEF AlertLimits, AlertsBounded, AlertedIsCounted
<1>. DEFINE n == Cardinality(HandsAt("alert", u))
            n1 == Cardinality(HandsAt("alert", u))'
            all == Cardinality(TimeoutConsumers)
            Within == /\ alerts'[u] + unpaid'[u] + n1 <= all
                      /\ row'[u].alerted <=> alerts'[u] + unpaid'[u] > 0
<1>0. /\ alerts[u] \in Nat /\ unpaid[u] \in Nat /\ n \in Nat /\ all \in Nat
      /\ alerts[u] + unpaid[u] + n <= all
      /\ row[u].alerted <=> alerts[u] + unpaid[u] > 0
  BY ConsumersFinite, HandsAreConsumers
     DEF Typed, CountsTyped, AlertLimits, AlertsBounded, AlertedIsCounted
<1>1. ASSUME UNCHANGED <<alerts, unpaid>>, row'[u].alerted = row[u].alerted,
             n1 = n
      PROVE  Within
  <2>. HIDE DEF n, n1, all
  <2>. QED  BY <1>0, <1>1
<1>2. CASE /\ UNCHANGED consumerVars
           /\ \A v \in Users : row'[v].alerted = row[v].alerted
  <2>1. n1 = n /\ UNCHANGED <<alerts, unpaid>>
    BY <1>2, HandsStay DEF consumerVars, alertVars
  <2>. QED  BY <1>1, <1>2, <2>1
<1>3. ASSUME NEW c \in Consumers, Consume(c) PROVE Within
  <2>. DEFINE b == Busy(hand[c], "alert", u)
              b1 == Busy(hand'[c], "alert", u)
  <2>0. /\ n1 \in Nat /\ n1 = n + b1 - b /\ b \in 0..1 /\ b1 \in 0..1
    BY <1>3, HandsMove DEF Typed, Busy
  <2>1. CASE ReadTimeouts(c)
    <3>1. b = 0 /\ UNCHANGED <<alerts, unpaid, row>>
      BY <2>1 DEF ReadTimeouts, Busy, alertVars
    <3>2. b1 = 1 => alerts[u] + unpaid[u] = 0
      <4>1. b1 = 1 => ~row[u].alerted
        BY <2>1, PcMoves DEF Busy, Batch, Typed
      <4>. HIDE DEF b1
      <4>. QED  BY <1>0, <4>1
    <3>3. n1 <= all
      BY AlertingBounded
    <3>. HIDE DEF n, n1, all, b, b1
    <3>4. CASE b1 = 0
      BY <1>0, <2>0, <3>1, <3>4
    <3>5. CASE b1 = 1
      BY <1>0, <2>0, <3>1, <3>2, <3>3, <3>5
    <3>. QED  BY <2>0, <3>4, <3>5
  <2>2. CASE CommitTimeouts(c)
    <3>. DEFINE paid == IF u \in hand[c].picked THEN 1 ELSE 0
                rest == IF u \in hand[c].valid \ hand[c].picked THEN 1 ELSE 0
    <3>1. b = (IF u \in hand[c].valid THEN 1 ELSE 0) /\ b = paid + rest
      <4>1. hand[c].pc = "alert" /\ hand[c].picked \subseteq hand[c].valid
        BY <2>2 DEF CommitTimeouts, Typed, HandTyped
      <4>. QED  BY <4>1 DEF Busy, Batch
    <3>2. b1 = 0
      <4>1. GotoHand(c, "finish") \/ GotoHand(c, "notify")
        BY <2>2 DEF CommitTimeouts
      <4>. QED  BY <4>1, PcMoves DEF Busy, Typed
    <3>3. alerts'[u] = alerts[u] + paid /\ unpaid'[u] = unpaid[u] + rest
      <4>1. /\ alerts' = CountFor(alerts, hand[c].picked)
            /\ unpaid' = CountFor(unpaid, hand[c].valid \ hand[c].picked)
        BY <2>2 DEF CommitTimeouts
      <4>. QED  BY <4>1, CountForIs DEF Typed, CountsTyped
    <3>4. row'[u].alerted <=> (u \in hand[c].valid \/ row[u].alerted)
      <4>1. row' = [v \in Users |-> IF v \in hand[c].valid
                                    THEN [row[v] EXCEPT !.status = "timeout",
                                                        !.alerted = TRUE]
                                    ELSE row[v]]
        BY <2>2 DEF CommitTimeouts
      <4>2. row[u] \in RowStates
        BY DEF Typed, RowTyped
      <4>3. [row[u] EXCEPT !.status = "timeout", !.alerted = TRUE].alerted
        BY <4>2 DEF RowStates
      <4>. QED  BY <4>1, <4>3
    <3>5. paid \in 0..1 /\ rest \in 0..1
      OBVIOUS
    <3>. HIDE DEF n, n1, all, b, b1, paid, rest
    <3>6. alerts'[u] + unpaid'[u] + n1 <= all
      BY <1>0, <2>0, <3>1, <3>2, <3>3, <3>5
    <3>7. alerts'[u] + unpaid'[u] > 0 <=>
             (u \in hand[c].valid \/ alerts[u] + unpaid[u] > 0)
      BY <1>0, <3>1, <3>3, <3>5
    <3>. QED  BY <1>0, <3>4, <3>6, <3>7
  <2>3. ASSUME UNCHANGED <<alerts, unpaid, row>>, b = 0, b1 = 0 PROVE Within
    <3>1. n1 = n
      <4>. HIDE DEF n, n1, b, b1
      <4>. QED  BY <1>0, <2>0, <2>3
    <3>. QED  BY <1>1, <2>3, <3>1
  <2>4. ASSUME NEW m \in BagToSet(queue), Take(c, m) PROVE Within
    <3>1. UNCHANGED <<alerts, unpaid, row>> /\ b = 0 /\ b1 = 0
      BY <2>4, PcMoves DEF Take, alertVars, Typed, Busy
    <3>. QED  BY <2>3, <3>1
  <2>5. CASE Retry(c) \/ Crash(c)
    <3>1. UNCHANGED <<alerts, unpaid, row>> /\ \E m : GiveBack(c, m)
      BY <2>5 DEF Retry, Crash, alertVars
    <3>2. b1 = 0
      BY <3>1, PcMoves DEF Typed, Busy
    <3>. HIDE DEF n, n1, all, b, b1
    <3>. QED  BY <1>0, <2>0, <3>1, <3>2
  <2>6. CASE ValidateReminderBatch(c) \/ SelectUsers(c) \/ CreateReminders(c)
             \/ PublishReminders(c) \/ PublishAlerts(c)
    <3>1. hand[c].pc # "alert" /\ UNCHANGED <<alerts, unpaid, row>>
      BY <2>6 DEF ValidateReminderBatch, SelectUsers, CreateReminders,
         PublishReminders, PublishAlerts, alertVars
    <3>2. hand'[c].pc # "alert"
      <4>1. \/ hand'[c].pc \in {"finish", "select", "create"}
            \/ GotoHand(c, "finish") \/ GotoHand(c, "publish")
        BY <2>6, PcMoves DEF CreateReminders, PublishReminders, PublishAlerts,
           Typed
      <4>. QED  BY <4>1, PcMoves DEF Typed
    <3>. QED  BY <2>3, <3>1, <3>2 DEF Busy
  <2>7. CASE Finish(c) \/ RollBackReminders(c)
    <3>1. hand[c].pc # "alert" /\ UNCHANGED <<alerts, unpaid, row>>
      BY <2>7 DEF Finish, RollBackReminders, alertVars
    <3>2. hand'[c].pc = "idle"
      BY <2>7, PcMoves DEF RollBackReminders, Typed
    <3>. QED  BY <2>3, <3>1, <3>2 DEF Busy
  <2>. QED  BY <1>3, <2>1, <2>2, <2>4, <2>5, <2>6, <2>7 DEF Consume
<1>. QED  BY <1>2, <1>3, OthersKeep DEF Typed

(* Nobody is at work in the morning, and nothing is counted but the month. *)
LEMMA LimitsInit ==
    ASSUME CheckInInit
    PROVE  /\ ReminderConsumers # {} => ReminderLimits
           /\ AlertLimits
<1>1. \A u : Cardinality(HandsAt("create", u)) = 0
             /\ Cardinality(HandsAt("alert", u)) = 0
  <2>1. \A u : HandsAt("create", u) = {} /\ HandsAt("alert", u) = {}
    BY DEF CheckInInit, HandsAt, Idle
  <2>. QED  BY <2>1, FS_EmptySet
<1>2. \A u \in Users :
         /\ created[u] = 0 /\ alerts[u] = 0 /\ unpaid[u] = 0
         /\ monthly[u] \in 0..MonthlyReminderLimit
         /\ row[u] = NoRow
  BY DEF CheckInInit
<1>3. faults["redis"] = 0
  BY DEF CheckInInit
<1>4. /\ Cardinality(ReminderConsumers) \in Nat
      /\ Cardinality(TimeoutConsumers) \in Nat
      /\ ReminderConsumers # {} => Cardinality(ReminderConsumers) # 0
  BY HandsAreConsumers, CheckInAssumption, FS_EmptySet
<1>5. ReminderConsumers # {} => ReminderLimits
  BY <1>1, <1>2, <1>3, <1>4, Constants
     DEF ReminderLimits, RemindersBounded, MonthBounded, CreatedIsCounted
<1>6. AlertLimits
  BY <1>1, <1>2, <1>4 DEF AlertLimits, AlertsBounded, AlertedIsCounted, NoRow
<1>. QED  BY <1>5, <1>6

(* A user has at most as many reminders a day as goroutines consume the    *)
(* reminders, and the month's limit is exceeded by the failures of Redis   *)
(* and the other goroutines at most.                                       *)
THEOREM CheckInReminders ==
    ASSUME ReminderConsumers # {}
    PROVE  CheckInSpec => []ReminderLimits
<1>1. CheckInInit => ReminderLimits
  BY LimitsInit
<1>2. Typed /\ ReminderLimits /\ [CheckInNext]_checkInVars => ReminderLimits'
  BY ReminderLimitsStep
<1>. QED  BY <1>1, <1>2, CheckInTyped, PTL DEF CheckInSpec

(* A user times out at most once for each goroutine that consumes the      *)
(* timeouts, and the row always tells whether the user has.                *)
THEOREM CheckInAlerts == CheckInSpec => []AlertLimits
<1>1. CheckInInit => AlertLimits
  BY LimitsInit
<1>2. Typed /\ AlertLimits /\ [CheckInNext]_checkInVars => AlertLimits'
  BY AlertLimitsStep
<1>. QED  BY <1>1, <1>2, CheckInTyped, PTL DEF CheckInSpec

(* The worker has one goroutine for the reminders: one reminder a day, and *)
(* the month's limit up to the failures of Redis.                          *)
THEOREM CheckInRemindersLimited ==
    ASSUME Cardinality(ReminderConsumers) = 1
    PROVE  CheckInSpec => []RemindersLimited
<1>1. ReminderConsumers # {}
  BY FS_EmptySet
<1>2. Typed /\ ReminderLimits => RemindersLimited
  <2>. SUFFICES ASSUME Typed, ReminderLimits, NEW u \in Users
                PROVE  /\ created[u] <= 1
                       /\ monthly[u] <= MonthlyReminderLimit + faults["redis"]
                       /\ created[u] <= monthly[u] + faults["redis"]
    BY DEF RemindersLimited, RemindedAtMostOnce, MonthlyLimitHolds
  <2>. DEFINE n == Cardinality(HandsAt("create", u))
  <2>1. /\ created[u] \in Nat /\ monthly[u] \in Nat /\ n \in Nat
        /\ faults["redis"] \in Nat /\ MonthlyReminderLimit \in Nat
        /\ created[u] + n <= 1
        /\ monthly[u] + n <= MonthlyReminderLimit + faults["redis"] + 1 - 1
        /\ created[u] <= monthly[u] + faults["redis"]
    BY ConsumersFinite, Constants
       DEF Typed, CountsTyped, ReminderLimits, RemindersBounded, MonthBounded,
           CreatedIsCounted
  <2>. HIDE DEF n
  <2>. QED  BY <2>1
<1>. QED  BY <1>1, <1>2, CheckInReminders, CheckInTyped, PTL

(* The worker has one goroutine for the timeouts: one timeout a day, told  *)
(* by the row.                                                             *)
THEOREM CheckInAlertRecorded ==
    ASSUME Cardinality(TimeoutConsumers) = 1
    PROVE  CheckInSpec => []AlertIsRecorded
<1>1. Typed /\ AlertLimits => AlertIsRecorded
  <2>. SUFFICES ASSUME Typed, AlertLimits, NEW u \in Users
                PROVE  alerts[u] + unpaid[u] =
                          IF row[u].alerted THEN 1 ELSE 0
    BY DEF AlertIsRecorded
  <2>. DEFINE n == Cardinality(HandsAt("alert", u))
  <2>1. /\ alerts[u] \in Nat /\ unpaid[u] \in Nat /\ n \in Nat
        /\ alerts[u] + unpaid[u] + n <= 1
        /\ row[u].alerted <=> alerts[u] + unpaid[u] > 0
    BY ConsumersFinite
       DEF Typed, CountsTyped, AlertLimits, AlertsBounded, AlertedIsCounted
  <2>. HIDE DEF n
  <2>. QED  BY <2>1
<1>. QED  BY <1>1, CheckInAlerts, CheckInTyped, PTL

-----------------------------------------------------------------------------
(* Reminders and timeouts come in time                                     *)

(* A user whose settings are not in the cache has left them alone.         *)
Cold(u) == cached[u].at = Never
Changing(u) == update.pc = "cache" /\ u \in update.users

(* The morning, until the first run has published the reminder, and until  *)
(* it has published the timeout.                                           *)
FirstRunAt(pcs) == runs = 1 /\ sched.pc \in pcs
BeforeReminders == runs = 0 \/ FirstRunAt({"filter", "remind"})
BeforeTimeouts ==
    runs = 0 \/ FirstRunAt({"filter", "remind", "markReminder", "timeout"})

(* A new deadline makes the consumer drop the reminder's message, and      *)
(* publishes none.  Every other change of settings rebuilds it.            *)
UpdatesRebuild == "deadline" \notin UpdateKinds

(* Time does not pass before the first run, nor during it, and it finds    *)
(* nobody marked.                                                          *)
MorningFirst ==
    /\ runs = 0 => now = 0 /\ sched.pc = "idle" /\ marks.reminder = {}
    /\ runs = 1 /\ sched.pc # "idle" => now = 0

(* A reminder is due at the reminder time, or at once in the grace time.   *)
MessagesInTime ==
    \A m \in BagToSet(queue) :
        /\ ~m.marked
        /\ m.kind = "reminder" => m.delay = Until(RemindAt) /\ ~TooLate

BatchesInTime ==
    \A c \in Consumers :
        hand[c].pc \in {"validate", "select", "create"} => ~TooLate

(* What is about to be published is of this instant.                       *)
PublishersInTime ==
    /\ UpdatesRebuild /\ update.pc # "idle" => update.affects
    /\ update.pc = "cache" =>
          \A u \in update.users : update.enabled = settings[u].enabled
    /\ update.pc \in {"unmark", "publish"} => update.at = now /\ ~TooLate
    /\ sched.pc = "remind" => sched.at = now /\ ~TooLate

(* The cache tells what the database does, but for the user whose update   *)
(* is on its way there.                                                    *)
CacheTells ==
    \A u \in Users :
        /\ cached[u].at <= now
        /\ Cold(u) \/ Changing(u) \/ cached[u].enabled = settings[u].enabled

NobodyTimedOut ==
    BeforeTimeouts =>
        /\ \A m \in BagToSet(queue) : m.kind = "reminder"
        /\ \A c \in Consumers : hand[c].pc \notin {"read", "alert"}
        /\ \A u \in Users : alerts[u] = 0

(* Where the reminder of a user can be before its task is created, in a    *)
(* form that the consumers will not drop.                                  *)
InMessage(u) ==
    \E m \in BagToSet(queue) :
        m.kind = "reminder" /\ u \in m.users /\ Unchanged(u, m.at)
InBatch(u) ==
    \E c \in Consumers :
        \/ /\ hand[c].pc = "validate" /\ u \in hand[c].users
           /\ Unchanged(u, hand[c].at)
        \/ hand[c].pc = "select" /\ u \in hand[c].valid
        \/ hand[c].pc = "create" /\ u \in hand[c].picked
InUpdate(u) ==
    Changing(u) \/ (update.pc \in {"unmark", "publish"} /\ u \in update.users)
InFirstRun(u) ==
    \/ runs = 0
    \/ FirstRunAt({"filter"}) /\ u \in sched.users
    \/ FirstRunAt({"remind"}) /\ u \in sched.users /\ Unchanged(u, sched.at)

(* Who is owed a reminder will get it.                                     *)
Owed(u) == /\ UpdatesRebuild \/ Cold(u)
           /\ settings[u].enabled /\ cached[u].at < GraceUntil
           /\ created[u] = 0 /\ BelowLimit(u)
OwedIsOnItsWay ==
    \A u \in Users :
        Owed(u) => InMessage(u) \/ InBatch(u) \/ InUpdate(u) \/ InFirstRun(u)

InTime == /\ MorningFirst /\ MessagesInTime /\ BatchesInTime
          /\ PublishersInTime /\ CacheTells /\ NobodyTimedOut
          /\ OwedIsOnItsWay

(* The timeout is due at a deadline of the group, and nobody is alerted or *)
(* overlooked before.                                                      *)
TimeoutsInTime ==
    /\ \A m \in BagToSet(queue) :
          m.kind = "timeout" => \E d \in DueTimes : m.delay = Until(d)
    /\ \A c \in Consumers :
          hand[c].pc \in {"read", "alert"} => \E d \in DueTimes : d <= now
    /\ sched.pc # "idle" => \A u \in Users : sched.due[u] \in DueTimes
    /\ \A u \in Users : row[u].alerted => \E d \in DueTimes : d <= now
    /\ overlooked # {} => \E d \in DueTimes : d <= RemindAt

(* Who has timed out is done or timed out.                                 *)
RowsSane ==
    \A u \in Users : row[u].status \in {"none", "pending"} => ~row[u].alerted

ColdEnabled ==
    \A u \in Users : Cold(u) =>
        /\ settings[u].enabled \/ Changing(u)
        /\ update.pc \in {"unmark", "publish"} => u \notin update.users

(* Nobody is reminded before the first run but by a change of settings.    *)
ColdUntouched ==
    BeforeReminders =>
       \A u \in Users : Cold(u) =>
          /\ created[u] = 0
          /\ \A m \in BagToSet(queue) : m.kind = "reminder" => u \notin m.users
          /\ \A c \in Consumers :
                /\ hand[c].pc = "validate" => u \notin hand[c].users
                /\ hand[c].pc = "select" => u \notin hand[c].valid
                /\ hand[c].pc = "create" => u \notin hand[c].picked

(* After the reminder time the reminders of who left the settings alone    *)
(* have been sent, so no row appears that the timeout has not seen.        *)
ColdSettled ==
    \A u \in Users : Cold(u) /\ now > RemindAt =>
        /\ pending[u] = 0
        /\ \A c \in Consumers : hand[c].pc = "create" => u \notin hand[c].picked
        /\ created[u] = 0 => ~BelowLimit(u)

(* Where the timeout of a user can be before it is committed.              *)
TimeoutDue(u) ==
    \/ \E m \in BagToSet(queue) : m.kind = "timeout" /\ u \in m.users
    \/ \E c \in Consumers : \/ hand[c].pc = "read" /\ u \in hand[c].users
                            \/ hand[c].pc = "alert" /\ u \in hand[c].valid
    \/ Changing(u)
    \/ runs = 0
    \/ BeforeTimeouts /\ u \in sched.users

(* Who can still be reminded, or was and has not checked in, will time out *)
(* no later than at the last deadline, unless a timeout overlooked him.    *)
Open(u) == \/ row[u].status = "none" /\ now <= RemindAt
           \/ row[u].status = "pending"
ColdTimesOut ==
    \A u \in Users : Cold(u) /\ Open(u) /\ u \notin overlooked =>
        TimeoutDue(u) /\ \E d \in DueTimes : now <= d

ColdInTime == /\ TimeoutsInTime /\ RowsSane /\ ColdEnabled /\ ColdUntouched
              /\ ColdSettled /\ ColdTimesOut

(* A step after which nothing has failed is none of those that do.         *)
LEMMA NothingFails ==
    ASSUME Typed, [CheckInNext]_checkInVars, NothingFailed'
    PROVE  NothingFailed /\ \A kind : ~Fault(kind)
<1>1. /\ DOMAIN faults = {"crash", "db", "redis", "publish"}
      /\ DOMAIN faults' = {"crash", "db", "redis", "publish"}
      /\ \A k \in DOMAIN faults :
            /\ faults[k] \in Nat
            /\ faults'[k] = 0 => faults[k] = 0
  BY FaultsGrow DEF Typed, CountsTyped
<1>2. NothingFailed
  BY <1>1 DEF NothingFailed
<1>3. ASSUME NEW kind, Fault(kind) PROVE FALSE
  BY <1>1, <1>2, <1>3, FaultCounted DEF NothingFailed, Typed
<1>. QED  BY <1>2, <1>3

(* What the order of the day is about, typed.                              *)
LEMMA TimesAre ==
    ASSUME Typed
    PROVE  /\ now \in Nat /\ runs \in Nat /\ RemindAt \in Nat
           /\ GraceUntil \in Nat /\ MonthlyReminderLimit \in Nat
           /\ Deadlines \subseteq Nat
           /\ \A u \in Users :
                 /\ cached[u].at \in Nat \cup {Never}
                 /\ cached[u].enabled \in BOOLEAN
                 /\ settings[u].enabled \in BOOLEAN
                 /\ monthly[u] \in Nat /\ created[u] \in Nat
                 /\ pending[u] \in Nat /\ waiting[u] \in Nat
                 /\ waiting[u] <= pending[u] /\ pending[u] <= created[u]
                 /\ alerts[u] \in Nat
           /\ sched.users \subseteq Users /\ update.users \subseteq Users
  BY Constants DEF Typed, DayTyped, PublishersTyped, CountsTyped, Times, Runs,
     Updates

(* A message that is published is the one asked for, and not marked.       *)
LEMMA PostIs ==
    ASSUME QueueTyped, NEW kind, NEW users, NEW at, NEW delay,
           Post(kind, users, at, delay)
    PROVE  \E m : /\ m.kind = kind /\ m.users = users /\ m.at = at
                  /\ m.delay = delay /\ ~m.marked
                  /\ BagToSet(queue)' = BagToSet(queue) \cup {m}
<1>. DEFINE m == Message(kind, users, at, delay, FALSE)
<1>1. BagToSet(queue)' = BagToSet(queue) \cup {m}
  BY WithIsABag DEF QueueTyped, Post
<1>2. /\ m.kind = kind /\ m.users = users /\ m.at = at
      /\ m.delay = delay /\ ~m.marked
  BY DEF Message
<1>. HIDE DEF m
<1>. QED  BY <1>1, <1>2

(* A message that is taken moves from the queue to the consumer.           *)
LEMMA TakeIs ==
    ASSUME Typed, \A kind : ~Fault(kind), NEW c \in Consumers,
           NEW m \in BagToSet(queue), ~m.marked, Take(c, m)
    PROVE  /\ hand[c].pc = "idle" /\ m.kind = Kind(c) /\ m.delay = 0
           /\ hand'[c].pc = IF m.kind = "reminder" THEN "validate" ELSE "read"
           /\ hand'[c].users = m.users /\ hand'[c].at = m.at
           /\ BagToSet(queue)' \subseteq BagToSet(queue)
           /\ BagToSet(queue) \ {m} \subseteq BagToSet(queue)'
<1>1. /\ Hold(c, m, TRUE) /\ queue' = Without(queue, m)
      /\ hand[c].pc = "idle" /\ m.kind = Kind(c) /\ m.delay = 0
  BY DEF Take
<1>2. hand'[c] = [Idle EXCEPT !.pc = IF m.kind = "reminder" THEN "validate"
                                     ELSE "read",
                              !.users = m.users, !.at = m.at, !.marked = TRUE]
  BY <1>1 DEF Hold, Typed, HandTyped
<1>3. /\ hand'[c].pc = IF m.kind = "reminder" THEN "validate" ELSE "read"
      /\ hand'[c].users = m.users /\ hand'[c].at = m.at
  BY <1>2 DEF Idle
<1>. QED  BY <1>1, <1>3, WithoutIsABag DEF Typed, QueueTyped

(* A new setting is in the database, and on its way to the cache.          *)
LEMMA UpdateSettingsIs ==
    ASSUME Typed, NEW u \in Users, UpdateSettings(u)
    PROVE  /\ update.pc = "idle"
           /\ update'.pc = "cache" /\ update'.users = {u}
           /\ UpdatesRebuild => update'.affects
           /\ update'.enabled = settings'[u].enabled
           /\ \A v \in Users \ {u} : settings'[v] = settings[v]
           /\ UpdatesRebuild =>
                 settings'[u].deadline = settings[u].deadline
<1>0. settings \in [Users -> [enabled : BOOLEAN, deadline : Deadlines]]
  BY DEF Typed, DayTyped
<1>1. ASSUME NEW enabled \in BOOLEAN,
             settings' = [settings EXCEPT ![u].enabled = enabled],
             update' = [NoUpdate EXCEPT !.pc = "cache", !.users = {u},
                           !.enabled = enabled, !.affects = TRUE]
      PROVE  /\ update'.pc = "cache" /\ update'.users = {u} /\ update'.affects
             /\ update'.enabled = settings'[u].enabled
             /\ settings'[u].deadline = settings[u].deadline
  BY <1>0, <1>1 DEF NoUpdate
<1>2. ASSUME NEW d \in Deadlines, ~UpdatesRebuild,
             settings' = [settings EXCEPT ![u].deadline = d],
             update' = [NoUpdate EXCEPT !.pc = "cache", !.users = {u},
                           !.enabled = settings[u].enabled]
      PROVE  /\ update'.pc = "cache" /\ update'.users = {u}
             /\ update'.enabled = settings'[u].enabled
  BY <1>0, <1>2 DEF NoUpdate
<1>3. \A v \in Users \ {u} : settings'[v] = settings[v]
  BY <1>0 DEF UpdateSettings
<1>. QED  BY <1>1, <1>2, <1>3 DEF UpdateSettings, UpdatesRebuild

(* Where a run of the scheduler goes on, and with whom.                    *)
LEMMA RunMoves ==
    ASSUME Typed
    PROVE  /\ \A pc : GotoSched(pc) =>
                 /\ sched'.pc = pc /\ sched'.users = sched.users
                 /\ sched'.due = sched.due
           /\ sched' = NoRun => sched'.pc = "idle"
  BY DEF GotoSched, NoRun, Typed, PublishersTyped, Runs

(* A run begins with the enabled users, or ends when all are marked.       *)
LEMMA ScheduleReadIs ==
    ASSUME \A kind : ~Fault(kind), ScheduleRead
    PROVE  /\ sched.pc = "idle" /\ runs' = runs + 1
           /\ \/ /\ sched'.pc = "idle"
                 /\ \A u \in Users : settings[u].enabled => u \in marks.reminder
              \/ /\ sched'.pc = "filter"
                 /\ sched'.users = {u \in Users : settings[u].enabled}
                 /\ sched'.due = [u \in Users |-> settings[u].deadline]
  BY DEF ScheduleRead, NoRun

(* It leaves those out who have a task, and ends when it is too late.      *)
LEMMA ScheduleFilterIs ==
    ASSUME Typed, \A kind : ~Fault(kind), ScheduleFilter
    PROVE  /\ sched.pc = "filter"
           /\ \/ sched'.pc = "idle" /\ (sched.users \subseteq HasTask \/ TooLate)
              \/ /\ sched'.pc = "remind" /\ ~TooLate
                 /\ sched'.users = sched.users \ HasTask /\ sched'.at = now
                 /\ sched'.due = sched.due
<1>1. sched' = IF sched.users \ HasTask = {} \/ TooLate THEN NoRun
               ELSE [sched EXCEPT !.pc = "remind",
                                  !.users = sched.users \ HasTask, !.at = now]
  BY DEF ScheduleFilter
<1>. QED  BY <1>1 DEF ScheduleFilter, NoRun, Typed, PublishersTyped, Runs

(* The cache entry is written, and the reminder's message is rebuilt       *)
(* unless it is too late or the user has switched the check-in off.        *)
LEMMA CacheSettingsIs ==
    ASSUME Typed, \A kind : ~Fault(kind), CacheSettings
    PROVE  /\ update.pc = "cache"
           /\ \A u \in Users :
                 cached'[u] = IF u \in update.users
                              THEN [enabled |-> update.enabled, at |-> now]
                              ELSE cached[u]
           /\ IF Rebuilds
              THEN /\ update'.pc = "unmark" /\ update'.at = now
                   /\ update'.users = update.users
                   /\ update'.affects = update.affects
              ELSE update'.pc = "idle"
<1>1. update' = IF Rebuilds THEN [update EXCEPT !.pc = "unmark", !.at = now]
                ELSE NoUpdate
  BY DEF CacheSettings
<1>2. IF Rebuilds
      THEN /\ update'.pc = "unmark" /\ update'.at = now
           /\ update'.users = update.users
           /\ update'.affects = update.affects
      ELSE update'.pc = "idle"
  BY <1>1 DEF NoUpdate, Typed, PublishersTyped, Updates
<1>. QED  BY <1>2 DEF CacheSettings

(* The marks of the users are removed before the message is published.     *)
LEMMA UnmarkIs ==
    ASSUME Typed, UnmarkCheckinScheduled
    PROVE  /\ update.pc = "unmark" /\ update'.pc = "publish"
           /\ update'.users = update.users /\ update'.at = update.at
           /\ update'.affects = update.affects
           /\ marks'.reminder \subseteq marks.reminder
<1>1. \/ marks' = [marks EXCEPT !.reminder = @ \ update.users,
                                !.timeout = @ \ update.users]
      \/ marks' = marks
  BY DEF UnmarkCheckinScheduled
<1>2. marks'.reminder \subseteq marks.reminder
  BY <1>1 DEF Typed, DayTyped
<1>. QED  BY <1>2 DEF UnmarkCheckinScheduled, Typed, PublishersTyped, Updates

(* The batch is left to those whose settings have not changed.             *)
LEMMA ValidateIs ==
    ASSUME Typed, \A kind : ~Fault(kind), NEW c \in Consumers,
           ValidateReminderBatch(c)
    PROVE  /\ hand[c].pc = "validate"
           /\ hand'[c].pc \in {"select", "finish"}
           /\ hand'[c].valid = {u \in hand[c].users : Unchanged(u, hand[c].at)}
           /\ hand'[c].valid # {} => hand'[c].pc = "select"
<1>. DEFINE valid == {u \in hand[c].users : Unchanged(u, hand[c].at)}
<1>1. /\ hand[c].pc = "validate"
      /\ hand' = [hand EXCEPT ![c].valid = valid,
                     ![c].pc = IF valid = {} THEN "finish" ELSE "select"]
  BY DEF ValidateReminderBatch
<1>. HIDE DEF valid
<1>2. /\ hand'[c].valid = valid
      /\ hand'[c].pc = IF valid = {} THEN "finish" ELSE "select"
  BY <1>1 DEF Typed, HandTyped, Hands
<1>. QED  BY <1>1, <1>2 DEF valid

(* Those who are still due, and below the limit, are picked.               *)
LEMMA SelectIs ==
    ASSUME Typed, \A kind : ~Fault(kind), NEW c \in Consumers, SelectUsers(c)
    PROVE  /\ hand[c].pc = "select" /\ hand'[c].pc = "create"
           /\ hand'[c].picked = {u \in hand[c].valid :
                 settings[u].enabled /\ created[u] = 0 /\ BelowLimit(u)}
<1>. DEFINE below == {u \in Due(c) : BelowLimit(u)}
<1>1. /\ hand[c].pc = "select"
      /\ hand' = [hand EXCEPT ![c].picked = below, ![c].pc = "create"]
  BY DEF SelectUsers
<1>2. below = {u \in hand[c].valid :
                 settings[u].enabled /\ created[u] = 0 /\ BelowLimit(u)}
  BY DEF Due
<1>. HIDE DEF below
<1>3. hand'[c].picked = below /\ hand'[c].pc = "create"
  BY <1>1 DEF Typed, HandTyped, Hands
<1>. QED  BY <1>1, <1>2, <1>3

(* They have a task each, counted in the month.                            *)
LEMMA CreateIs ==
    ASSUME Typed, \A kind : ~Fault(kind), NEW c \in Consumers,
           CreateReminders(c)
    PROVE  /\ hand[c].pc = "create" /\ hand'[c].pc \in {"finish", "publish"}
           /\ \A u \in Users :
                 LET one == IF u \in hand[c].picked THEN 1 ELSE 0
                 IN  /\ created'[u] = created[u] + one
                     /\ pending'[u] = pending[u] + one
                     /\ monthly'[u] = monthly[u] + one
<1>1. /\ hand[c].pc = "create"
      /\ created' = CountFor(created, hand[c].picked)
      /\ pending' = CountFor(pending, hand[c].picked)
      /\ monthly' = CountFor(monthly, hand[c].picked)
      /\ GotoHand(c, IF hand[c].picked = {} THEN "finish" ELSE "publish")
  BY DEF CreateReminders
<1>2. hand'[c].pc \in {"finish", "publish"}
  BY <1>1, PcMoves DEF Typed
<1>3. created \in [Users -> Nat] /\ pending \in [Users -> Nat]
      /\ monthly \in [Users -> Nat]
  BY DEF Typed, CountsTyped
<1>. QED  BY <1>1, <1>2, <1>3, CountForIs

(* The rows without an alert are read.                                     *)
LEMMA ReadIs ==
    ASSUME Typed, NEW c \in Consumers, ReadTimeouts(c)
    PROVE  /\ hand[c].pc = "read" /\ hand'[c].pc = "alert"
           /\ hand'[c].valid = {u \in hand[c].users :
                                   row[u].status # "none" /\ ~row[u].alerted}
<1>. DEFINE listed == {u \in hand[c].users :
                          row[u].status # "none" /\ ~row[u].alerted}
<1>1. PICK paid \in SUBSET listed :
         hand' = [hand EXCEPT ![c].valid = listed, ![c].picked = paid,
                              ![c].pc = "alert"]
  BY DEF ReadTimeouts
<1>2. hand'[c].pc = "alert" /\ hand'[c].valid = listed
  BY <1>1 DEF Typed, HandTyped, Hands
<1>. QED  BY <1>2 DEF ReadTimeouts

(* In the morning nothing has begun.                                       *)
LEMMA InTimeInit == ASSUME CheckInInit PROVE InTime
<1>1. /\ now = 0 /\ runs = 0 /\ sched.pc = "idle" /\ update.pc = "idle"
      /\ marks.reminder = {} /\ BagToSet(queue) = {}
      /\ \A c \in Consumers : hand[c].pc = "idle"
      /\ \A u \in Users : cached[u].at = Never /\ alerts[u] = 0
  BY NoneIsABag DEF CheckInInit, NoRun, NoUpdate, Idle
<1>2. MorningFirst /\ MessagesInTime /\ BatchesInTime /\ PublishersInTime
  BY <1>1 DEF MorningFirst, MessagesInTime, BatchesInTime, PublishersInTime
<1>3. CacheTells /\ NobodyTimedOut /\ OwedIsOnItsWay
  BY <1>1 DEF CacheTells, NobodyTimedOut, OwedIsOnItsWay, InFirstRun, Cold,
     Never
<1>. QED  BY <1>2, <1>3 DEF InTime

(* An instant later, the messages are those that were not due, and         *)
(* everyone is idle.                                                       *)
LEMMA TickIs ==
    ASSUME Typed, Timely, Tick
    PROVE  /\ now' = now + 1 /\ runs > 0
           /\ update.pc = "idle" /\ update'.pc = "idle"
           /\ sched.pc = "idle" /\ sched'.pc = "idle"
           /\ \A c \in Consumers : hand[c].pc = "idle" /\ hand'[c].pc = "idle"
           /\ \A u \in Users : waiting[u] = 0
           /\ \A m \in BagToSet(queue) :
                 /\ Sooner(m) \in BagToSet(queue)'
                 /\ m.delay \in Nat /\ m.delay > 0
                 /\ Sooner(m).delay = m.delay - 1
                 /\ Sooner(m).kind = m.kind /\ Sooner(m).users = m.users
                 /\ Sooner(m).at = m.at /\ Sooner(m).marked = m.marked
           /\ \A n \in BagToSet(queue)' :
                 \E m \in BagToSet(queue) : n = Sooner(m)
<1>1. /\ UpToDate /\ now' = now + 1 /\ UNCHANGED <<hand, update, sched>>
      /\ queue' = Aged(queue)
  BY DEF Tick
<1>2. \A m \in BagToSet(queue) :
         m \in Messages
            /\ ((m.delay = 0 /\ Sooner(m) = m) \/ Later(Sooner(m)) = m)
  BY SoonerTyped DEF Typed, QueueTyped, Messages
<1>3. BagToSet(queue)' = {Sooner(m) : m \in BagToSet(queue)}
  BY <1>1, <1>2, AgedIsABag DEF Typed, QueueTyped
<1>4. \A m \in Messages : m.delay > 0 =>
         /\ Sooner(m).delay = m.delay - 1
         /\ Sooner(m).kind = m.kind /\ Sooner(m).users = m.users
         /\ Sooner(m).at = m.at /\ Sooner(m).marked = m.marked
  BY DEF Messages, Sooner
<1>5. \A m \in BagToSet(queue) : m.delay \in Nat /\ m.delay > 0
  BY <1>1, <1>2 DEF UpToDate, Messages
<1>. QED  BY <1>1, <1>2, <1>3, <1>4, <1>5 DEF UpToDate

(* Time waits for the reminders that are due.                              *)
LEMMA InTimeTick ==
    ASSUME Typed, Timely, InTime, Tick PROVE InTime'
<1>. USE TickIs, TimesAre DEF InTime
<1>1. UNCHANGED <<settings, cached, marks, monthly, created, alerts, hand,
                  update, sched, runs>>
  BY DEF Tick, redisVars, taskVars, alertVars, countVars
<1>2. MorningFirst'
  BY <1>1 DEF MorningFirst
<1>3. MessagesInTime'
  <2>. SUFFICES ASSUME NEW m \in BagToSet(queue)
                PROVE  /\ ~m.marked
                       /\ m.kind = "reminder" =>
                             m.delay - 1 = Until(RemindAt)' /\ ~TooLate'
    BY DEF MessagesInTime
  <2>1. m.kind = "reminder" => m.delay = Until(RemindAt)
    BY DEF MessagesInTime
  <2>2. m.kind = "reminder" => RemindAt > now /\ m.delay = RemindAt - now
    BY <2>1 DEF Until
  <2>3. m.kind = "reminder" => m.delay - 1 = Until(RemindAt)'
    BY <2>2 DEF Until
  <2>4. m.kind = "reminder" => ~TooLate'
    BY <2>2 DEF TooLate
  <2>. QED  BY <2>3, <2>4 DEF MessagesInTime
<1>4. BatchesInTime'
  BY DEF BatchesInTime
<1>5. PublishersInTime'
  BY <1>1 DEF PublishersInTime
<1>6. CacheTells'
  <2>. SUFFICES ASSUME NEW u \in Users
                PROVE  /\ cached[u].at <= now + 1
                       /\ cached[u].at = Never
                            \/ cached[u].enabled = settings[u].enabled
    BY <1>1 DEF CacheTells, Cold, Changing
  <2>. QED  BY DEF CacheTells, Cold, Changing, Never
<1>7. NobodyTimedOut'
  <2>1. BeforeTimeouts' => BeforeTimeouts
    BY <1>1 DEF BeforeTimeouts, FirstRunAt
  <2>. QED  BY <1>1, <2>1 DEF NobodyTimedOut
<1>8. OwedIsOnItsWay'
  <2>. SUFFICES ASSUME NEW u \in Users, Owed(u)
                PROVE  InMessage(u)'
    BY <1>1 DEF OwedIsOnItsWay, Owed, Cold, UpdatesRebuild, BelowLimit
  <2>1. ~InBatch(u) /\ ~InUpdate(u) /\ ~InFirstRun(u)
    BY DEF InBatch, InUpdate, InFirstRun, Changing, FirstRunAt
  <2>2. InMessage(u)
    BY <2>1 DEF OwedIsOnItsWay
  <2>. QED  BY <1>1, <2>2 DEF InMessage, Unchanged
<1>. QED  BY <1>2, <1>3, <1>4, <1>5, <1>6, <1>7, <1>8

(* The first run finds everyone who is owed a reminder, and publishes it   *)
(* before time passes.                                                     *)
LEMMA InTimeSchedule ==
    ASSUME Typed, \A kind : ~Fault(kind), InTime, Schedule PROVE InTime'
<1>. USE TimesAre DEF InTime
<1>0. UNCHANGED <<now, settings, cached, monthly, created, alerts, hand, update>>
  BY DEF Schedule, ScheduleRead, ScheduleFilter, ScheduleReminder,
     MarkReminderScheduled, ScheduleTimeout, MarkTimeoutScheduled,
     SchedulerStops, redisVars, taskVars, alertVars
<1>1. BatchesInTime' /\ CacheTells'
  BY <1>0 DEF BatchesInTime, TooLate, CacheTells, Cold, Changing
<1>2. /\ \A u \in Users : Owed(u)' = Owed(u)
      /\ \A u \in Users : InBatch(u)' = InBatch(u)
      /\ \A u \in Users : InUpdate(u)' = InUpdate(u)
      /\ \A u, at : Unchanged(u, at)' = Unchanged(u, at)
  BY <1>0 DEF Owed, Cold, UpdatesRebuild, BelowLimit, InBatch, InUpdate, Changing, Unchanged
<1>3. ASSUME UNCHANGED queue
      PROVE  MessagesInTime' /\ \A u \in Users : InMessage(u)' = InMessage(u)
  BY <1>0, <1>3 DEF MessagesInTime, Until, TooLate, InMessage, Unchanged
<1>4. CASE ScheduleRead
  <2>1. UNCHANGED <<queue, marks>>
    BY <1>4 DEF ScheduleRead, redisVars
  <2>2. MorningFirst'
    BY <1>0, <1>4, ScheduleReadIs DEF MorningFirst
  <2>3. PublishersInTime'
    BY <1>0, <1>4, ScheduleReadIs DEF PublishersInTime, TooLate
  <2>4. NobodyTimedOut'
    <3>1. BeforeTimeouts' => runs = 0
      BY <1>4, ScheduleReadIs DEF BeforeTimeouts, FirstRunAt
    <3>. QED  BY <1>0, <2>1, <3>1 DEF NobodyTimedOut, BeforeTimeouts
  <2>5. OwedIsOnItsWay'
    <3>. SUFFICES ASSUME NEW u \in Users, Owed(u), runs = 0
                  PROVE  InFirstRun(u)'
      BY <1>2, <1>3, <2>1, <1>4, ScheduleReadIs
         DEF OwedIsOnItsWay, InFirstRun, FirstRunAt
    <3>. QED  BY <1>0, <1>4, ScheduleReadIs
              DEF Owed, InFirstRun, FirstRunAt, MorningFirst
  <2>. QED  BY <1>1, <1>3, <2>1, <2>2, <2>3, <2>4, <2>5
<1>5. CASE ScheduleFilter
  <2>1. UNCHANGED <<queue, marks, runs>> /\ sched.pc = "filter"
    BY <1>5 DEF ScheduleFilter, redisVars, countVars
  <2>2. MorningFirst'
    BY <1>0, <2>1 DEF MorningFirst
  <2>3. PublishersInTime'
    BY <1>0, <1>5, ScheduleFilterIs DEF PublishersInTime, TooLate
  <2>4. NobodyTimedOut'
    BY <1>0, <2>1 DEF NobodyTimedOut, BeforeTimeouts, FirstRunAt
  <2>5. OwedIsOnItsWay'
    <3>. SUFFICES ASSUME NEW u \in Users, Owed(u), InFirstRun(u)
                  PROVE  InFirstRun(u)' \/ InUpdate(u)
      BY <1>2, <1>3, <2>1 DEF OwedIsOnItsWay
    <3>1. runs = 1 /\ u \in sched.users /\ now = 0
      BY <2>1 DEF InFirstRun, FirstRunAt, MorningFirst
    <3>2. u \notin HasTask
      BY <2>1, <3>1 DEF HasTask, NobodyTimedOut, BeforeTimeouts, FirstRunAt, Owed
    <3>3. ~TooLate
      BY <3>1 DEF TooLate
    <3>4. sched'.pc = "remind" /\ u \in sched'.users /\ sched'.at = now
      BY <1>5, <3>1, <3>2, <3>3, ScheduleFilterIs
    <3>5. Unchanged(u, now) \/ Changing(u)
      BY DEF Unchanged, CacheTells, Cold, Owed
    <3>. QED  BY <1>2, <2>1, <3>1, <3>4, <3>5
              DEF InFirstRun, FirstRunAt, InUpdate
  <2>. QED  BY <1>1, <1>3, <2>1, <2>2, <2>3, <2>4, <2>5
<1>6. CASE ScheduleReminder
  <2>1. /\ Post("reminder", sched.users, sched.at, Until(RemindAt))
        /\ GotoSched("markReminder")
        /\ UNCHANGED <<marks, runs>> /\ sched.pc = "remind"
    BY <1>6 DEF ScheduleReminder, redisVars, countVars
  <2>2. PICK m : /\ m.kind = "reminder" /\ m.users = sched.users
                 /\ m.at = sched.at /\ m.delay = Until(RemindAt) /\ ~m.marked
                 /\ BagToSet(queue)' = BagToSet(queue) \cup {m}
    BY <2>1, PostIs DEF Typed
  <2>3. sched'.pc = "markReminder"
    BY <2>1, RunMoves
  <2>4. MorningFirst'
    BY <1>0, <2>1 DEF MorningFirst
  <2>5. MessagesInTime'
    BY <1>0, <2>1, <2>2 DEF MessagesInTime, PublishersInTime, Until, TooLate
  <2>6. PublishersInTime'
    BY <1>0, <2>3 DEF PublishersInTime, TooLate
  <2>7. NobodyTimedOut'
    BY <1>0, <2>1, <2>2 DEF NobodyTimedOut, BeforeTimeouts, FirstRunAt
  <2>8. OwedIsOnItsWay'
    <3>. SUFFICES ASSUME NEW u \in Users, Owed(u)
                  PROVE  InMessage(u)' \/ InBatch(u) \/ InUpdate(u)
                            \/ InFirstRun(u)'
      BY <1>2 DEF OwedIsOnItsWay
    <3>1. CASE InMessage(u)
      BY <1>2, <2>2, <3>1 DEF InMessage
    <3>2. CASE InFirstRun(u)
      <4>1. runs = 0 \/ (u \in sched.users /\ Unchanged(u, sched.at))
        BY <2>1, <3>2 DEF InFirstRun, FirstRunAt
      <4>. QED  BY <1>2, <2>1, <2>2, <4>1 DEF InMessage, InFirstRun
    <3>. QED  BY <3>1, <3>2 DEF OwedIsOnItsWay
  <2>. QED  BY <1>1, <2>4, <2>5, <2>6, <2>7, <2>8
<1>7. CASE ScheduleTimeout
  <2>1. /\ \E first \in sched.users :
              Post("timeout", sched.users, sched.at, Until(sched.due[first]))
        /\ GotoSched("markTimeout")
        /\ UNCHANGED <<marks, runs>> /\ sched.pc = "timeout"
    BY <1>7 DEF ScheduleTimeout, redisVars, countVars
  <2>2. PICK m : /\ m.kind = "timeout" /\ ~m.marked
                 /\ BagToSet(queue)' = BagToSet(queue) \cup {m}
    BY <2>1, PostIs DEF Typed
  <2>3. sched'.pc = "markTimeout"
    BY <2>1, RunMoves
  <2>4. MorningFirst'
    BY <1>0, <2>1 DEF MorningFirst
  <2>5. MessagesInTime'
    BY <1>0, <2>2 DEF MessagesInTime, Until, TooLate
  <2>6. PublishersInTime'
    BY <1>0, <2>3 DEF PublishersInTime, TooLate
  <2>7. NobodyTimedOut'
    BY <2>1, <2>3 DEF NobodyTimedOut, BeforeTimeouts, FirstRunAt, MorningFirst
  <2>8. OwedIsOnItsWay'
    BY <1>2, <2>1, <2>2 DEF OwedIsOnItsWay, InMessage, InFirstRun, FirstRunAt
  <2>. QED  BY <1>1, <2>4, <2>5, <2>6, <2>7, <2>8
<1>8. CASE MarkReminderScheduled \/ MarkTimeoutScheduled
  <2>1. /\ UNCHANGED <<queue, runs>>
        /\ \/ sched.pc = "markReminder" /\ GotoSched("timeout")
           \/ sched.pc = "markTimeout" /\ sched' = NoRun
    BY <1>8 DEF MarkReminderScheduled, MarkTimeoutScheduled, countVars
  <2>2. \/ sched.pc = "markReminder" /\ sched'.pc = "timeout"
        \/ sched.pc = "markTimeout" /\ sched'.pc = "idle"
    BY <2>1, RunMoves
  <2>3. MorningFirst'
    BY <1>0, <2>1, <2>2 DEF MorningFirst
  <2>4. PublishersInTime'
    BY <1>0, <2>2 DEF PublishersInTime, TooLate
  <2>5. NobodyTimedOut'
    BY <1>0, <2>1, <2>2 DEF NobodyTimedOut, BeforeTimeouts, FirstRunAt
  <2>6. OwedIsOnItsWay'
    BY <1>2, <1>3, <2>1, <2>2 DEF OwedIsOnItsWay, InFirstRun, FirstRunAt
  <2>. QED  BY <1>1, <1>3, <2>1, <2>3, <2>4, <2>5, <2>6
<1>. QED  BY <1>4, <1>5, <1>6, <1>7, <1>8 DEF Schedule, SchedulerStops

(* A user who changes a setting is owed what the update will publish.      *)
LEMMA InTimeUsers ==
    ASSUME Typed, InTime, NEW w \in Users,
           Serve(w) \/ SettleReminder(w)
    PROVE  InTime'
<1>. USE TimesAre DEF InTime
<1>0. UNCHANGED <<now, cached, marks, monthly, created, alerts, hand, queue,
                  sched, runs>>
  BY DEF Serve, CompleteCheckIn, UpdateSettings, SettleReminder, redisVars,
     taskVars, alertVars, countVars
<1>1. /\ MorningFirst' /\ MessagesInTime' /\ BatchesInTime' /\ NobodyTimedOut'
      /\ \A u \in Users : InMessage(u)' = InMessage(u)
      /\ \A u \in Users : InBatch(u)' = InBatch(u)
      /\ \A u \in Users : InFirstRun(u)' = InFirstRun(u)
  BY <1>0 DEF MorningFirst, MessagesInTime, BatchesInTime, NobodyTimedOut,
     InMessage, InBatch, InFirstRun, BeforeTimeouts, FirstRunAt, Unchanged,
     Until, TooLate
<1>2. CASE UNCHANGED <<settings, update>>
  <2>1. PublishersInTime' /\ CacheTells'
    BY <1>0, <1>2 DEF PublishersInTime, TooLate, CacheTells, Cold, Changing
  <2>2. OwedIsOnItsWay'
    BY <1>0, <1>1, <1>2 DEF OwedIsOnItsWay, Owed, Cold, UpdatesRebuild, BelowLimit, InUpdate, Changing
  <2>. QED  BY <1>1, <2>1, <2>2
<1>3. CASE UpdateSettings(w)
  <2>1. /\ update.pc = "idle" /\ update'.pc = "cache"
        /\ update'.users = {w} /\ (UpdatesRebuild => update'.affects)
        /\ update'.enabled = settings'[w].enabled
        /\ \A u \in Users \ {w} : settings'[u] = settings[u]
    BY <1>3, UpdateSettingsIs
  <2>2. PublishersInTime'
    BY <1>0, <2>1 DEF PublishersInTime, TooLate
  <2>3. CacheTells'
    BY <1>0, <2>1 DEF CacheTells, Cold, Changing
  <2>4. OwedIsOnItsWay'
    <3>. SUFFICES ASSUME NEW u \in Users, Owed(u)', u # w
                  PROVE  InMessage(u) \/ InBatch(u) \/ InFirstRun(u)
      BY <1>1, <2>1 DEF OwedIsOnItsWay, InUpdate, Changing
    <3>. QED  BY <1>0, <2>1 DEF OwedIsOnItsWay, Owed, Cold, UpdatesRebuild, BelowLimit, InUpdate,
              Changing
  <2>. QED  BY <1>1, <2>2, <2>3, <2>4
<1>. QED  BY <1>2, <1>3 DEF Serve, CompleteCheckIn, SettleReminder

(* An update that ends without a message of its own is that of a user who  *)
(* is not owed one.                                                        *)
LEMMA InTimeUpdate ==
    ASSUME Typed, \A kind : ~Fault(kind), InTime, Update PROVE InTime'
<1>. USE TimesAre DEF InTime
<1>0. UNCHANGED <<now, settings, monthly, created, alerts, hand, sched, runs>>
  BY DEF Update, CacheSettings, UnmarkCheckinScheduled, UpdatePublish,
     RequestLost, redisVars, taskVars, alertVars, countVars
<1>1. BatchesInTime'
  BY <1>0 DEF BatchesInTime, TooLate
<1>2. ASSUME UNCHANGED queue PROVE MessagesInTime' /\ NobodyTimedOut'
  BY <1>0, <1>2 DEF MessagesInTime, Until, TooLate, NobodyTimedOut,
     BeforeTimeouts, FirstRunAt
<1>3. ASSUME UNCHANGED cached
      PROVE  /\ \A u \in Users : Owed(u)' = Owed(u)
             /\ \A u \in Users : InBatch(u)' = InBatch(u)
             /\ \A u \in Users : InFirstRun(u)' = InFirstRun(u)
             /\ \A u, at : Unchanged(u, at)' = Unchanged(u, at)
  BY <1>0, <1>3 DEF Owed, Cold, UpdatesRebuild, BelowLimit, InBatch, InFirstRun, FirstRunAt, Unchanged
<1>4. CASE CacheSettings
  <2>1. UNCHANGED <<marks, queue>>
    BY <1>4 DEF CacheSettings
  <2>2. /\ update.pc = "cache" /\ (UpdatesRebuild => update.affects)
        /\ \A u \in update.users : update.enabled = settings[u].enabled
    BY <1>4 DEF CacheSettings, PublishersInTime
  <2>3. /\ \A u \in Users :
              cached'[u] = IF u \in update.users
                           THEN [enabled |-> update.enabled, at |-> now]
                           ELSE cached[u]
        /\ IF Rebuilds
           THEN /\ update'.pc = "unmark" /\ update'.at = now
                /\ update'.users = update.users
                /\ update'.affects = update.affects
           ELSE update'.pc = "idle"
    BY <1>4, CacheSettingsIs
  <2>4. MorningFirst'
    BY <1>0, <2>1 DEF MorningFirst
  <2>5. PublishersInTime'
    BY <1>0, <2>2, <2>3 DEF PublishersInTime, TooLate, Rebuilds
  <2>6. CacheTells'
    <3>. SUFFICES ASSUME NEW u \in Users
                  PROVE  /\ cached'[u].at <= now
                         /\ Cold(u)' \/ cached'[u].enabled = settings[u].enabled
      BY <1>0 DEF CacheTells
    <3>1. CASE u \in update.users
      BY <2>2, <2>3, <3>1
    <3>2. CASE u \notin update.users
      BY <2>3, <3>2 DEF CacheTells, Cold, Changing
    <3>. QED  BY <3>1, <3>2
  <2>7. OwedIsOnItsWay'
    <3>. SUFFICES ASSUME NEW u \in Users, Owed(u)'
                  PROVE  InMessage(u)' \/ InBatch(u)' \/ InUpdate(u)'
                            \/ InFirstRun(u)'
      BY DEF OwedIsOnItsWay
    <3>1. CASE u \in update.users
      <4>1. update.enabled /\ now < GraceUntil
        BY <1>0, <2>2, <2>3, <3>1 DEF Owed
      <4>2. UpdatesRebuild
        BY <2>3, <3>1 DEF Owed, Cold, Never, UpdatesRebuild
      <4>3. Rebuilds
        BY <2>2, <4>1, <4>2 DEF Rebuilds, TooLate
      <4>. QED  BY <2>3, <3>1, <4>3 DEF InUpdate
    <3>2. CASE u \notin update.users
      <4>1. UNCHANGED cached[u]
        BY <2>3, <3>2
      <4>2. Owed(u) /\ ~InUpdate(u)
        BY <1>0, <2>2, <3>2, <4>1 DEF Owed, Cold, UpdatesRebuild, BelowLimit, InUpdate, Changing
      <4>3. \A at : Unchanged(u, at)' = Unchanged(u, at)
        BY <4>1 DEF Unchanged
      <4>. QED  BY <1>0, <2>1, <4>2, <4>3
                DEF OwedIsOnItsWay, InMessage, InBatch, InFirstRun, FirstRunAt
    <3>. QED  BY <3>1, <3>2
  <2>. QED  BY <1>1, <1>2, <2>1, <2>4, <2>5, <2>6, <2>7
<1>5. CASE UnmarkCheckinScheduled
  <2>1. UNCHANGED <<cached, queue>>
    BY <1>5 DEF UnmarkCheckinScheduled
  <2>2. /\ update.pc = "unmark" /\ update'.pc = "publish"
        /\ update'.users = update.users /\ update'.at = update.at
        /\ update'.affects = update.affects
        /\ marks'.reminder \subseteq marks.reminder
    BY <1>5, UnmarkIs
  <2>3. MorningFirst'
    BY <1>0, <2>2 DEF MorningFirst
  <2>4. PublishersInTime'
    BY <1>0, <2>2 DEF PublishersInTime, TooLate
  <2>5. CacheTells'
    BY <1>0, <2>1, <2>2 DEF CacheTells, Cold, Changing
  <2>6. OwedIsOnItsWay'
    BY <1>3, <2>1, <2>2 DEF OwedIsOnItsWay, InMessage, InUpdate, Changing
  <2>. QED  BY <1>1, <1>2, <2>1, <2>3, <2>4, <2>5, <2>6
<1>6. CASE UpdatePublish
  <2>1. /\ update.pc = "publish" /\ update' = NoUpdate
        /\ UNCHANGED <<cached, marks>>
        /\ Post("reminder", update.users, update.at, Until(RemindAt))
    BY <1>6 DEF UpdatePublish, redisVars
  <2>2. PICK m : /\ m.kind = "reminder" /\ m.users = update.users
                 /\ m.at = update.at /\ m.delay = Until(RemindAt) /\ ~m.marked
                 /\ BagToSet(queue)' = BagToSet(queue) \cup {m}
    BY <2>1, PostIs DEF Typed
  <2>3. update'.pc = "idle" /\ update.at = now /\ ~TooLate
    BY <2>1 DEF NoUpdate, PublishersInTime
  <2>4. MorningFirst'
    BY <1>0, <2>1 DEF MorningFirst
  <2>5. MessagesInTime'
    BY <1>0, <2>2, <2>3 DEF MessagesInTime, Until, TooLate
  <2>6. PublishersInTime'
    BY <1>0, <2>3 DEF PublishersInTime, TooLate
  <2>7. CacheTells'
    BY <1>0, <2>1, <2>3 DEF CacheTells, Cold, Changing
  <2>8. NobodyTimedOut'
    BY <1>0, <2>2 DEF NobodyTimedOut, BeforeTimeouts, FirstRunAt
  <2>9. OwedIsOnItsWay'
    <3>. SUFFICES ASSUME NEW u \in Users, Owed(u)
                  PROVE  InMessage(u)' \/ InBatch(u) \/ InFirstRun(u)
      BY <1>3, <2>1 DEF OwedIsOnItsWay
    <3>1. CASE InMessage(u)
      BY <1>3, <2>1, <2>2, <3>1 DEF InMessage
    <3>2. CASE InUpdate(u)
      <4>1. u \in m.users
        BY <2>1, <2>2, <3>2 DEF InUpdate, Changing
      <4>2. Unchanged(u, m.at)
        BY <2>1, <2>2, <2>3 DEF CacheTells, Cold, Changing, Unchanged, Owed
      <4>. QED  BY <1>3, <2>1, <2>2, <4>1, <4>2 DEF InMessage
    <3>. QED  BY <3>1, <3>2 DEF OwedIsOnItsWay
  <2>. QED  BY <1>1, <2>4, <2>5, <2>6, <2>7, <2>8, <2>9
<1>. QED  BY <1>4, <1>5, <1>6 DEF Update, RequestLost

(* A consumer leaves time and the settings alone, and publishes nothing    *)
(* for the consumers when nothing fails.                                   *)
LEMMA ConsumeIs ==
    ASSUME Typed, \A kind : ~Fault(kind), MessagesInTime,
           NEW c \in Consumers, Consume(c)
    PROVE  /\ UNCHANGED <<now, settings, cached, marks, update, sched, runs>>
           /\ BagToSet(queue)' \subseteq BagToSet(queue)
<1>1. ASSUME NEW m \in BagToSet(queue), Take(c, m)
      PROVE  ~m.marked /\ BagToSet(queue)' \subseteq BagToSet(queue)
  BY <1>1, TakeIs DEF MessagesInTime
<1>. QED  BY <1>1 DEF Consume, Take, ValidateReminderBatch, SelectUsers,
          CreateReminders, RollBackReminders, PublishReminders, ReadTimeouts,
          CommitTimeouts, PublishAlerts, Finish, Retry, Crash, redisVars,
          taskVars, alertVars, countVars

(* Where each step of a consumer goes.                                     *)
LEMMA WorkMoves ==
    ASSUME Typed, \A kind : ~Fault(kind), MessagesInTime,
           NEW c \in Consumers, Consume(c)
    PROVE  \/ \E m \in BagToSet(queue) : ~m.marked /\ Take(c, m)
           \/ ValidateReminderBatch(c) \/ SelectUsers(c) \/ CreateReminders(c)
           \/ ReadTimeouts(c) \/ CommitTimeouts(c)
           \/ /\ hand[c].pc \in {"publish", "notify", "finish"}
              /\ hand'[c].pc \in {"finish", "idle"}
              /\ UNCHANGED <<created, pending, monthly, alerts, row, queue>>
<1>1. ASSUME PublishReminders(c) \/ PublishAlerts(c) \/ Finish(c)
      PROVE  /\ hand[c].pc \in {"publish", "notify", "finish"}
             /\ hand'[c].pc \in {"finish", "idle"}
             /\ UNCHANGED <<created, pending, monthly, alerts, row, queue>>
  <2>1. /\ hand[c].pc \in {"publish", "notify", "finish"}
        /\ Finish(c) \/ GotoHand(c, "finish")
        /\ UNCHANGED <<created, pending, monthly, alerts, row, queue>>
    BY <1>1 DEF PublishReminders, PublishAlerts, Finish, redisVars, taskVars,
       alertVars
  <2>. QED  BY <2>1, PcMoves DEF Typed
<1>2. ~RollBackReminders(c) /\ ~Retry(c) /\ ~Crash(c)
  BY DEF RollBackReminders, Retry, Crash
<1>. QED  BY <1>1, <1>2 DEF Consume, MessagesInTime, Take

(* Which step changes which counts and rows.                               *)
LEMMA WorkLeaves ==
    ASSUME NEW c
    PROVE  /\ \A m : Take(c, m) =>
                 UNCHANGED <<created, pending, monthly, alerts, row>>
           /\ ValidateReminderBatch(c) \/ SelectUsers(c) \/ ReadTimeouts(c) =>
                 UNCHANGED <<created, pending, monthly, alerts, row, queue>>
           /\ CreateReminders(c) => UNCHANGED <<alerts, row, queue>>
           /\ CommitTimeouts(c) =>
                 UNCHANGED <<created, pending, monthly, queue>>
  BY DEF Take, ValidateReminderBatch, SelectUsers, ReadTimeouts,
     CreateReminders, CommitTimeouts, redisVars, taskVars, alertVars

(* Where each step of a consumer starts and ends.                          *)
LEMMA WorkGoes ==
    ASSUME Typed, \A kind : ~Fault(kind), NEW c \in Consumers
    PROVE  /\ ValidateReminderBatch(c) =>
                 hand[c].pc = "validate" /\ hand'[c].pc \in {"select", "finish"}
           /\ SelectUsers(c) => hand[c].pc = "select" /\ hand'[c].pc = "create"
           /\ CreateReminders(c) =>
                 hand[c].pc = "create" /\ hand'[c].pc \in {"finish", "publish"}
           /\ ReadTimeouts(c) => hand[c].pc = "read" /\ hand'[c].pc = "alert"
           /\ CommitTimeouts(c) =>
                 hand[c].pc = "alert" /\ hand'[c].pc \in {"finish", "notify"}
<1>1. CommitTimeouts(c) =>
         hand[c].pc = "alert" /\ hand'[c].pc \in {"finish", "notify"}
  BY PcMoves DEF CommitTimeouts, Typed
<1>. QED  BY <1>1, ValidateIs, SelectIs, CreateIs, ReadIs

(* A user who is owed a reminder stays with the batch until its tasks are  *)
(* created.                                                                *)
LEMMA InTimeConsumer ==
    ASSUME Typed, \A kind : ~Fault(kind), InTime, NEW c \in Consumers,
           Consume(c)
    PROVE  InTime'
<1>. USE TimesAre DEF InTime
<1>0. /\ UNCHANGED <<now, settings, cached, marks, update, sched, runs>>
      /\ BagToSet(queue)' \subseteq BagToSet(queue)
  BY ConsumeIs
<1>1. \A d \in Consumers \ {c} : hand'[d] = hand[d]
  BY OneHandMoves DEF Typed
<1>2. MorningFirst' /\ MessagesInTime' /\ PublishersInTime' /\ CacheTells'
  BY <1>0 DEF MorningFirst, MessagesInTime, PublishersInTime, CacheTells,
     Until, TooLate, Cold, Changing
<1>3. ASSUME NEW m \in BagToSet(queue), ~m.marked, Take(c, m)
      PROVE  /\ hand[c].pc = "idle"
             /\ hand'[c].pc = IF m.kind = "reminder" THEN "validate" ELSE "read"
             /\ hand'[c].users = m.users /\ hand'[c].at = m.at
             /\ BagToSet(queue) \ {m} \subseteq BagToSet(queue)'
  BY <1>3, TakeIs
<1>4. BatchesInTime'
  <2>1. hand'[c].pc \in {"validate", "select", "create"} => ~TooLate
    <3>1. ASSUME NEW m \in BagToSet(queue), ~m.marked, Take(c, m),
                 hand'[c].pc \in {"validate", "select", "create"}
          PROVE  ~TooLate
      BY <1>3, <3>1 DEF MessagesInTime
    <3>. QED  BY <3>1, WorkMoves, WorkGoes DEF BatchesInTime
  <2>. QED  BY <1>0, <1>1, <2>1 DEF BatchesInTime, TooLate
<1>5. NobodyTimedOut'
  <2>. SUFFICES ASSUME BeforeTimeouts
                PROVE  /\ hand'[c].pc \notin {"read", "alert"}
                       /\ UNCHANGED alerts
    BY <1>0, <1>1 DEF NobodyTimedOut, BeforeTimeouts, FirstRunAt
  <2>1. /\ \A m \in BagToSet(queue) : m.kind = "reminder"
        /\ hand[c].pc \notin {"read", "alert"}
    BY DEF NobodyTimedOut
  <2>2. ASSUME NEW m \in BagToSet(queue), ~m.marked, Take(c, m)
        PROVE  hand'[c].pc = "validate" /\ UNCHANGED alerts
    BY <1>3, <2>1, <2>2, WorkLeaves
  <2>. QED  BY <2>1, <2>2, WorkMoves, WorkLeaves, WorkGoes
<1>6. OwedIsOnItsWay'
  <2>. SUFFICES ASSUME NEW u \in Users, Owed(u)'
                PROVE  InMessage(u)' \/ InBatch(u)' \/ InUpdate(u)'
                          \/ InFirstRun(u)'
    BY DEF OwedIsOnItsWay
  <2>1. /\ \A at : Unchanged(u, at)' = Unchanged(u, at)
        /\ InUpdate(u)' = InUpdate(u) /\ InFirstRun(u)' = InFirstRun(u)
    BY <1>0 DEF Unchanged, InUpdate, InFirstRun, Changing, FirstRunAt
  <2>2. CreateReminders(c) => u \notin hand[c].picked
    BY CreateIs DEF Owed
  <2>3. Owed(u)
    <3>1. UNCHANGED <<created, monthly>> => Owed(u)
      BY <1>0 DEF Owed, Cold, UpdatesRebuild, BelowLimit
    <3>2. CreateReminders(c) => Owed(u)
      BY <1>0, <2>2, CreateIs DEF Owed, Cold, UpdatesRebuild, BelowLimit
    <3>. QED  BY <3>1, <3>2, WorkMoves, WorkLeaves
  <2>4. CASE InMessage(u)
    <3>1. PICK m \in BagToSet(queue) : m.kind = "reminder" /\ u \in m.users
                                       /\ Unchanged(u, m.at)
      BY <2>4 DEF InMessage
    <3>2. CASE m \in BagToSet(queue)'
      BY <2>1, <3>1, <3>2 DEF InMessage
    <3>3. CASE m \notin BagToSet(queue)'
      <4>1. ~m.marked /\ Take(c, m)
        BY <1>3, <3>3, WorkMoves, WorkLeaves
      <4>2. /\ hand'[c].pc = "validate" /\ u \in hand'[c].users
            /\ Unchanged(u, hand'[c].at)
        BY <1>3, <3>1, <4>1
      <4>. QED  BY <2>1, <4>2 DEF InBatch
    <3>. QED  BY <3>2, <3>3
  <2>5. CASE InBatch(u)
    <3>1. PICK d \in Consumers :
             \/ /\ hand[d].pc = "validate" /\ u \in hand[d].users
                /\ Unchanged(u, hand[d].at)
             \/ hand[d].pc = "select" /\ u \in hand[d].valid
             \/ hand[d].pc = "create" /\ u \in hand[d].picked
      BY <2>5 DEF InBatch
    <3>2. CASE d # c
      BY <1>1, <2>1, <3>1, <3>2 DEF InBatch
    <3>3. CASE d = c
      <4>1. CASE ValidateReminderBatch(c)
        <5>1. u \in hand'[c].valid /\ hand'[c].pc = "select"
          BY <3>1, <3>3, <4>1, ValidateIs
        <5>. QED  BY <5>1 DEF InBatch
      <4>2. CASE SelectUsers(c)
        <5>1. u \in hand'[c].picked /\ hand'[c].pc = "create"
          BY <2>3, <3>1, <3>3, <4>2, SelectIs DEF Owed
        <5>. QED  BY <5>1 DEF InBatch
      <4>3. ~CreateReminders(c)
        BY <2>2, <3>1, <3>3, WorkGoes
      <4>. QED  BY <1>3, <3>1, <3>3, <4>1, <4>2, <4>3, WorkMoves, WorkGoes
    <3>. QED  BY <3>2, <3>3
  <2>. QED  BY <2>1, <2>3, <2>4, <2>5 DEF OwedIsOnItsWay
<1>. QED  BY <1>2, <1>4, <1>5, <1>6

InTimeKept == Timely /\ NothingFailed => InTime

(* Time waits for the scheduler, the consumers and the requests.           *)
THEOREM CheckInInTime == CheckInSpec => []InTimeKept
<1>1. CheckInInit => InTimeKept
  BY InTimeInit DEF InTimeKept
<1>2. Typed /\ InTimeKept /\ [CheckInNext]_checkInVars => InTimeKept'
  <2>. SUFFICES ASSUME Typed, InTimeKept, [CheckInNext]_checkInVars,
                       Timely, NothingFailed'
                PROVE  InTime'
    BY DEF InTimeKept
  <2>1. InTime /\ \A kind : ~Fault(kind)
    BY NothingFails DEF InTimeKept
  <2>2. CASE UNCHANGED checkInVars
    BY <2>1, <2>2 DEF checkInVars, redisVars, taskVars, alertVars, countVars,
       InTime, MorningFirst, MessagesInTime, BatchesInTime, PublishersInTime,
       CacheTells, NobodyTimedOut, OwedIsOnItsWay, Owed, BelowLimit, InMessage,
       InBatch, InUpdate, InFirstRun, Changing, FirstRunAt, BeforeTimeouts,
       Unchanged, Cold, Until, TooLate
  <2>3. CASE Tick
    BY <2>1, <2>3, InTimeTick
  <2>4. CASE Schedule
    BY <2>1, <2>4, InTimeSchedule
  <2>5. CASE Update
    BY <2>1, <2>5, InTimeUpdate
  <2>6. ASSUME NEW u \in Users, Serve(u) \/ SettleReminder(u) PROVE InTime'
    BY <2>1, <2>6, InTimeUsers
  <2>7. ASSUME NEW c \in Consumers, Consume(c) PROVE InTime'
    BY <2>1, <2>7, InTimeConsumer
  <2>. QED  BY <2>2, <2>3, <2>4, <2>5, <2>6, <2>7 DEF CheckInNext
<1>. QED  BY <1>1, <1>2, CheckInTyped, PTL DEF CheckInSpec

(* Nobody who has the check-in enabled is left without the day's reminder  *)
(* by switching it off and on, when nothing fails, everyone keeps up and a *)
(* change of settings rebuilds the reminder's message: that of a deadline  *)
(* does not, so there is one deadline or nobody changes it.                *)
THEOREM CheckInEnabledReminded ==
    ASSUME UpdatesRebuild, RemindAt <= GraceUntil
    PROVE  CheckInSpec => []EnabledIsReminded
<1>1. Typed /\ InTimeKept => EnabledIsReminded
  <2>. SUFFICES ASSUME Typed, InTime, now > GraceUntil, update.pc = "idle",
                       NEW u \in Users, Owed(u)
                PROVE  FALSE
    BY TimesAre DEF EnabledIsReminded, InTimeKept, Owed, BelowLimit
  <2>. USE TimesAre DEF InTime
  <2>1. TooLate /\ now # 0
    BY DEF TooLate
  <2>2. ~InMessage(u)
    BY <2>1 DEF InMessage, MessagesInTime
  <2>3. ~InBatch(u)
    BY <2>1 DEF InBatch, BatchesInTime
  <2>4. ~InUpdate(u)
    BY DEF InUpdate, Changing
  <2>5. ~InFirstRun(u)
    BY <2>1 DEF InFirstRun, FirstRunAt, MorningFirst
  <2>. QED  BY <2>2, <2>3, <2>4, <2>5 DEF OwedIsOnItsWay
<1>. QED  BY <1>1, CheckInInTime, CheckInTyped, PTL

(* The deadlines are numbers, and every user's is one of them.             *)
LEMMA DueTimesAre ==
    ASSUME Typed
    PROVE  DueTimes \subseteq Nat /\ \A u \in Users : settings[u].deadline \in DueTimes
BY Constants DEF Typed, DayTyped, DueTimes, Times

(* They stay the same: a change of a deadline is to one of them.           *)
LEMMA DueTimesStay ==
    ASSUME Typed,
           UNCHANGED settings \/ \E u \in Users : UpdateSettings(u)
    PROVE  DueTimes' = DueTimes
<1>1. CASE ~UpdatesRebuild
  BY <1>1 DEF UpdatesRebuild, DueTimes
<1>2. CASE UpdatesRebuild
  <2>1. \A v \in Users : settings'[v].deadline = settings[v].deadline
    BY <1>2, UpdateSettingsIs
  <2>. QED  BY <1>2, <2>1 DEF UpdatesRebuild, DueTimes
<1>. QED  BY <1>1, <1>2

(* In the morning everyone is cold, enabled and not reminded.              *)
LEMMA ColdInit == ASSUME CheckInInit PROVE ColdInTime
<1>1. /\ now = 0 /\ runs = 0 /\ sched.pc = "idle" /\ update.pc = "idle"
      /\ BagToSet(queue) = {}
      /\ \A c \in Consumers : hand[c].pc = "idle"
      /\ \A u \in Users : /\ settings[u].enabled /\ created[u] = 0
                          /\ row[u] = NoRow
      /\ overlooked = {}
  BY NoneIsABag DEF CheckInInit, NoRun, NoUpdate, Idle
<1>2. /\ DueTimes \subseteq Nat
      /\ \A u \in Users : settings[u].deadline \in DueTimes
  BY TypedInit, DueTimesAre
<1>3. TimeoutsInTime /\ ColdEnabled /\ ColdUntouched
  BY <1>1 DEF TimeoutsInTime, ColdEnabled, ColdUntouched, NoRow
<1>4. RowsSane
  BY <1>1 DEF RowsSane, NoRow
<1>5. ColdSettled /\ ColdTimesOut
  <2>1. ASSUME NEW u \in Users PROVE \E d \in DueTimes : now <= d
    <3>1. settings[u].deadline \in DueTimes /\ settings[u].deadline \in Nat
      BY <1>2
    <3>. QED  BY <1>1, <3>1
  <2>. QED  BY <1>1, <2>1, Constants DEF ColdSettled, ColdTimesOut, TimeoutDue
<1>. QED  BY <1>3, <1>4, <1>5 DEF ColdInTime

(* Time waits for the reminders to be sent, and for the timeouts that are  *)
(* due.                                                                    *)
LEMMA ColdTick ==
    ASSUME Typed, Timely, NothingFailed, TasksArePublished, InTime, ColdInTime,
           Tick
    PROVE  ColdInTime'
<1>. USE TickIs, TimesAre DEF ColdInTime
<1>1. UNCHANGED <<settings, cached, monthly, created, pending, row, hand,
                  update, sched, runs, overlooked>>
  BY DEF Tick, redisVars, taskVars, alertVars, countVars
<1>2. TimeoutsInTime'
  <2>1. ASSUME NEW m \in BagToSet(queue), m.kind = "timeout"
        PROVE  \E d \in DueTimes : m.delay - 1 = Until(d)'
    <3>1. PICK d \in DueTimes : m.delay = Until(d)
      BY <2>1 DEF TimeoutsInTime
    <3>2. d \in Nat /\ d > now /\ m.delay = d - now
      BY <2>1, <3>1, DueTimesAre DEF Until
    <3>. QED  BY <3>2 DEF Until
  <2>2. \A d \in DueTimes : d \in Nat /\ (d <= now => d <= now')
    BY DueTimesAre
  <2>. QED  BY <1>1, <2>1, <2>2, DueTimesStay DEF TimeoutsInTime
<1>3. RowsSane' /\ ColdEnabled'
  BY <1>1 DEF RowsSane, ColdEnabled, Cold, Changing
<1>4. ColdUntouched'
  BY <1>1 DEF ColdUntouched, BeforeReminders, FirstRunAt
<1>5. ColdSettled'
  <2>. SUFFICES ASSUME NEW u \in Users, Cold(u), now + 1 > RemindAt
                PROVE  pending[u] = 0 /\ (created[u] = 0 => ~BelowLimit(u))
    BY <1>1 DEF ColdSettled, Cold, BelowLimit
  <2>1. pending[u] = 0
    <3>1. Failures = 0
      BY DEF NothingFailed, Failures, Typed, CountsTyped
    <3>2. ~(waiting[u] < pending[u])
      BY <3>1, CheckInAssumption DEF TasksArePublished, Consumers
    <3>. QED  BY <3>2
  <2>2. ASSUME created[u] = 0, BelowLimit(u) PROVE FALSE
    <3>1. Owed(u)
      BY <2>2 DEF Owed, ColdEnabled, Cold, Changing, Never
    <3>2. InMessage(u)
      BY <3>1 DEF InTime, OwedIsOnItsWay, InBatch, InUpdate, InFirstRun,
         Changing, FirstRunAt
    <3>3. PICK m \in BagToSet(queue) : m.delay = Until(RemindAt)
      BY <3>2 DEF InTime, MessagesInTime, InMessage
    <3>4. RemindAt > now
      BY <3>3 DEF Until
    <3>. QED  BY <3>4
  <2>. QED  BY <2>1, <2>2
<1>6. ColdTimesOut'
  <2>. SUFFICES ASSUME NEW u \in Users, Cold(u), Open(u), u \notin overlooked
                PROVE  /\ TimeoutDue(u)'
                       /\ \E d \in DueTimes : now + 1 <= d
    BY <1>1, DueTimesStay DEF ColdTimesOut, Cold, Open
  <2>1. TimeoutDue(u)
    BY DEF ColdTimesOut
  <2>2. PICK m \in BagToSet(queue) : m.kind = "timeout" /\ u \in m.users
    BY <2>1 DEF TimeoutDue, Changing, BeforeTimeouts, FirstRunAt
  <2>3. TimeoutDue(u)'
    BY <2>2 DEF TimeoutDue
  <2>4. PICK d \in DueTimes : m.delay = Until(d)
    BY <2>2 DEF TimeoutsInTime
  <2>5. d \in Nat /\ now + 1 <= d
    BY <2>2, <2>4, DueTimesAre DEF Until
  <2>. QED  BY <2>3, <2>5
<1>. QED  BY <1>2, <1>3, <1>4, <1>5, <1>6

(* The first run finds everyone, and publishes the timeout of everyone.    *)
LEMMA ColdSchedule ==
    ASSUME Typed, \A kind : ~Fault(kind), InTime, ColdInTime, Schedule
    PROVE  ColdInTime'
<1>. USE TimesAre DEF ColdInTime
<1>0. UNCHANGED <<now, settings, cached, monthly, row, created, pending, alerts,
                  overlooked, hand, update>>
  BY DEF Schedule, ScheduleRead, ScheduleFilter, ScheduleReminder,
     MarkReminderScheduled, ScheduleTimeout, MarkTimeoutScheduled,
     SchedulerStops, redisVars, taskVars, alertVars
<1>1. RowsSane' /\ ColdEnabled' /\ ColdSettled'
  BY <1>0 DEF RowsSane, ColdEnabled, ColdSettled, Cold, Changing, BelowLimit
<1>d. DueTimes' = DueTimes
  BY <1>0, DueTimesStay
<1>2. ASSUME sched'.pc # "idle" => sched.pc # "idle" /\ sched'.due = sched.due,
             \A m \in BagToSet(queue)' \ BagToSet(queue) :
                m.kind = "timeout" => \E d \in DueTimes : m.delay = Until(d)
      PROVE  TimeoutsInTime'
  BY <1>0, <1>d, <1>2 DEF TimeoutsInTime, Until
<1>3. ASSUME BeforeReminders' => BeforeReminders,
             BeforeReminders' => UNCHANGED queue
      PROVE  ColdUntouched'
  BY <1>0, <1>3 DEF ColdUntouched, Cold
<1>4. ASSUME \A u \in Users : Cold(u) /\ TimeoutDue(u) => TimeoutDue(u)'
      PROVE  ColdTimesOut'
  BY <1>0, <1>d, <1>4 DEF ColdTimesOut, Cold, Open
<1>5. CASE ScheduleRead
  <2>1. UNCHANGED queue /\ runs' = runs + 1 /\ sched.pc = "idle"
    BY <1>5 DEF ScheduleRead
  <2>2. TimeoutsInTime'
    <3>1. ASSUME sched'.pc # "idle", NEW u \in Users
          PROVE  sched'.due[u] \in DueTimes
      BY <1>5, <3>1, ScheduleReadIs, DueTimesAre
    <3>. QED  BY <1>0, <1>d, <2>1, <3>1 DEF TimeoutsInTime, Until
  <2>3. BeforeReminders' => BeforeReminders
    BY <2>1 DEF BeforeReminders, FirstRunAt
  <2>4. ASSUME NEW u \in Users, Cold(u), TimeoutDue(u) PROVE TimeoutDue(u)'
    <3>1. ~(BeforeTimeouts /\ u \in sched.users) \/ runs = 0
      BY <2>1 DEF BeforeTimeouts, FirstRunAt
    <3>2. CASE runs = 0 /\ settings[u].enabled
      <4>1. u \notin marks.reminder
        BY <3>2 DEF InTime, MorningFirst
      <4>2. sched'.pc = "filter" /\ u \in sched'.users
        BY <1>5, <3>2, <4>1, ScheduleReadIs
      <4>. QED  BY <2>1, <3>2, <4>2
                DEF TimeoutDue, BeforeTimeouts, FirstRunAt
    <3>3. CASE ~settings[u].enabled
      BY <1>0, <2>4, <3>3 DEF ColdEnabled, TimeoutDue, Changing
    <3>4. CASE runs # 0
      BY <1>0, <2>1, <2>4, <3>1, <3>4 DEF TimeoutDue, Changing
    <3>. QED  BY <3>2, <3>3, <3>4
  <2>. QED  BY <1>1, <1>3, <1>4, <2>1, <2>2, <2>3, <2>4
<1>6. CASE ScheduleFilter
  <2>1. UNCHANGED <<queue, runs>> /\ sched.pc = "filter"
    BY <1>6 DEF ScheduleFilter, countVars
  <2>2. TimeoutsInTime'
    BY <1>2, <1>6, <2>1, ScheduleFilterIs
  <2>3. BeforeReminders' => BeforeReminders
    BY <2>1 DEF BeforeReminders, FirstRunAt
  <2>4. ASSUME NEW u \in Users, Cold(u), TimeoutDue(u) PROVE TimeoutDue(u)'
    <3>1. CASE runs = 1 /\ u \in sched.users
      <4>1. created[u] = 0 /\ alerts[u] = 0
        BY <2>1, <2>4, <3>1 DEF ColdUntouched, BeforeReminders, InTime,
           NobodyTimedOut, BeforeTimeouts, FirstRunAt
      <4>2. now = 0
        BY <2>1, <3>1 DEF InTime, MorningFirst
      <4>3. u \notin HasTask /\ ~TooLate
        BY <4>1, <4>2 DEF HasTask, TooLate
      <4>4. sched'.pc = "remind" /\ u \in sched'.users
        BY <1>6, <3>1, <4>3, ScheduleFilterIs
      <4>. QED  BY <2>1, <3>1, <4>4 DEF TimeoutDue, BeforeTimeouts, FirstRunAt
    <3>2. CASE ~(runs = 1 /\ u \in sched.users)
      BY <1>0, <2>1, <2>4, <3>2
         DEF TimeoutDue, Changing, BeforeTimeouts, FirstRunAt
    <3>. QED  BY <3>1, <3>2
  <2>. QED  BY <1>1, <1>3, <1>4, <2>1, <2>2, <2>3, <2>4
<1>7. CASE ScheduleReminder
  <2>1. /\ Post("reminder", sched.users, sched.at, Until(RemindAt))
        /\ GotoSched("markReminder")
        /\ UNCHANGED runs /\ sched.pc = "remind"
    BY <1>7 DEF ScheduleReminder, countVars
  <2>2. PICK m : /\ m.kind = "reminder"
                 /\ BagToSet(queue)' = BagToSet(queue) \cup {m}
    BY <2>1, PostIs DEF Typed
  <2>3. /\ sched'.pc = "markReminder" /\ sched'.users = sched.users
        /\ sched'.due = sched.due
    BY <2>1, RunMoves
  <2>4. TimeoutsInTime'
    BY <1>2, <2>1, <2>2, <2>3
  <2>5. ColdUntouched'
    BY <1>3, <2>1, <2>3 DEF BeforeReminders, FirstRunAt, InTime, MorningFirst
  <2>6. ASSUME NEW u \in Users, TimeoutDue(u) PROVE TimeoutDue(u)'
    BY <1>0, <2>1, <2>2, <2>3, <2>6
       DEF TimeoutDue, Changing, BeforeTimeouts, FirstRunAt
  <2>. QED  BY <1>1, <1>4, <2>4, <2>5, <2>6
<1>8. CASE ScheduleTimeout
  <2>1. /\ GotoSched("markTimeout")
        /\ UNCHANGED runs /\ sched.pc = "timeout"
    BY <1>8 DEF ScheduleTimeout, countVars
  <2>2. PICK first \in sched.users :
           Post("timeout", sched.users, sched.at, Until(sched.due[first]))
    BY <1>8 DEF ScheduleTimeout
  <2>3. PICK m : /\ m.kind = "timeout" /\ m.users = sched.users
                 /\ m.delay = Until(sched.due[first])
                 /\ BagToSet(queue)' = BagToSet(queue) \cup {m}
    BY <2>2, PostIs DEF Typed
  <2>4. /\ sched'.pc = "markTimeout" /\ sched'.users = sched.users
        /\ sched'.due = sched.due
    BY <2>1, RunMoves
  <2>5. \E d \in DueTimes : m.delay = Until(d)
    <3>1. sched.due[first] \in DueTimes
      BY <2>1 DEF TimeoutsInTime
    <3>. QED  BY <2>3, <3>1
  <2>6. TimeoutsInTime'
    BY <1>2, <2>1, <2>3, <2>4, <2>5
  <2>7. ColdUntouched'
    BY <1>3, <2>1, <2>4 DEF BeforeReminders, FirstRunAt, InTime, MorningFirst
  <2>8. ASSUME NEW u \in Users, TimeoutDue(u) PROVE TimeoutDue(u)'
    BY <1>0, <2>1, <2>3, <2>8
       DEF TimeoutDue, Changing, BeforeTimeouts, FirstRunAt
  <2>. QED  BY <1>1, <1>4, <2>6, <2>7, <2>8
<1>9. CASE MarkReminderScheduled \/ MarkTimeoutScheduled
  <2>1. /\ UNCHANGED <<queue, runs>>
        /\ \/ sched.pc = "markReminder" /\ GotoSched("timeout")
           \/ sched.pc = "markTimeout" /\ sched' = NoRun
    BY <1>9 DEF MarkReminderScheduled, MarkTimeoutScheduled, countVars
  <2>2. \/ /\ sched.pc = "markReminder" /\ sched'.pc = "timeout"
           /\ sched'.users = sched.users /\ sched'.due = sched.due
        \/ sched.pc = "markTimeout" /\ sched'.pc = "idle"
    BY <2>1, RunMoves
  <2>3. TimeoutsInTime'
    BY <1>2, <2>1, <2>2
  <2>4. ColdUntouched'
    BY <1>3, <2>1, <2>2 DEF BeforeReminders, FirstRunAt
  <2>5. ASSUME NEW u \in Users, TimeoutDue(u) PROVE TimeoutDue(u)'
    BY <1>0, <2>1, <2>2, <2>5
       DEF TimeoutDue, Changing, BeforeTimeouts, FirstRunAt
  <2>. QED  BY <1>1, <1>4, <2>3, <2>4, <2>5
<1>. QED  BY <1>5, <1>6, <1>7, <1>8, <1>9 DEF Schedule, SchedulerStops

(* The SMS consumer reminds in time, and who changes a setting is cold no  *)
(* longer.                                                                 *)
LEMMA ColdUsers ==
    ASSUME Typed, ColdInTime, NEW w \in Users,
           Serve(w) \/ SettleReminder(w)
    PROVE  ColdInTime'
<1>. USE TimesAre DEF ColdInTime
<1>0. UNCHANGED <<now, cached, monthly, created, hand, queue, sched, runs,
                  overlooked>>
  BY DEF Serve, CompleteCheckIn, UpdateSettings, SettleReminder, redisVars,
     taskVars, alertVars, countVars
<1>d. DueTimes' = DueTimes
  <2>1. UNCHANGED settings \/ UpdateSettings(w)
    BY DEF Serve, CompleteCheckIn, SettleReminder
  <2>. QED  BY <2>1, DueTimesStay
<1>r. \A u \in Users : row'[u].alerted = row[u].alerted
  <2>1. /\ \A old \in RowStates :
              /\ Stamped(old).alerted = old.alerted
              /\ [old EXCEPT !.status = "done"].alerted = old.alerted
        /\ row \in [Users -> RowStates]
    BY DEF Stamped, RowStates, Typed, RowTyped
  <2>2. \/ UNCHANGED row
        \/ row' = [row EXCEPT ![w] = Stamped(@)]
        \/ row' = [row EXCEPT ![w] = [@ EXCEPT !.status = "done"]]
    BY DEF Serve, CompleteCheckIn, UpdateSettings, SettleReminder
  <2>. QED  BY <2>1, <2>2
<1>1. TimeoutsInTime' /\ ColdUntouched'
  BY <1>0, <1>d, <1>r DEF TimeoutsInTime, ColdUntouched, BeforeReminders,
     FirstRunAt, Until, Cold
<1>2. CASE CompleteCheckIn(w)
  <2>1. /\ row' = [row EXCEPT ![w].status = "done"]
        /\ UNCHANGED <<settings, update, pending>>
    BY <1>2 DEF CompleteCheckIn, taskVars
  <2>2. /\ row'[w].status = "done"
        /\ \A u \in Users \ {w} : row'[u] = row[u]
    BY <2>1 DEF Typed, RowTyped, RowStates
  <2>3. RowsSane'
    BY <2>2 DEF RowsSane
  <2>4. ColdEnabled' /\ ColdSettled'
    BY <1>0, <2>1 DEF ColdEnabled, ColdSettled, Cold, Changing, BelowLimit
  <2>5. ColdTimesOut'
    BY <1>0, <1>d, <2>1, <2>2 DEF ColdTimesOut, TimeoutDue, Open, Cold, Changing,
       BeforeTimeouts, FirstRunAt
  <2>. QED  BY <1>1, <2>3, <2>4, <2>5
<1>3. CASE UpdateSettings(w)
  <2>1. UNCHANGED <<row, pending>>
    BY <1>3 DEF UpdateSettings, taskVars
  <2>2. /\ update.pc = "idle" /\ update'.pc = "cache"
        /\ update'.users = {w}
        /\ \A u \in Users \ {w} : settings'[u] = settings[u]
    BY <1>3, UpdateSettingsIs
  <2>3. RowsSane' /\ ColdSettled'
    BY <1>0, <2>1 DEF RowsSane, ColdSettled, Cold, BelowLimit
  <2>4. ColdEnabled'
    BY <1>0, <2>2 DEF ColdEnabled, Cold, Changing
  <2>5. ColdTimesOut'
    BY <1>0, <1>d, <2>1, <2>2 DEF ColdTimesOut, TimeoutDue, Open, Cold, Changing,
       BeforeTimeouts, FirstRunAt
  <2>. QED  BY <1>1, <2>3, <2>4, <2>5
<1>4. CASE SettleReminder(w)
  <2>1. /\ waiting[w] > 0 /\ pending' = [pending EXCEPT ![w] = @ - 1]
        /\ row' = [row EXCEPT ![w] = Stamped(@)] \/ UNCHANGED row
        /\ UNCHANGED <<settings, update>>
    BY <1>4 DEF SettleReminder
  <2>2. /\ pending[w] > 0
        /\ \A u \in Users \ {w} : pending'[u] = pending[u] /\ row'[u] = row[u]
        /\ row'[w] = Stamped(row[w]) \/ row'[w] = row[w]
    BY <2>1 DEF Typed, CountsTyped, RowTyped
  <2>3. RowsSane'
    <3>1. \A old \in RowStates :
             /\ Stamped(old).alerted = old.alerted
             /\ Stamped(old).status \in {"none", "pending"}
                   => old.status \in {"none", "pending"}
      BY DEF Stamped, RowStates
    <3>. QED  BY <2>2, <3>1 DEF RowsSane, Typed, RowTyped
  <2>4. Cold(w) => now <= RemindAt
    BY <2>2 DEF ColdSettled
  <2>5. ColdEnabled' /\ ColdSettled'
    BY <1>0, <2>1, <2>2, <2>4
       DEF ColdEnabled, ColdSettled, Cold, Changing, BelowLimit
  <2>7. \A u \in Users : Cold(u) /\ Open(u)' => Open(u)
    <3>1. \A old \in RowStates :
             /\ Stamped(old).status # "none"
             /\ Stamped(old).status = "pending" => old.status \in {"none", "pending"}
      BY DEF Stamped, RowStates
    <3>2. row \in [Users -> RowStates]
      BY DEF Typed, RowTyped
    <3>. QED  BY <1>0, <2>2, <2>4, <3>1, <3>2 DEF Open
  <2>6. ColdTimesOut'
    BY <1>0, <1>d, <2>1, <2>7 DEF ColdTimesOut, TimeoutDue, Cold, Changing,
       BeforeTimeouts, FirstRunAt
  <2>. QED  BY <1>1, <2>3, <2>5, <2>6
<1>. QED  BY <1>2, <1>3, <1>4 DEF Serve

(* What an update publishes is about users who are not cold.               *)
LEMMA ColdUpdate ==
    ASSUME Typed, \A kind : ~Fault(kind), ColdInTime, Update
    PROVE  ColdInTime'
<1>. USE TimesAre DEF ColdInTime
<1>0. UNCHANGED <<now, settings, monthly, row, created, pending, hand, sched,
                  runs, overlooked>>
  BY DEF Update, CacheSettings, UnmarkCheckinScheduled, UpdatePublish,
     RequestLost, redisVars, taskVars, alertVars, countVars
<1>d. DueTimes' = DueTimes
  BY <1>0, DueTimesStay
<1>1. RowsSane'
  BY <1>0 DEF RowsSane
<1>2. ASSUME \A u \in Users : Cold(u)' => Cold(u) /\ ~Changing(u),
             \/ UNCHANGED queue
             \/ \E m : /\ m.kind = "reminder" /\ m.users = update.users
                       /\ update.pc = "publish"
                       /\ BagToSet(queue)' = BagToSet(queue) \cup {m}
      PROVE  /\ TimeoutsInTime' /\ ColdUntouched' /\ ColdSettled'
             /\ ColdTimesOut'
  <2>1. TimeoutsInTime'
    BY <1>0, <1>d, <1>2 DEF TimeoutsInTime, Until
  <2>2. ColdUntouched'
    BY <1>0, <1>2 DEF ColdUntouched, ColdEnabled, BeforeReminders, FirstRunAt
  <2>3. ColdSettled'
    BY <1>0, <1>2 DEF ColdSettled, BelowLimit
  <2>4. ColdTimesOut'
    BY <1>0, <1>d, <1>2 DEF ColdTimesOut, TimeoutDue, Open, BeforeTimeouts, FirstRunAt
  <2>. QED  BY <2>1, <2>2, <2>3, <2>4
<1>3. CASE CacheSettings
  <2>1. /\ update.pc = "cache" /\ UNCHANGED queue
        /\ \A u \in Users :
              cached'[u] = IF u \in update.users
                           THEN [enabled |-> update.enabled, at |-> now]
                           ELSE cached[u]
        /\ update'.pc = "idle" \/ update'.users = update.users
        /\ update'.pc \in {"idle", "unmark"}
    BY <1>3, CacheSettingsIs DEF CacheSettings
  <2>2. \A u \in Users : Cold(u)' => Cold(u) /\ u \notin update.users
    BY <2>1 DEF Cold, Never
  <2>3. ColdEnabled'
    BY <1>0, <2>1, <2>2 DEF ColdEnabled, Changing
  <2>. QED  BY <1>1, <1>2, <2>1, <2>2, <2>3 DEF Changing
<1>4. CASE UnmarkCheckinScheduled
  <2>1. UNCHANGED <<cached, queue>>
    BY <1>4 DEF UnmarkCheckinScheduled
  <2>2. /\ update.pc = "unmark" /\ update'.pc = "publish"
        /\ update'.users = update.users
    BY <1>4, UnmarkIs
  <2>3. ColdEnabled'
    BY <1>0, <2>1, <2>2 DEF ColdEnabled, Cold, Changing
  <2>. QED  BY <1>1, <1>2, <2>1, <2>2, <2>3 DEF Changing, Cold
<1>5. CASE UpdatePublish
  <2>1. /\ update.pc = "publish" /\ update' = NoUpdate /\ UNCHANGED cached
        /\ Post("reminder", update.users, update.at, Until(RemindAt))
    BY <1>5 DEF UpdatePublish, redisVars
  <2>2. \E m : /\ m.kind = "reminder" /\ m.users = update.users
               /\ BagToSet(queue)' = BagToSet(queue) \cup {m}
    BY <2>1, PostIs DEF Typed
  <2>3. update'.pc = "idle"
    BY <2>1 DEF NoUpdate
  <2>4. ColdEnabled'
    BY <1>0, <2>1, <2>3 DEF ColdEnabled, Cold, Changing
  <2>. QED  BY <1>1, <1>2, <2>1, <2>2, <2>4 DEF Changing, Cold
<1>. QED  BY <1>3, <1>4, <1>5 DEF Update, RequestLost

(* A timeout finds the rows of those who were reminded.                    *)
LEMMA ColdConsumer ==
    ASSUME Typed, \A kind : ~Fault(kind), InTime, ColdInTime,
           NEW c \in Consumers, Consume(c)
    PROVE  ColdInTime'
<1>. USE TimesAre DEF ColdInTime
<1>0. /\ MessagesInTime
      /\ UNCHANGED <<now, settings, cached, marks, update, sched, runs>>
      /\ BagToSet(queue)' \subseteq BagToSet(queue)
  BY ConsumeIs DEF InTime
<1>1. \A d \in Consumers \ {c} : hand'[d] = hand[d]
  BY OneHandMoves DEF Typed
<1>d. DueTimes' = DueTimes
  BY <1>0, DueTimesStay
<1>o. /\ overlooked \subseteq overlooked'
      /\ overlooked' = overlooked
            \/ (/\ ReadTimeouts(c)
                /\ overlooked' = overlooked \cup
                      {u \in hand[c].users :
                          row[u].status = "none" /\ now <= RemindAt})
  <2>1. ReadTimeouts(c) \/ UNCHANGED overlooked
    BY DEF Consume, Take, ValidateReminderBatch, SelectUsers, CreateReminders,
       RollBackReminders, PublishReminders, CommitTimeouts, PublishAlerts,
       Finish, Retry, Crash, alertVars
  <2>. QED  BY <2>1 DEF ReadTimeouts
<1>2. ASSUME NEW m \in BagToSet(queue), ~m.marked, Take(c, m)
      PROVE  /\ hand[c].pc = "idle" /\ m.delay = 0
             /\ m.kind \in {"reminder", "timeout"}
             /\ hand'[c].pc = IF m.kind = "reminder" THEN "validate" ELSE "read"
             /\ hand'[c].users = m.users
             /\ BagToSet(queue) \ {m} \subseteq BagToSet(queue)'
             /\ UNCHANGED <<created, pending, monthly, alerts, row>>
  <2>1. m.kind \in {"reminder", "timeout"}
    BY DEF Typed, QueueTyped, Messages
  <2>. QED  BY <1>2, <2>1, TakeIs, WorkLeaves
<1>3. /\ \A u \in Users : Cold(u)' = Cold(u)
      /\ \A u \in Users : Changing(u)' = Changing(u)
      /\ BeforeReminders' = BeforeReminders /\ BeforeTimeouts' = BeforeTimeouts
  BY <1>0 DEF Cold, Changing, BeforeReminders, BeforeTimeouts, FirstRunAt
<1>4. /\ UNCHANGED <<created, pending, monthly>> \/ CreateReminders(c)
      /\ UNCHANGED row \/ CommitTimeouts(c)
  BY <1>0, WorkMoves, WorkLeaves
<1>5. \A u \in Users :
         row'[u] = row[u] \/ (/\ CommitTimeouts(c) /\ u \in hand[c].valid
                              /\ row'[u].status = "timeout")
  <2>1. ASSUME CommitTimeouts(c), NEW u \in Users
        PROVE  row'[u] = row[u] \/ (/\ u \in hand[c].valid
                                    /\ row'[u].status = "timeout")
    <3>1. row' = [v \in Users |-> IF v \in hand[c].valid
                                  THEN [row[v] EXCEPT !.status = "timeout",
                                                      !.alerted = TRUE]
                                  ELSE row[v]]
      BY <2>1 DEF CommitTimeouts
    <3>2. row[u] \in RowStates
      BY DEF Typed, RowTyped
    <3>3. [row[u] EXCEPT !.status = "timeout", !.alerted = TRUE].status
             = "timeout"
      BY <3>2 DEF RowStates
    <3>. QED  BY <3>1, <3>3
  <2>. QED  BY <1>4, <2>1
<1>6. TimeoutsInTime'
  <2>1. ASSUME hand'[c].pc \in {"read", "alert"}
        PROVE  \E d \in DueTimes : d <= now
    <3>1. ASSUME NEW m \in BagToSet(queue), ~m.marked, Take(c, m)
          PROVE  \E d \in DueTimes : d <= now
      <4>1. m.delay = 0 /\ m.kind = "timeout"
        BY <1>2, <2>1, <3>1
      <4>2. PICK d \in DueTimes : Until(d) = 0
        BY <4>1 DEF TimeoutsInTime
      <4>3. d \in Nat
        BY DueTimesAre
      <4>. QED  BY <4>2, <4>3 DEF Until
    <3>. QED  BY <1>0, <2>1, <3>1, WorkMoves, WorkGoes DEF TimeoutsInTime
  <2>2. ASSUME NEW u \in Users, row'[u].alerted
        PROVE  \E d \in DueTimes : d <= now
    <3>1. row'[u] = row[u] \/ hand[c].pc = "alert"
      BY <1>5, WorkGoes
    <3>. QED  BY <2>2, <3>1 DEF TimeoutsInTime
  <2>3. ASSUME overlooked' # {} PROVE \E d \in DueTimes : d <= RemindAt
    <3>1. CASE overlooked # {}
      BY <3>1 DEF TimeoutsInTime
    <3>2. CASE overlooked = {}
      <4>1. ReadTimeouts(c) /\ now <= RemindAt
        BY <1>o, <2>3, <3>2
      <4>2. PICK d \in DueTimes : d <= now
        BY <4>1, WorkGoes DEF TimeoutsInTime
      <4>3. d \in Nat
        BY DueTimesAre
      <4>. QED  BY <4>1, <4>2, <4>3
    <3>. QED  BY <3>1, <3>2
  <2>4. \A m \in BagToSet(queue)' :
           m.kind = "timeout" => \E d \in DueTimes : m.delay = Until(d)'
    BY <1>0 DEF TimeoutsInTime, Until
  <2>. QED  BY <1>0, <1>1, <1>d, <2>1, <2>2, <2>3, <2>4 DEF TimeoutsInTime
<1>7. RowsSane'
  BY <1>5 DEF RowsSane
<1>8. ColdEnabled'
  BY <1>0, <1>3 DEF ColdEnabled
<1>9. ColdUntouched'
  <2>. SUFFICES ASSUME BeforeReminders, NEW u \in Users, Cold(u)
                PROVE  /\ created'[u] = 0
                       /\ hand'[c].pc = "validate" => u \notin hand'[c].users
                       /\ hand'[c].pc = "select" => u \notin hand'[c].valid
                       /\ hand'[c].pc = "create" => u \notin hand'[c].picked
    BY <1>0, <1>1, <1>3 DEF ColdUntouched
  <2>1. created'[u] = 0
    BY <1>4, CreateIs DEF ColdUntouched
  <2>2. ASSUME NEW m \in BagToSet(queue), ~m.marked, Take(c, m)
        PROVE  /\ hand'[c].pc \in {"validate", "read"}
               /\ hand'[c].pc = "validate" => u \notin hand'[c].users
    BY <1>2, <2>2 DEF ColdUntouched
  <2>3. ValidateReminderBatch(c) => u \notin hand'[c].valid
    BY ValidateIs DEF ColdUntouched
  <2>4. SelectUsers(c) => u \notin hand'[c].picked
    BY SelectIs DEF ColdUntouched
  <2>. QED  BY <1>0, <2>1, <2>2, <2>3, <2>4, WorkMoves, WorkGoes
<1>10. ColdSettled'
  <2>. SUFFICES ASSUME NEW u \in Users, Cold(u), now > RemindAt
                PROVE  /\ pending'[u] = 0
                       /\ hand'[c].pc = "create" => u \notin hand'[c].picked
                       /\ created'[u] = 0 => ~BelowLimit(u)'
    BY <1>0, <1>1, <1>3 DEF ColdSettled
  <2>1. CreateReminders(c) => u \notin hand[c].picked
    BY CreateIs DEF ColdSettled
  <2>2. created'[u] = created[u] /\ pending'[u] = pending[u]
           /\ monthly'[u] = monthly[u]
    BY <1>4, <2>1, CreateIs
  <2>3. SelectUsers(c) => u \notin hand'[c].picked
    BY SelectIs DEF ColdSettled
  <2>4. hand'[c].pc = "create" => SelectUsers(c)
    BY <1>0, <1>2, WorkMoves, WorkGoes
  <2>. QED  BY <2>2, <2>3, <2>4 DEF ColdSettled, BelowLimit
<1>11. ColdTimesOut'
  <2>. SUFFICES ASSUME NEW u \in Users, Cold(u), Open(u)', u \notin overlooked'
                PROVE  TimeoutDue(u)' /\ \E d \in DueTimes : now <= d
    BY <1>0, <1>3, <1>d DEF ColdTimesOut
  <2>1. row'[u] = row[u] /\ Open(u)
    BY <1>0, <1>5 DEF Open
  <2>2. TimeoutDue(u) /\ \E d \in DueTimes : now <= d
    BY <1>o, <2>1 DEF ColdTimesOut
  <2>3. ASSUME ReadTimeouts(c), u \in hand[c].users
        PROVE  row[u].status = "pending" /\ ~row[u].alerted
    BY <1>o, <2>1, <2>3 DEF Open, RowsSane, ReadTimeouts
  <2>4. ASSUME NEW m \in BagToSet(queue), m.kind = "timeout", u \in m.users
        PROVE  TimeoutDue(u)'
    <3>1. CASE m \in BagToSet(queue)'
      BY <2>4, <3>1 DEF TimeoutDue
    <3>2. CASE m \notin BagToSet(queue)'
      <4>1. ~m.marked /\ Take(c, m)
        BY <1>0, <1>2, <3>2, WorkMoves, WorkLeaves
      <4>2. hand'[c].pc = "read" /\ u \in hand'[c].users
        BY <1>2, <2>4, <4>1
      <4>. QED  BY <4>2 DEF TimeoutDue
    <3>. QED  BY <3>1, <3>2
  <2>5. ASSUME NEW d \in Consumers,
               \/ hand[d].pc = "read" /\ u \in hand[d].users
               \/ hand[d].pc = "alert" /\ u \in hand[d].valid
        PROVE  TimeoutDue(u)'
    <3>1. CASE d # c
      BY <1>1, <2>5, <3>1 DEF TimeoutDue
    <3>2. CASE d = c
      <4>1. CASE ReadTimeouts(c)
        <5>1. u \in hand[c].users
          BY <2>5, <3>2, <4>1, WorkGoes
        <5>2. u \in hand'[c].valid /\ hand'[c].pc = "alert"
          BY <2>3, <4>1, <5>1, ReadIs
        <5>. QED  BY <5>2 DEF TimeoutDue
      <4>2. ~CommitTimeouts(c)
        <5>1. ASSUME CommitTimeouts(c) PROVE FALSE
          <6>1. u \in hand[c].valid /\ row[u] \in RowStates
            BY <2>5, <3>2, <5>1, WorkGoes DEF Typed, RowTyped
          <6>2. row'[u] = [row[u] EXCEPT !.status = "timeout", !.alerted = TRUE]
            BY <5>1, <6>1 DEF CommitTimeouts
          <6>3. row'[u].status = "timeout"
            BY <6>1, <6>2 DEF RowStates
          <6>. QED  BY <2>1, <6>3 DEF Open
        <5>. QED  BY <5>1
      <4>. QED  BY <1>0, <1>2, <2>5, <3>2, <4>1, <4>2, WorkMoves, WorkGoes
    <3>. QED  BY <3>1, <3>2
  <2>6. ASSUME Changing(u) \/ runs = 0 \/ (BeforeTimeouts /\ u \in sched.users)
        PROVE  TimeoutDue(u)'
    BY <1>0, <1>3, <2>6 DEF TimeoutDue
  <2>. QED  BY <2>2, <2>4, <2>5, <2>6 DEF TimeoutDue
<1>. QED  BY <1>6, <1>7, <1>8, <1>9, <1>10, <1>11

ColdKept == Timely /\ NothingFailed => ColdInTime

(* Whatever the deadlines of the users and however they change: when       *)
(* nothing fails and everyone keeps up, a user who leaves the settings     *)
(* alone, was reminded and has not checked in when the last deadline is    *)
(* over has timed out, unless the timeout looked for him before his        *)
(* reminder; that needs a deadline no later than the reminder; and nobody  *)
(* times out before the first deadline.                                    *)
THEOREM CheckInForgottenAlerted == CheckInSpec => []ForgottenIsAlerted
<1>1. CheckInInit => ColdKept
  BY ColdInit DEF ColdKept
<1>2. Typed /\ TasksArePublished /\ InTimeKept /\ ColdKept
         /\ [CheckInNext]_checkInVars
         => ColdKept'
  <2>. SUFFICES ASSUME Typed, TasksArePublished, InTimeKept,
                       ColdKept, [CheckInNext]_checkInVars,
                       Timely, NothingFailed'
                PROVE  ColdInTime'
    BY DEF ColdKept
  <2>1. NothingFailed /\ InTime /\ ColdInTime /\ \A kind : ~Fault(kind)
    BY NothingFails DEF InTimeKept, ColdKept
  <2>2. CASE UNCHANGED checkInVars
    <3>1. UNCHANGED <<now, settings, cached, monthly, row, created, pending,
                      overlooked, queue, hand, update, sched, runs>>
      BY <2>2 DEF checkInVars, redisVars, taskVars, alertVars, countVars
    <3>2. DueTimes' = DueTimes
      BY <3>1, DueTimesStay
    <3>3. TimeoutsInTime' /\ ColdTimesOut'
      BY <2>1, <3>1, <3>2 DEF ColdInTime, TimeoutsInTime, ColdTimesOut,
         TimeoutDue, Open, Cold, Changing, FirstRunAt, BeforeTimeouts, Until
    <3>4. RowsSane' /\ ColdEnabled' /\ ColdUntouched' /\ ColdSettled'
      BY <2>1, <3>1 DEF ColdInTime, RowsSane, ColdEnabled, ColdUntouched,
         ColdSettled, Cold, Changing, FirstRunAt, BeforeReminders, BelowLimit
    <3>. QED  BY <3>3, <3>4 DEF ColdInTime
  <2>3. CASE Tick
    BY <2>1, <2>3, ColdTick
  <2>4. CASE Schedule
    BY <2>1, <2>4, ColdSchedule
  <2>5. CASE Update
    BY <2>1, <2>5, ColdUpdate
  <2>6. ASSUME NEW u \in Users, Serve(u) \/ SettleReminder(u) PROVE ColdInTime'
    BY <2>1, <2>6, ColdUsers
  <2>7. ASSUME NEW c \in Consumers, Consume(c) PROVE ColdInTime'
    BY <2>1, <2>7, ColdConsumer
  <2>. QED  BY <2>2, <2>3, <2>4, <2>5, <2>6, <2>7 DEF CheckInNext
<1>3. Typed /\ ColdKept => ForgottenIsAlerted
  <2>. SUFFICES ASSUME Typed, ColdInTime
                PROVE  /\ \A u \in Users :
                             row[u].status = "pending" /\ cached[u].at = Never
                                 /\ (\A d \in DueTimes : d < now)
                                     => u \in overlooked
                       /\ overlooked # {} => \E d \in DueTimes : d <= RemindAt
                       /\ \A u \in Users :
                             row[u].alerted => \E d \in DueTimes : d <= now
    BY DEF ForgottenIsAlerted, ColdKept
  <2>1. ASSUME NEW u \in Users, row[u].status = "pending", Cold(u),
               \A d \in DueTimes : d < now, u \notin overlooked
        PROVE  FALSE
    <3>1. PICK d \in DueTimes : now <= d
      BY <2>1 DEF ColdInTime, ColdTimesOut, Open
    <3>. QED  BY <2>1, <3>1, TimesAre, DueTimesAre
  <2>. QED  BY <2>1 DEF ColdInTime, TimeoutsInTime, Cold
<1>. QED  BY <1>1, <1>2, <1>3, CheckInTyped, CheckInTasksPublished,
          CheckInInTime, PTL DEF CheckInSpec

=============================================================================
