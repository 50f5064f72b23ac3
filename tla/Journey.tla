------------------------------ MODULE Journey ------------------------------
(***************************************************************************)
(* One journey (a row of journeys) from its creation on: the user's        *)
(* requests to update, complete and delete it, the two scans of the        *)
(* scheduler, the delayed messages on scheduler.journey.reminder and       *)
(* scheduler.journey.timeout, and the consumers that remind the user and   *)
(* alert the emergency contacts.                                           *)
(*                                                                         *)
(* Every handler reads the row, decides, and writes it with an UPDATE by   *)
(* primary key that does not check the decision again: reads and writes    *)
(* are separate steps and those of the other handlers come between them.   *)
(* Reads by public id are raw SQL and find a deleted row; UPDATEs and the  *)
(* scheduler's queries do not (deleted_at IS NULL).                        *)
(*                                                                         *)
(* Time is a sequence of instants, one interval of the scheduler apart:    *)
(* only their order matters.  The marks outlive the runs (TTL 24 hours).   *)
(* How a queue retries and dead-letters is SmsDelivery's subject; here a   *)
(* failed message comes again, and fails less often than the limit of 3.   *)
(***************************************************************************)
EXTENDS Integers, FiniteSets, DelayedQueue

CONSTANTS
    RemindConsumers,   \* goroutines of StartJourneyReminderConsumer
    TimeoutConsumers,  \* goroutines of StartJourneyTimeoutConsumer
    Requests,          \* HTTP handlers that run concurrently
    Grace,             \* the ten minutes between due and alert
    Truncation,        \* the fraction of a second a delay is cut by
    Lead,              \* least time between a request and the return time
    Window,            \* how far CheckJourneyTimeouts looks ahead
    MaxDelay,          \* 24 hours, the longest delay of a message
    MaxDue,            \* bounds: the latest return time, the instant that
    Horizon,           \* stands for all later ones, and the messages that
    MaxMessages,       \* are waiting in the queues
    MaxRequests,       \* requests of the user
    FaultKinds,        \* what may fail, and how often in all
    MaxFaults,
    Timely             \* the scheduler and the consumers keep up with time

ASSUME JourneyAssumption ==
    /\ IsFiniteSet(RemindConsumers) /\ IsFiniteSet(TimeoutConsumers)
    /\ RemindConsumers \cap TimeoutConsumers = {}
    /\ {Grace, Truncation, Lead, Window, MaxDelay, MaxDue, Horizon,
        MaxRequests} \subseteq Nat
    /\ Truncation <= Grace
    /\ Lead <= MaxDue /\ MaxDue + Grace < Horizon
    /\ Timely \in BOOLEAN
    /\ FaultKinds \subseteq {"crash", "db", "redis", "publish"}

VARIABLES
    now,
    journey,      \* the journeys row
    autoNotify,   \* users.journey_auto_notify
    remindMark,   \* Redis journey:reminder:scheduled:<id>
    timeoutMark,  \* Redis journey:timeout:scheduled:<id>
    queue,        \* the messages waiting in the two queues
    hand,         \* what each consumer does, and whether its message has a
                  \* Redis mark message:processed:<id>
    request,      \* what each HTTP handler does
    scan,         \* what CheckJourneyTimeouts does, and the row it has read
    scanned,      \* it has looked since the last tick
    overdue,      \* what CheckOverdueJourneys does
    tasks,        \* notification tasks created, by kind
    sms,          \* messages handed to the SMS queue, by kind
    requests,     \* requests of the user so far
    faults

rowVars == <<journey, autoNotify>>
markVars == <<remindMark, timeoutMark>>
schedulerVars == <<scan, scanned, overdue>>
outVars == <<tasks, sms>>
userVars == <<request, requests>>
journeyVars == <<now, rowVars, markVars, queue, hand, userVars, schedulerVars,
                 outVars, faults>>

Consumers == RemindConsumers \cup TimeoutConsumers
Kinds == {"remind", "timeout"}
Kind(c) == IF c \in RemindConsumers THEN "remind" ELSE "timeout"

Message(kind, delay, marked) ==
    [kind |-> kind, delay |-> delay, marked |-> marked]

Idle == [pc |-> "idle", marked |-> FALSE]
NoRequest == [pc |-> "idle", time |-> 0]
NoScan == [pc |-> "idle", delay |-> 0, reminded |-> FALSE]

JourneyTypeOK ==
    /\ now \in 0..Horizon
    /\ journey \in [status : {"ongoing", "ended", "timeout", "cancelled"},
                    deleted : BOOLEAN, due : Lead..MaxDue,
                    reminded : BOOLEAN, attempts : Nat,
                    alert : {"pending", "triggered", "failed"}]
    /\ autoNotify \in BOOLEAN
    /\ remindMark \in BOOLEAN /\ timeoutMark \in BOOLEAN
    /\ IsABag(queue)
    /\ BagToSet(queue) \subseteq [kind : Kinds, delay : Nat, marked : BOOLEAN]
    /\ \A m \in BagToSet(queue) : m.marked => m.delay = 0
    /\ hand \in [Consumers -> [pc : {"idle", "read", "alert", "refuse",
                                     "create", "stamp", "publish", "finish"},
                               marked : BOOLEAN]]
    /\ \A c \in Consumers : hand[c].pc \in {"alert", "refuse"}
                                => c \in TimeoutConsumers
    /\ request \in [Requests -> [pc : {"idle", "update", "publish", "complete",
                                       "delete"}, time : Nat]]
    /\ scan \in [pc : {"idle", "remind", "markRemind", "timeout",
                       "markTimeout"},
                 delay : Nat, reminded : BOOLEAN]
    /\ scanned \in BOOLEAN
    /\ overdue \in {"idle", "publish", "done"}
    /\ tasks \in [Kinds -> Nat] /\ sms \in [Kinds -> Nat]
    /\ requests \in 0..MaxRequests
    /\ faults \in [{"crash", "db", "redis", "publish"} -> Nat]

(* CreateJourney has inserted the row, and its handler has published the   *)
(* timeout message (or failed to, or died before).                         *)
JourneyInit ==
    /\ now = 0
    /\ autoNotify \in BOOLEAN
    /\ \E due \in Lead..MaxDue :
          /\ journey = [status |-> "ongoing", deleted |-> FALSE, due |-> due,
                        reminded |-> FALSE, attempts |-> 0,
                        alert |-> "pending"]
          /\ \/ queue = EmptyBag
             \/ /\ autoNotify /\ due + Grace <= MaxDelay
                /\ \E cut \in 0..Truncation :
                      queue = SetToBag({Message("timeout", due + Grace - cut,
                                                FALSE)})
    /\ remindMark = FALSE /\ timeoutMark = FALSE
    /\ hand = [c \in Consumers |-> Idle]
    /\ request = [r \in Requests |-> NoRequest]
    /\ scan = NoScan /\ scanned = FALSE
    /\ overdue = "idle"
    /\ tasks = [k \in Kinds |-> 0] /\ sms = [k \in Kinds |-> 0]
    /\ requests = 0
    /\ faults = [crash |-> 0, db |-> 0, redis |-> 0, publish |-> 0]

-----------------------------------------------------------------------------

Fault(kind) ==
    /\ kind \in FaultKinds
    /\ faults.crash + faults.db + faults.redis + faults.publish < MaxFaults
    /\ faults' = [faults EXCEPT ![kind] = @ + 1]

NoFault == UNCHANGED faults

(* PublishJourneyReminder and PublishJourneyTimeout: a message with a new  *)
(* id, which therefore has no mark.  The delay is cut to whole seconds, so *)
(* the message can come before its time.                                   *)
Post(kind, delay) ==
    /\ BagCardinality(queue) < MaxMessages
    /\ \E cut \in 0..Truncation :
          /\ cut <= delay
          /\ queue' = With(queue, Message(kind, delay - cut, FALSE))

(* An UPDATE by primary key finds no row once deleted_at is set.           *)
UpdateRow(row) == journey' = IF journey.deleted THEN journey ELSE row

-----------------------------------------------------------------------------
(* The user's requests                                                     *)

GotoRequest(r, pc, time) ==
    request' = [request EXCEPT ![r] = [pc |-> pc, time |-> time]]

(* Each handler reads the row and checks its status only.                  *)
Begin(r, pc, time) ==
    /\ request[r].pc = "idle"
    /\ requests < MaxRequests
    /\ requests' = requests + 1
    /\ GotoRequest(r, pc, time)
    /\ UNCHANGED <<now, rowVars, markVars, queue, hand, schedulerVars,
                   outVars, faults>>

(* Broken variant: the return time is not compared with the clock. *)
MutUpdateRead(r, due) ==
    /\ journey.status \notin {"ended", "timeout"}
    /\ Begin(r, "update", due)

UpdateRead(r, due) ==
    /\ journey.status \notin {"ended", "timeout"}
    /\ due >= now + Lead
    /\ Begin(r, "update", due)

CompleteRead(r) ==
    /\ journey.status # "ended"
    /\ Begin(r, "complete", 0)

DeleteRead(r) == Begin(r, "delete", 0)

(* The UPDATE, and the message for the new time if there is to be one.     *)
(* The scheduler's marks and reminder_sent_at stay as they are.            *)
UpdateWrite(r) ==
    /\ request[r].pc = "update"
    /\ UpdateRow([journey EXCEPT !.due = request[r].time])
    /\ LET delay == journey'.due + Grace - now
       IN  IF autoNotify /\ delay \in 1..MaxDelay
           THEN GotoRequest(r, "publish", delay)
           ELSE GotoRequest(r, "idle", 0)
    /\ UNCHANGED <<now, autoNotify, markVars, queue, hand, requests,
                   schedulerVars, outVars, faults>>

UpdatePublish(r) ==
    /\ request[r].pc = "publish"
    /\ \/ Post("timeout", request[r].time) /\ NoFault
       \/ Fault("publish") /\ UNCHANGED queue
    /\ GotoRequest(r, "idle", 0)
    /\ UNCHANGED <<now, rowVars, markVars, hand, requests, schedulerVars,
                   outVars>>

CompleteWrite(r) ==
    /\ request[r].pc = "complete"
    /\ UpdateRow([journey EXCEPT !.status = "ended"])
    /\ GotoRequest(r, "idle", 0)
    /\ UNCHANGED <<now, autoNotify, markVars, queue, hand, requests,
                   schedulerVars, outVars, faults>>

DeleteWrite(r) ==
    /\ request[r].pc = "delete"
    /\ UpdateRow([journey EXCEPT !.status = "cancelled", !.deleted = TRUE])
    /\ GotoRequest(r, "idle", 0)
    /\ UNCHANGED <<now, autoNotify, markVars, queue, hand, requests,
                   schedulerVars, outVars, faults>>

(* The server process dies in the middle of a request.                     *)
RequestLost(r) ==
    /\ request[r].pc # "idle"
    /\ Fault("crash")
    /\ GotoRequest(r, "idle", 0)
    /\ UNCHANGED <<now, rowVars, markVars, queue, hand, requests,
                   schedulerVars, outVars>>

-----------------------------------------------------------------------------
(* CheckJourneyTimeouts: one goroutine for the journey                     *)

Listed == journey.status = "ongoing" /\ ~journey.deleted

(* Broken variant: the scan has no lower bound. *)
MutApproaching == Listed /\ journey.due <= now + Window

Approaching == Listed /\ journey.due \in now..(now + Window)

ScanRead ==
    /\ scan.pc = "idle" /\ ~scanned
    /\ Approaching
    /\ scan' = [pc |-> "remind", delay |-> journey.due - now,
                reminded |-> journey.reminded]
    /\ scanned' = TRUE
    /\ UNCHANGED <<now, rowVars, markVars, queue, hand, userVars, overdue,
                   outVars, faults>>

ScanNothing ==
    /\ scan.pc = "idle" /\ ~scanned
    /\ ~Approaching
    /\ scanned' = TRUE
    /\ UNCHANGED <<now, rowVars, markVars, queue, hand, userVars, scan,
                   overdue, outVars, faults>>

GotoScan(pc) == scan' = [scan EXCEPT !.pc = pc]

(* Phase one.  When Redis does not answer, the message is published.       *)
ScanRemind ==
    /\ scan.pc = "remind"
    /\ \/ /\ scan.reminded \/ remindMark
          /\ GotoScan("timeout")
          /\ NoFault /\ UNCHANGED queue
       \/ /\ ~scan.reminded
          /\ IF remindMark THEN Fault("redis") ELSE NoFault
          /\ Post("remind", scan.delay)
          /\ GotoScan("markRemind")
       \/ /\ ~scan.reminded /\ ~remindMark
          /\ Fault("publish")
          /\ GotoScan("timeout")
          /\ UNCHANGED queue
    /\ UNCHANGED <<now, rowVars, markVars, hand, userVars, scanned, overdue,
                   outVars>>

ScanMarkRemind ==
    /\ scan.pc = "markRemind"
    /\ \/ remindMark' = TRUE /\ NoFault
       \/ Fault("redis") /\ UNCHANGED remindMark
    /\ GotoScan("timeout")
    /\ UNCHANGED <<now, rowVars, timeoutMark, queue, hand, userVars,
                   scanned, overdue, outVars>>

(* Phase two, in the same way.                                             *)
ScanTimeout ==
    /\ scan.pc = "timeout"
    /\ \/ /\ timeoutMark
          /\ scan' = NoScan
          /\ NoFault /\ UNCHANGED queue
       \/ /\ IF timeoutMark THEN Fault("redis") ELSE NoFault
          /\ Post("timeout", scan.delay + Grace)
          /\ GotoScan("markTimeout")
       \/ /\ ~timeoutMark
          /\ Fault("publish")
          /\ scan' = NoScan
          /\ UNCHANGED queue
    /\ UNCHANGED <<now, rowVars, markVars, hand, userVars, scanned, overdue,
                   outVars>>

ScanMarkTimeout ==
    /\ scan.pc = "markTimeout"
    /\ \/ timeoutMark' = TRUE /\ NoFault
       \/ Fault("redis") /\ UNCHANGED timeoutMark
    /\ scan' = NoScan
    /\ UNCHANGED <<now, rowVars, remindMark, queue, hand, userVars,
                   scanned, overdue, outVars>>

(* Broken variant: the compensation trusts the mark of the other scan. *)
MutOverdueRead ==
    /\ overdue = "idle" /\ ~timeoutMark
    /\ Listed /\ journey.due + Grace < now
    /\ overdue' = "publish"
    /\ UNCHANGED <<now, rowVars, markVars, queue, hand, userVars, scan,
                   scanned, outVars, faults>>

(* CheckOverdueJourneys: the compensation, which looks at no mark.         *)
OverdueRead ==
    /\ overdue = "idle"
    /\ Listed /\ journey.due + Grace < now
    /\ overdue' = "publish"
    /\ UNCHANGED <<now, rowVars, markVars, queue, hand, userVars, scan,
                   scanned, outVars, faults>>

OverduePublish ==
    /\ overdue = "publish"
    /\ \/ Post("timeout", 0) /\ NoFault
       \/ Fault("publish") /\ UNCHANGED queue
    /\ overdue' = "done"
    /\ UNCHANGED <<now, rowVars, markVars, hand, userVars, scan, scanned,
                   outVars>>

(* The scheduler dies (or a query of its scans fails).                     *)
SchedulerStops ==
    /\ scan.pc # "idle" \/ overdue = "publish"
    /\ Fault("crash")
    /\ scan' = NoScan /\ overdue' = "done"
    /\ UNCHANGED <<now, rowVars, markVars, queue, hand, userVars, scanned,
                   outVars>>

-----------------------------------------------------------------------------
(* The consumers                                                           *)

GotoHand(c, pc) == hand' = [hand EXCEPT ![c].pc = pc]

GiveBack(c, marked) ==
    /\ queue' = With(queue, Message(Kind(c), 0, marked))
    /\ hand' = [hand EXCEPT ![c] = Idle]

(* Delivery and TryMarkMessageProcessing: a marked message is skipped, and *)
(* handled when Redis does not answer.                                     *)
Take(c, m) ==
    /\ hand[c].pc = "idle"
    /\ m.kind = Kind(c) /\ m.delay = 0
    /\ queue' = Without(queue, m)
    /\ \/ m.marked /\ NoFault /\ UNCHANGED hand
       \/ ~m.marked /\ NoFault /\ hand' = [hand EXCEPT ![c] =
                                           [pc |-> "read", marked |-> TRUE]]
       \/ Fault("redis") /\ hand' = [hand EXCEPT ![c] =
                                     [pc |-> "read", marked |-> m.marked]]
    /\ UNCHANGED <<now, rowVars, markVars, userVars, schedulerVars, outVars>>

(* ProcessReminder up to the checks.  The wallet may hold too little for a *)
(* message: then there is none, and no error either.                       *)
ReadForReminder(c) ==
    /\ c \in RemindConsumers /\ hand[c].pc = "read"
    /\ \/ journey.status = "ongoing" /\ ~journey.reminded
          /\ GotoHand(c, "create")
       \/ GotoHand(c, "finish")
    /\ UNCHANGED <<now, rowVars, markVars, queue, userVars, schedulerVars,
                   outVars, faults>>

AddTask(kind) == tasks' = [tasks EXCEPT ![kind] = @ + 1]

CreateReminder(c) ==
    /\ hand[c].pc = "create"
    /\ AddTask("remind")
    /\ GotoHand(c, "stamp")
    /\ UNCHANGED <<now, rowVars, markVars, queue, userVars, schedulerVars,
                   sms, faults>>

(* Broken variant: the error of the second write is returned. *)
MutStampReminder(c) ==
    /\ hand[c].pc = "stamp"
    /\ \/ /\ UpdateRow([journey EXCEPT !.reminded = TRUE])
          /\ GotoHand(c, "publish")
          /\ NoFault /\ UNCHANGED queue
       \/ Fault("db") /\ GiveBack(c, FALSE) /\ UNCHANGED journey
    /\ UNCHANGED <<now, autoNotify, markVars, userVars, schedulerVars, outVars>>

(* reminder_sent_at; an error is only logged.                              *)
StampReminder(c) ==
    /\ hand[c].pc = "stamp"
    /\ \/ UpdateRow([journey EXCEPT !.reminded = TRUE]) /\ NoFault
       \/ Fault("db") /\ UNCHANGED journey
    /\ GotoHand(c, "publish")
    /\ UNCHANGED <<now, autoNotify, markVars, queue, userVars,
                   schedulerVars, outVars>>

(* Broken variant: the status is not looked at. *)
MutTimedOut == now >= journey.due + Grace

TimedOut == journey.status = "ongoing" /\ now >= journey.due + Grace

(* ProcessTimeout up to the checks: the status, the threshold and whether  *)
(* the wallet pays for every contact.                                      *)
ReadForTimeout(c) ==
    /\ c \in TimeoutConsumers /\ hand[c].pc = "read"
    /\ \/ TimedOut /\ \E next \in {"alert", "refuse"} : GotoHand(c, next)
       \/ ~TimedOut /\ GotoHand(c, "finish")
    /\ UNCHANGED <<now, rowVars, markVars, queue, userVars, schedulerVars,
                   outVars, faults>>

(* Broken variant: alert_attempts is not counted. *)
MutCommitAlert(c) ==
    /\ hand[c].pc = "alert"
    /\ UpdateRow([journey EXCEPT !.status = "timeout", !.alert = "triggered"])
    /\ AddTask("timeout")
    /\ GotoHand(c, "publish")
    /\ UNCHANGED <<now, autoNotify, markVars, queue, userVars, schedulerVars,
                   sms, faults>>

(* The transaction: the UPDATE of the row and the tasks for the contacts,  *)
(* which it creates whether or not the UPDATE has found the row.           *)
CommitAlert(c) ==
    /\ hand[c].pc = "alert"
    /\ UpdateRow([journey EXCEPT !.status = "timeout", !.alert = "triggered",
                                 !.attempts = @ + 1])
    /\ AddTask("timeout")
    /\ GotoHand(c, "publish")
    /\ UNCHANGED <<now, autoNotify, markVars, queue, userVars,
                   schedulerVars, sms, faults>>

RefuseAlert(c) ==
    /\ hand[c].pc = "refuse"
    /\ UpdateRow([journey EXCEPT !.status = "timeout", !.alert = "failed"])
    /\ GotoHand(c, "finish")
    /\ UNCHANGED <<now, autoNotify, markVars, queue, userVars,
                   schedulerVars, outVars, faults>>

(* PublishSMSNotification for what was created; an error is only logged.   *)
PublishSMS(c) ==
    /\ hand[c].pc = "publish"
    /\ \/ sms' = [sms EXCEPT ![Kind(c)] = @ + 1] /\ NoFault
       \/ Fault("publish") /\ UNCHANGED sms
    /\ GotoHand(c, "finish")
    /\ UNCHANGED <<now, rowVars, markVars, queue, userVars, schedulerVars,
                   tasks>>

(* MarkMessageProcessed and Ack.                                           *)
Finish(c) ==
    /\ hand[c].pc = "finish"
    /\ hand' = [hand EXCEPT ![c] = Idle]
    /\ UNCHANGED <<now, rowVars, markVars, queue, userVars, schedulerVars,
                   outVars, faults>>

(* A database error: the mark is cleared and the message comes again.      *)
Retry(c) ==
    /\ hand[c].pc \in {"read", "create", "alert", "refuse"}
    /\ Fault("db")
    /\ GiveBack(c, FALSE)
    /\ UNCHANGED <<now, rowVars, markVars, userVars, schedulerVars, outVars>>

(* The worker dies: the message comes again, and its mark is still there.  *)
Crash(c) ==
    /\ hand[c].pc # "idle"
    /\ Fault("crash")
    /\ GiveBack(c, hand[c].marked)
    /\ UNCHANGED <<now, rowVars, markVars, userVars, schedulerVars, outVars>>

-----------------------------------------------------------------------------

(* Under Timely, time waits for the scan of the interval, for messages     *)
(* that are due and for requests.                                          *)
UpToDate ==
    /\ scanned /\ scan.pc = "idle"
    /\ \A r \in Requests : request[r].pc = "idle"
    /\ \A c \in Consumers : hand[c].pc = "idle"
    /\ \A m \in BagToSet(queue) : m.delay > 0

Tick ==
    /\ Timely => UpToDate
    /\ now' = IF now < Horizon THEN now + 1 ELSE now
    /\ scanned' = FALSE
    /\ overdue' = IF overdue = "done" THEN "idle" ELSE overdue
    /\ queue' = Aged(queue)
    /\ UNCHANGED <<rowVars, markVars, hand, userVars, scan, outVars, faults>>

Consume(c) ==
    \/ \E m \in BagToSet(queue) : Take(c, m)
    \/ ReadForReminder(c) \/ CreateReminder(c) \/ StampReminder(c)
    \/ ReadForTimeout(c) \/ CommitAlert(c) \/ RefuseAlert(c)
    \/ PublishSMS(c) \/ Finish(c) \/ Retry(c)

Answer(r) ==
    UpdateWrite(r) \/ UpdatePublish(r) \/ CompleteWrite(r) \/ DeleteWrite(r)

Serve(r) ==
    \/ \E due \in Lead..MaxDue : UpdateRead(r, due)
    \/ CompleteRead(r) \/ DeleteRead(r)
    \/ Answer(r) \/ RequestLost(r)

CheckOverdueJourneys == OverdueRead \/ OverduePublish

CheckJourneyTimeouts ==
    \/ ScanRead \/ ScanNothing \/ ScanRemind \/ ScanMarkRemind
    \/ ScanTimeout \/ ScanMarkTimeout

Schedule == CheckJourneyTimeouts \/ CheckOverdueJourneys \/ SchedulerStops

JourneyNext ==
    \/ Tick
    \/ Schedule
    \/ \E r \in Requests : Serve(r)
    \/ \E c \in Consumers : Consume(c) \/ Crash(c)

JourneySpec == JourneyInit /\ [][JourneyNext]_journeyVars

(* Time passes, the two loops of the scheduler and the consumers keep      *)
(* going, and a request that has begun is answered.                        *)
JourneyFairSpec ==
    /\ JourneySpec
    /\ WF_journeyVars(Tick)
    /\ WF_journeyVars(CheckJourneyTimeouts)
    /\ WF_journeyVars(CheckOverdueJourneys)
    /\ \A r \in Requests : WF_journeyVars(Answer(r))
    /\ \A c \in Consumers : WF_journeyVars(Consume(c))

-----------------------------------------------------------------------------

(* With one timeout consumer the contacts are alerted at most once,        *)
(* although CreateJourney, UpdateJourney, CheckJourneyTimeouts and         *)
(* CheckOverdueJourneys each publish messages of their own for one journey.*)
AlertedAtMostOnce == tasks["timeout"] <= 1 /\ sms["timeout"] <= 1

(* With one reminder consumer the user gets one reminder, whatever the     *)
(* scheduler publishes, and one more at most for each time that writing    *)
(* reminder_sent_at has failed.                                            *)
RemindedAtMostOnce == sms["remind"] <= 1 + faults["db"]

(* The scans, the requests and the retries that publish messages for one   *)
(* journey never add up to a second alert or a second reminder.            *)
NotifiedAtMostOnce == AlertedAtMostOnce /\ RemindedAtMostOnce

(* A deleted journey never changes again: not by a timeout or a completion *)
(* that has read it before.                                                *)
DeletedIsKept == journey.deleted => journey' = journey

(* Whoever read a journey before its user completed it may still alert the *)
(* contacts and overwrite the row, which does not check again; but nobody  *)
(* decides to afterwards, however many messages wait or come.  Once nobody *)
(* holds such a decision the user's word stands and no contact is alerted. *)
Over == journey.status \in {"ended", "cancelled"}
Decided == {c \in Consumers : hand[c].pc \in {"alert", "refuse"}}

CompletionStands ==
    Over => /\ Decided' \subseteq Decided
            /\ Decided = {} => Over' /\ tasks'["timeout"] = tasks["timeout"]

(* What the user has ended stays ended: a deleted journey as it is, and a  *)
(* completed one but for alerts that were decided before.                  *)
EndIsFinal == [][DeletedIsKept /\ CompletionStands]_journeyVars

(* Unless the user deleted the journey meanwhile, the row tells what the   *)
(* contacts have been told.                                                *)
AlertIsRecorded ==
    ~journey.deleted =>
        /\ journey.attempts = tasks["timeout"]
        /\ journey.attempts > 0 =>
              journey.status \in {"timeout", "ended"}
                 /\ journey.alert = "triggered"

(* A task row is created only to be published: what is left behind without *)
(* a message is the work of a crash or of a failed publish.                *)
Publishing(kind) ==
    {c \in Consumers : Kind(c) = kind /\ hand[c].pc \in {"stamp", "publish"}}

TasksArePublished ==
    \A k \in Kinds :
        tasks[k] <= sms[k] + Cardinality(Publishing(k))
                      + faults["crash"] + faults["publish"]

NothingFailed == \A kind \in DOMAIN faults : faults[kind] = 0

(* When nothing fails and everyone keeps up, the contacts are not alerted  *)
(* before the user's reminder has come, however the user moves the return  *)
(* time: a mark for an old time never suppresses a reminder that would be  *)
(* due earlier.                                                            *)
RemindedBeforeAlert ==
    Timely /\ NothingFailed /\ tasks["timeout"] > 0 =>
        remindMark /\ \A m \in BagToSet(queue) : m.kind # "remind"

(* An overdue journey does not stay ongoing: messages that came too early, *)
(* were skipped or were lost are made up for.                              *)
IsOverdue == Listed /\ now > journey.due + Grace
OverdueIsHandled == IsOverdue ~> ~IsOverdue

(* "This makes sure that the timeout check is triggered only ten minutes   *)
(* after the expected return time" (the comment in CheckJourneyTimeouts on *)
(* its delayed messages).                                                  *)
TimeoutCheckIsNotEarly ==
    \A c \in TimeoutConsumers :
        hand[c].pc = "read" => now >= journey.due + Grace

=============================================================================
