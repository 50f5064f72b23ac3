---------------------------- MODULE JourneyProofs ----------------------------
(***************************************************************************)
(* What Journey's runs check on small instances, for any number of         *)
(* consumers, requests and instants: the types, the tasks that are         *)
(* published, and that what the user has ended stays ended; and, for the   *)
(* one goroutine that consumes each queue, one alert, one reminder, and a  *)
(* row that tells of them.                                                 *)
(***************************************************************************)
EXTENDS Journey, Counting, DelayedQueueProofs

-----------------------------------------------------------------------------
(* Which actions change what                                               *)

(* Who writes the row: three writes of the requests, three of the          *)
(* consumers.                                                              *)
LEMMA RowChanges ==
    ASSUME [JourneyNext]_journeyVars
    PROVE  \/ UNCHANGED journey
           \/ \E r \in Requests :
                 UpdateWrite(r) \/ CompleteWrite(r) \/ DeleteWrite(r)
           \/ \E c \in Consumers :
                 StampReminder(c) \/ CommitAlert(c) \/ RefuseAlert(c)
<1>1. CASE UNCHANGED journeyVars \/ Tick
  BY <1>1 DEF journeyVars, rowVars, Tick
<1>2. CASE Schedule
  BY <1>2 DEF rowVars, Schedule, CheckJourneyTimeouts, CheckOverdueJourneys,
     ScanRead, ScanNothing, ScanRemind, ScanMarkRemind, ScanTimeout,
     ScanMarkTimeout, OverdueRead, OverduePublish, SchedulerStops
<1>3. ASSUME NEW r \in Requests, Serve(r)
      PROVE  \/ UNCHANGED journey
             \/ UpdateWrite(r) \/ CompleteWrite(r) \/ DeleteWrite(r)
  BY <1>3 DEF rowVars, Serve, Answer, UpdateRead, CompleteRead, DeleteRead,
     Begin, UpdatePublish, RequestLost
<1>4. ASSUME NEW c \in Consumers, Consume(c) \/ Crash(c)
      PROVE  \/ UNCHANGED journey
             \/ StampReminder(c) \/ CommitAlert(c) \/ RefuseAlert(c)
  BY <1>4 DEF rowVars, Consume, Take, ReadForReminder, CreateReminder,
     ReadForTimeout, PublishSMS, Finish, Retry, Crash
<1>. QED  BY <1>1, <1>2, <1>3, <1>4 DEF JourneyNext

(* A deleted journey never changes again: every write is an UPDATE that    *)
(* does not find the row.                                                  *)
LEMMA DeletedStays == [JourneyNext]_journeyVars => DeletedIsKept
  BY RowChanges DEF DeletedIsKept, UpdateWrite, CompleteWrite, DeleteWrite,
     StampReminder, CommitAlert, RefuseAlert, UpdateRow, journeyVars, rowVars

(* The consumers alone change what is in their hands and what went out.    *)
LEMMA HandChanges ==
    ASSUME [JourneyNext]_journeyVars
    PROVE  \/ UNCHANGED <<hand, tasks, sms>>
           \/ \E c \in Consumers : Consume(c) \/ Crash(c)
<1>1. CASE UNCHANGED journeyVars \/ Tick
  BY <1>1 DEF journeyVars, outVars, Tick
<1>2. CASE Schedule
  BY <1>2 DEF outVars, Schedule, CheckJourneyTimeouts, CheckOverdueJourneys,
     ScanRead, ScanNothing, ScanRemind, ScanMarkRemind, ScanTimeout,
     ScanMarkTimeout, OverdueRead, OverduePublish, SchedulerStops
<1>3. ASSUME NEW r \in Requests, Serve(r)
      PROVE  UNCHANGED <<hand, tasks, sms>>
  BY <1>3 DEF outVars, Serve, Answer, UpdateRead, CompleteRead, DeleteRead,
     Begin, UpdateWrite, UpdatePublish, CompleteWrite, DeleteWrite, RequestLost
<1>. QED  BY <1>1, <1>2, <1>3 DEF JourneyNext

(* A step fails in one way at most.                                        *)
LEMMA FaultChanges ==
    ASSUME [JourneyNext]_journeyVars
    PROVE  NoFault \/ \E kind \in FaultKinds : Fault(kind)
<1>1. CASE UNCHANGED journeyVars \/ Tick
  BY <1>1 DEF journeyVars, NoFault, Tick
<1>2. CASE Schedule
  <2>1. \A kind : Fault(kind) => kind \in FaultKinds
    BY DEF Fault
  <2>. QED  BY <1>2, <2>1 DEF NoFault, Schedule, CheckJourneyTimeouts,
       CheckOverdueJourneys, ScanRead, ScanNothing, ScanRemind,
       ScanMarkRemind, ScanTimeout, ScanMarkTimeout, OverdueRead,
       OverduePublish, SchedulerStops
<1>3. ASSUME NEW r \in Requests, Serve(r)
      PROVE  NoFault \/ \E kind \in FaultKinds : Fault(kind)
  <2>1. \A kind : Fault(kind) => kind \in FaultKinds
    BY DEF Fault
  <2>. QED  BY <1>3, <2>1 DEF NoFault, Serve, Answer, UpdateRead,
       CompleteRead, DeleteRead, Begin, UpdateWrite, UpdatePublish,
       CompleteWrite, DeleteWrite, RequestLost
<1>4. ASSUME NEW c \in Consumers, Consume(c) \/ Crash(c)
      PROVE  NoFault \/ \E kind \in FaultKinds : Fault(kind)
  <2>1. \A kind : Fault(kind) => kind \in FaultKinds
    BY DEF Fault
  <2>. QED  BY <1>4, <2>1 DEF NoFault, Consume, Take, ReadForReminder,
       CreateReminder, StampReminder, ReadForTimeout, CommitAlert,
       RefuseAlert, PublishSMS, Finish, Retry, Crash
<1>. QED  BY <1>1, <1>2, <1>3, <1>4 DEF JourneyNext

-----------------------------------------------------------------------------
(* Types                                                                   *)

Messages == [kind : Kinds, delay : Nat, marked : BOOLEAN]
Rows == [status : {"ongoing", "ended", "timeout", "cancelled"},
         deleted : BOOLEAN, due : Lead..MaxDue, reminded : BOOLEAN,
         attempts : Nat, alert : {"pending", "triggered", "failed"}]
Hands == [pc : {"idle", "read", "alert", "refuse", "create", "stamp",
                "publish", "finish"}, marked : BOOLEAN]
RequestStates == [pc : {"idle", "update", "publish", "complete", "delete"},
                  time : Nat]

QueueTyped ==
    /\ IsABag(queue)
    /\ BagToSet(queue) \subseteq Messages
    /\ \A m \in BagToSet(queue) : m.marked => m.delay = 0

(* A consumer is where the handler of its queue can be.                    *)
HandTyped ==
    /\ hand \in [Consumers -> Hands]
    /\ \A c \in Consumers :
          /\ hand[c].pc \in {"alert", "refuse"} => c \in TimeoutConsumers
          /\ hand[c].pc \in {"create", "stamp"} => c \in RemindConsumers

(* The time an UpdateJourney has accepted is one a row may have.           *)
RequestTyped ==
    /\ request \in [Requests -> RequestStates]
    /\ \A r \in Requests :
          request[r].pc = "update" => request[r].time \in Lead..MaxDue
    /\ requests \in 0..MaxRequests

SchedulerTyped ==
    /\ scan \in [pc : {"idle", "remind", "markRemind", "timeout",
                       "markTimeout"},
                 delay : Nat, reminded : BOOLEAN]
    /\ scanned \in BOOLEAN
    /\ overdue \in {"idle", "publish", "done"}
    /\ remindMark \in BOOLEAN /\ timeoutMark \in BOOLEAN

CountsTyped ==
    /\ tasks \in [Kinds -> Nat] /\ sms \in [Kinds -> Nat]
    /\ faults \in [{"crash", "db", "redis", "publish"} -> Nat]

RowTyped == journey \in Rows /\ autoNotify \in BOOLEAN /\ now \in 0..Horizon

Typed == /\ RowTyped /\ QueueTyped /\ HandTyped /\ RequestTyped
         /\ SchedulerTyped /\ CountsTyped

(* The constants are numbers, and the bounds leave room for an alert.      *)
LEMMA Constants ==
    /\ Grace \in Nat /\ Truncation \in Nat /\ Lead \in Nat /\ Window \in Nat
    /\ MaxDelay \in Nat /\ MaxDue \in Nat /\ Horizon \in Nat
    /\ MaxRequests \in Nat
    /\ Truncation <= Grace /\ Lead <= MaxDue /\ MaxDue + Grace < Horizon
  BY JourneyAssumption

(* A consumer reads one of the two queues.                                 *)
LEMMA KindIs == \A c : /\ Kind(c) \in Kinds
                       /\ c \in RemindConsumers => Kind(c) = "remind"
                       /\ c \in TimeoutConsumers => Kind(c) = "timeout"
  BY JourneyAssumption DEF Kind, Kinds

(* The writes keep the row's types, and time its bound.                    *)
LEMMA RowStep == ASSUME Typed, [JourneyNext]_journeyVars PROVE RowTyped'
<1>. USE Constants DEF Typed, RowTyped
<1>1. journey' \in Rows
  <2>1. \A row \in Rows : UpdateRow(row) => journey' \in Rows
    BY DEF UpdateRow
  <2>2. ASSUME NEW r \in Requests, UpdateWrite(r)
        PROVE  journey' \in Rows
    <3>1. [journey EXCEPT !.due = request[r].time] \in Rows
      BY <2>2 DEF UpdateWrite, RequestTyped, Rows
    <3>. QED  BY <2>1, <2>2, <3>1 DEF UpdateWrite
  <2>3. ASSUME NEW r \in Requests, CompleteWrite(r) \/ DeleteWrite(r)
        PROVE  journey' \in Rows
    <3>1. [journey EXCEPT !.status = "ended"] \in Rows
      BY DEF Rows
    <3>2. [journey EXCEPT !.status = "cancelled", !.deleted = TRUE] \in Rows
      BY DEF Rows
    <3>. QED  BY <2>1, <2>3, <3>1, <3>2 DEF CompleteWrite, DeleteWrite
  <2>4. ASSUME NEW c \in Consumers,
               StampReminder(c) \/ CommitAlert(c) \/ RefuseAlert(c)
        PROVE  journey' \in Rows
    <3>1. [journey EXCEPT !.reminded = TRUE] \in Rows
      BY DEF Rows
    <3>2. [journey EXCEPT !.status = "timeout", !.alert = "failed"] \in Rows
      BY DEF Rows
    <3>3. [journey EXCEPT !.status = "timeout", !.alert = "triggered",
                          !.attempts = @ + 1] \in Rows
      <4>1. \A n \in Nat : [journey EXCEPT !.status = "timeout",
                             !.alert = "triggered", !.attempts = n] \in Rows
        BY DEF Rows
      <4>2. journey.attempts + 1 \in Nat
        BY DEF Rows
      <4>. QED  BY <4>1, <4>2
    <3>. QED  BY <2>1, <2>4, <3>1, <3>2, <3>3
              DEF StampReminder, CommitAlert, RefuseAlert
  <2>. QED  BY RowChanges, <2>2, <2>3, <2>4
<1>2. now' \in 0..Horizon /\ autoNotify' \in BOOLEAN
  <2>1. CASE UNCHANGED journeyVars \/ Tick
    BY <2>1 DEF journeyVars, rowVars, Tick
  <2>2. CASE Schedule
    BY <2>2 DEF rowVars, Schedule, CheckJourneyTimeouts, CheckOverdueJourneys,
       ScanRead, ScanNothing, ScanRemind, ScanMarkRemind, ScanTimeout,
       ScanMarkTimeout, OverdueRead, OverduePublish, SchedulerStops
  <2>3. ASSUME NEW r \in Requests, Serve(r)
        PROVE  now' \in 0..Horizon /\ autoNotify' \in BOOLEAN
    BY <2>3 DEF rowVars, Serve, Answer, UpdateRead, CompleteRead, DeleteRead,
       Begin, UpdateWrite, UpdatePublish, CompleteWrite, DeleteWrite,
       RequestLost
  <2>4. ASSUME NEW c \in Consumers, Consume(c) \/ Crash(c)
        PROVE  now' \in 0..Horizon /\ autoNotify' \in BOOLEAN
    BY <2>4 DEF rowVars, Consume, Take, ReadForReminder, CreateReminder,
       StampReminder, ReadForTimeout, CommitAlert, RefuseAlert, PublishSMS,
       Finish, Retry, Crash
  <2>. QED  BY <2>1, <2>2, <2>3, <2>4 DEF JourneyNext
<1>. QED  BY <1>1, <1>2

(* The messages that are published wait for some instants, unmarked.       *)
LEMMA PostTyped ==
    ASSUME QueueTyped, NEW kind \in Kinds, NEW delay \in Nat, Post(kind, delay)
    PROVE  QueueTyped'
<1>. PICK cut \in 0..Truncation :
        cut <= delay /\ queue' = With(queue, Message(kind, delay - cut, FALSE))
  BY DEF Post
<1>1. delay - cut \in Nat
  BY Constants
<1>2. Message(kind, delay - cut, FALSE) \in Messages
      /\ ~Message(kind, delay - cut, FALSE).marked
  BY <1>1 DEF Message, Messages
<1>. DEFINE m == Message(kind, delay - cut, FALSE)
<1>3. IsABag(queue') /\ BagToSet(queue') = BagToSet(queue) \cup {m}
  BY WithIsABag DEF QueueTyped
<1>. QED  BY <1>2, <1>3 DEF QueueTyped

(* A message that comes again is due.                                      *)
LEMMA GivenBackTyped ==
    ASSUME QueueTyped, NEW c, NEW marked \in BOOLEAN, GiveBack(c, marked)
    PROVE  QueueTyped'
<1>1. Message(Kind(c), 0, marked) \in Messages
      /\ Message(Kind(c), 0, marked).delay = 0
  BY KindIs DEF Message, Messages
<1>. QED  BY <1>1, WithIsABag DEF QueueTyped, GiveBack

(* Messages have a delay, which comes down to 0 and stays there.           *)
LEMMA SoonerTyped ==
    ASSUME NEW m \in Messages
    PROVE  /\ Sooner(m) \in Messages
           /\ Sooner(m).kind = m.kind /\ Sooner(m).marked = m.marked
           /\ m.delay = 0 => Sooner(m) = m
           /\ m.delay > 0 =>
                 Sooner(m).delay = m.delay - 1 /\ Later(Sooner(m)) = m
<1>1. CASE m.delay = 0
  BY <1>1 DEF Messages, Sooner
<1>2. CASE m.delay > 0
  <2>1. /\ Sooner(m) \in Messages /\ Sooner(m).delay = m.delay - 1
        /\ Sooner(m).kind = m.kind /\ Sooner(m).marked = m.marked
    BY <1>2 DEF Sooner, Messages
  <2>2. /\ Later(Sooner(m)) \in Messages /\ Later(Sooner(m)).delay = m.delay
        /\ Later(Sooner(m)).kind = m.kind
        /\ Later(Sooner(m)).marked = m.marked
    BY <2>1 DEF Later, Messages
  <2>3. \A n \in Messages :
           n.kind = m.kind /\ n.marked = m.marked /\ n.delay = m.delay => n = m
    BY DEF Messages
  <2>4. Later(Sooner(m)) = m
    BY <2>2, <2>3
  <2>. QED  BY <1>2, <2>1, <2>4
<1>. QED  BY <1>1, <1>2 DEF Messages

(* Time passes for the queue, and it stays a bag of messages.              *)
LEMMA TickTyped ==
    ASSUME QueueTyped, queue' = Aged(queue)
    PROVE  /\ QueueTyped'
           /\ BagToSet(queue)' = {Sooner(m) : m \in BagToSet(queue)}
<1>1. \A m \in BagToSet(queue) :
         (m.delay = 0 /\ Sooner(m) = m) \/ Later(Sooner(m)) = m
  BY SoonerTyped DEF QueueTyped, Messages
<1>2. /\ IsABag(queue')
      /\ BagToSet(queue') = {Sooner(m) : m \in BagToSet(queue)}
  BY <1>1, AgedIsABag DEF QueueTyped
<1>3. \A m \in BagToSet(queue) :
         /\ Sooner(m) \in Messages
         /\ Sooner(m).marked => Sooner(m).delay = 0
  BY SoonerTyped DEF QueueTyped
<1>. QED  BY <1>2, <1>3 DEF QueueTyped

(* Whoever publishes, takes or gives back keeps the queue's types.         *)
LEMMA QueueStep == ASSUME Typed, [JourneyNext]_journeyVars PROVE QueueTyped'
<1>. USE DEF Typed
<1>0. (queue' = queue) => QueueTyped'
  BY DEF QueueTyped
<1>1. CASE UNCHANGED journeyVars
  BY <1>0, <1>1 DEF journeyVars
<1>2. CASE Tick
  BY <1>2, TickTyped DEF Tick
<1>3. CASE Schedule
  <2>1. CASE ScanRead \/ ScanNothing \/ ScanMarkRemind \/ ScanMarkTimeout
             \/ OverdueRead \/ SchedulerStops
    BY <2>1, <1>0 DEF ScanRead, ScanNothing, ScanMarkRemind, ScanMarkTimeout,
       OverdueRead, SchedulerStops
  <2>2. scan.delay \in Nat /\ scan.delay + Grace \in Nat
    BY Constants DEF SchedulerTyped
  <2>3. CASE ScanRemind
    BY <2>3, <1>0, <2>2, PostTyped DEF ScanRemind, Kinds
  <2>4. CASE ScanTimeout
    BY <2>4, <1>0, <2>2, PostTyped DEF ScanTimeout, Kinds
  <2>5. CASE OverduePublish
    BY <2>5, <1>0, PostTyped DEF OverduePublish, Kinds
  <2>. QED  BY <1>3, <2>1, <2>3, <2>4, <2>5
            DEF Schedule, CheckJourneyTimeouts, CheckOverdueJourneys
<1>4. ASSUME NEW r \in Requests, Serve(r) PROVE QueueTyped'
  <2>1. CASE UpdatePublish(r)
    <3>1. request[r].time \in Nat
      BY DEF RequestTyped, RequestStates
    <3>. QED  BY <2>1, <3>1, <1>0, PostTyped DEF UpdatePublish, Kinds
  <2>. QED  BY <1>0, <1>4, <2>1 DEF Serve, Answer, UpdateRead, CompleteRead,
       DeleteRead, Begin, UpdateWrite, CompleteWrite, DeleteWrite, RequestLost
<1>5. ASSUME NEW c \in Consumers, Consume(c) \/ Crash(c) PROVE QueueTyped'
  <2>1. ASSUME NEW m \in BagToSet(queue), Take(c, m) PROVE QueueTyped'
    BY <2>1, WithoutIsABag DEF QueueTyped, Take
  <2>2. hand[c].marked \in BOOLEAN
    BY DEF HandTyped, Hands
  <2>3. CASE Retry(c) \/ Crash(c)
    BY <2>2, <2>3, GivenBackTyped DEF Retry, Crash
  <2>. QED  BY <1>0, <1>5, <2>1, <2>3 DEF Consume, ReadForReminder,
       CreateReminder, StampReminder, ReadForTimeout, CommitAlert,
       RefuseAlert, PublishSMS, Finish
<1>. QED  BY <1>1, <1>2, <1>3, <1>4, <1>5 DEF JourneyNext

(* The consumers follow the handler of their queue.                        *)
LEMMA HandStep == ASSUME Typed, [JourneyNext]_journeyVars PROVE HandTyped'
<1>. USE DEF Typed
<1>1. CASE UNCHANGED <<hand, tasks, sms>>
  BY <1>1 DEF HandTyped
<1>2. ASSUME NEW c \in Consumers, Consume(c) \/ Crash(c) PROVE HandTyped'
  <2>1. ASSUME NEW h \in Hands, hand' = [hand EXCEPT ![c] = h],
               h.pc \in {"alert", "refuse"} => c \in TimeoutConsumers,
               h.pc \in {"create", "stamp"} => c \in RemindConsumers
        PROVE  HandTyped'
    BY <2>1 DEF HandTyped
  <2>2. Idle \in Hands /\ Idle.pc = "idle"
    BY DEF Idle, Hands
  <2>3. CASE Retry(c) \/ Crash(c) \/ Finish(c)
    BY <2>3, <2>1, <2>2 DEF Retry, Crash, Finish, GiveBack
  <2>4. ASSUME NEW m \in BagToSet(queue), Take(c, m) PROVE HandTyped'
    <3>1. m.marked \in BOOLEAN
      BY DEF QueueTyped, Messages
    <3>2. \A b \in BOOLEAN : /\ [pc |-> "read", marked |-> b] \in Hands
                             /\ [pc |-> "read", marked |-> b].pc = "read"
      BY DEF Hands
    <3>3. CASE UNCHANGED hand
      BY <3>3 DEF HandTyped
    <3>4. ASSUME NEW b \in BOOLEAN,
                 hand' = [hand EXCEPT ![c] = [pc |-> "read", marked |-> b]]
          PROVE  HandTyped'
      BY <3>2, <3>4, <2>1
    <3>. QED  BY <2>4, <3>1, <3>3, <3>4 DEF Take
  <2>5. ASSUME NEW pc \in {"create", "finish", "stamp", "publish", "alert",
                           "refuse"},
               GotoHand(c, pc),
               pc \in {"alert", "refuse"} => c \in TimeoutConsumers,
               pc \in {"create", "stamp"} => c \in RemindConsumers
        PROVE  HandTyped'
    <3>1. [hand[c] EXCEPT !.pc = pc] \in Hands
          /\ [hand[c] EXCEPT !.pc = pc].pc = pc
      BY DEF HandTyped, Hands
    <3>2. hand' = [hand EXCEPT ![c] = [hand[c] EXCEPT !.pc = pc]]
      BY <2>5 DEF GotoHand, HandTyped
    <3>. QED  BY <2>1, <2>5, <3>1, <3>2
  <2>6. CASE ReadForReminder(c)
    BY <2>5, <2>6 DEF ReadForReminder
  <2>7. CASE CreateReminder(c)
    BY <2>5, <2>7 DEF CreateReminder, HandTyped
  <2>8. CASE ReadForTimeout(c)
    BY <2>5, <2>8 DEF ReadForTimeout
  <2>9. CASE StampReminder(c) \/ CommitAlert(c) \/ RefuseAlert(c)
             \/ PublishSMS(c)
    BY <2>5, <2>9 DEF StampReminder, CommitAlert, RefuseAlert, PublishSMS
  <2>. QED  BY <1>2, <2>3, <2>4, <2>6, <2>7, <2>8, <2>9 DEF Consume
<1>. QED  BY <1>1, <1>2, HandChanges

(* The requests write times that a row may have.                           *)
LEMMA RequestStep == ASSUME Typed, [JourneyNext]_journeyVars PROVE RequestTyped'
<1>. USE DEF Typed
<1>0. UNCHANGED <<request, requests>> => RequestTyped'
  BY DEF RequestTyped
<1>1. CASE UNCHANGED journeyVars \/ Tick
  BY <1>0, <1>1 DEF journeyVars, userVars, Tick
<1>2. CASE Schedule
  BY <1>0, <1>2 DEF userVars, Schedule, CheckJourneyTimeouts,
     CheckOverdueJourneys, ScanRead, ScanNothing, ScanRemind, ScanMarkRemind,
     ScanTimeout, ScanMarkTimeout, OverdueRead, OverduePublish, SchedulerStops
<1>3. ASSUME NEW c \in Consumers, Consume(c) \/ Crash(c) PROVE RequestTyped'
  BY <1>0, <1>3 DEF userVars, Consume, Take, ReadForReminder, CreateReminder,
     StampReminder, ReadForTimeout, CommitAlert, RefuseAlert, PublishSMS,
     Finish, Retry, Crash
<1>4. ASSUME NEW r \in Requests, Serve(r) PROVE RequestTyped'
  <2>1. ASSUME NEW pc \in {"idle", "update", "publish", "complete", "delete"},
               NEW time \in Nat, GotoRequest(r, pc, time),
               pc = "update" => time \in Lead..MaxDue,
               requests' \in 0..MaxRequests
        PROVE  RequestTyped'
    <3>1. [pc |-> pc, time |-> time] \in RequestStates
      BY DEF RequestStates
    <3>. QED  BY <2>1, <3>1 DEF RequestTyped, GotoRequest
  <2>2. requests \in 0..MaxRequests
    BY DEF RequestTyped
  <2>3. ASSUME NEW pc, NEW time, Begin(r, pc, time)
        PROVE  GotoRequest(r, pc, time) /\ requests' \in 0..MaxRequests
    BY <2>2, <2>3, Constants DEF Begin
  <2>4. ASSUME NEW due \in Lead..MaxDue, UpdateRead(r, due)
        PROVE  RequestTyped'
    <3>1. due \in Nat
      BY Constants
    <3>. QED  BY <2>1, <2>3, <2>4, <3>1 DEF UpdateRead
  <2>5. CASE CompleteRead(r) \/ DeleteRead(r)
    BY <2>1, <2>3, <2>5 DEF CompleteRead, DeleteRead
  <2>6. CASE UpdateWrite(r)
    <3>. DEFINE delay == journey'.due + Grace - now
    <3>1. delay \in 1..MaxDelay => delay \in Nat
      BY Constants
    <3>2. \/ GotoRequest(r, "publish", delay) /\ delay \in 1..MaxDelay
          \/ GotoRequest(r, "idle", 0)
      BY <2>6 DEF UpdateWrite
    <3>3. requests' \in 0..MaxRequests
      BY <2>2, <2>6 DEF UpdateWrite
    <3>. HIDE DEF delay
    <3>. QED  BY <2>1, <3>1, <3>2, <3>3
  <2>7. CASE UpdatePublish(r) \/ CompleteWrite(r) \/ DeleteWrite(r)
             \/ RequestLost(r)
    BY <2>1, <2>2, <2>7 DEF UpdatePublish, CompleteWrite, DeleteWrite,
       RequestLost
  <2>. QED  BY <1>4, <2>4, <2>5, <2>6, <2>7 DEF Serve, Answer
<1>. QED  BY <1>1, <1>2, <1>3, <1>4 DEF JourneyNext

(* The scans and their marks: a delay is never negative, because the       *)
(* scan has a lower bound.                                                 *)
LEMMA SchedulerStep ==
    ASSUME Typed, [JourneyNext]_journeyVars PROVE SchedulerTyped'
<1>. USE DEF Typed
<1>0. UNCHANGED <<scan, scanned, overdue, remindMark, timeoutMark>>
         => SchedulerTyped'
  BY DEF SchedulerTyped
<1>1. CASE UNCHANGED journeyVars
  BY <1>0, <1>1 DEF journeyVars, schedulerVars, markVars
<1>2. CASE Tick
  BY <1>2 DEF Tick, markVars, SchedulerTyped
<1>3. CASE Schedule
  <2>. DEFINE Scans == [pc : {"idle", "remind", "markRemind", "timeout",
                              "markTimeout"},
                        delay : Nat, reminded : BOOLEAN]
  <2>1. NoScan \in Scans
    BY DEF NoScan
  <2>2. ASSUME NEW pc \in {"idle", "remind", "markRemind", "timeout",
                           "markTimeout"}, GotoScan(pc)
        PROVE  scan' \in Scans
    BY <2>2 DEF GotoScan, SchedulerTyped
  <2>3. CASE ScanRead
    <3>1. journey.due - now \in Nat
      BY <2>3, Constants DEF ScanRead, Approaching, RowTyped, Rows
    <3>2. journey.reminded \in BOOLEAN
      BY DEF RowTyped, Rows
    <3>3. scan' \in Scans
      BY <2>3, <3>1, <3>2 DEF ScanRead
    <3>. QED  BY <2>3, <3>3 DEF ScanRead, SchedulerTyped, markVars
  <2>4. CASE ScanNothing
    BY <2>4 DEF ScanNothing, SchedulerTyped, markVars
  <2>5. CASE ScanRemind
    <3>1. scan' \in Scans
      BY <2>2, <2>5 DEF ScanRemind
    <3>. QED  BY <2>5, <3>1 DEF ScanRemind, SchedulerTyped, markVars
  <2>6. CASE ScanMarkRemind
    <3>1. scan' \in Scans
      BY <2>2, <2>6 DEF ScanMarkRemind
    <3>. QED  BY <2>6, <3>1 DEF ScanMarkRemind, SchedulerTyped
  <2>7. CASE ScanTimeout
    <3>1. scan' \in Scans
      BY <2>1, <2>2, <2>7 DEF ScanTimeout
    <3>. QED  BY <2>7, <3>1 DEF ScanTimeout, SchedulerTyped, markVars
  <2>8. CASE ScanMarkTimeout
    BY <2>1, <2>8 DEF ScanMarkTimeout, SchedulerTyped
  <2>9. CASE OverdueRead \/ OverduePublish
    BY <2>9 DEF OverdueRead, OverduePublish, SchedulerTyped, markVars
  <2>10. CASE SchedulerStops
    BY <2>1, <2>10 DEF SchedulerStops, SchedulerTyped, markVars
  <2>. QED  BY <1>3, <2>3, <2>4, <2>5, <2>6, <2>7, <2>8, <2>9, <2>10
            DEF Schedule, CheckJourneyTimeouts, CheckOverdueJourneys
<1>4. ASSUME NEW r \in Requests, Serve(r) PROVE SchedulerTyped'
  BY <1>0, <1>4 DEF schedulerVars, markVars, Serve, Answer, UpdateRead,
     CompleteRead, DeleteRead, Begin, UpdateWrite, UpdatePublish,
     CompleteWrite, DeleteWrite, RequestLost
<1>5. ASSUME NEW c \in Consumers, Consume(c) \/ Crash(c) PROVE SchedulerTyped'
  BY <1>0, <1>5 DEF schedulerVars, markVars, Consume, Take, ReadForReminder,
     CreateReminder, StampReminder, ReadForTimeout, CommitAlert, RefuseAlert,
     PublishSMS, Finish, Retry, Crash
<1>. QED  BY <1>1, <1>2, <1>3, <1>4, <1>5 DEF JourneyNext

(* A failure is counted, and none is forgotten.                            *)
LEMMA FaultCounted ==
    ASSUME CountsTyped, NEW kind, Fault(kind)
    PROVE  /\ faults' \in [{"crash", "db", "redis", "publish"} -> Nat]
           /\ kind \in DOMAIN faults
           /\ faults'[kind] = faults[kind] + 1
           /\ \A k \in DOMAIN faults : k # kind => faults'[k] = faults[k]
<1>1. kind \in {"crash", "db", "redis", "publish"}
  BY JourneyAssumption DEF Fault
<1>. QED  BY <1>1 DEF CountsTyped, Fault

(* The counts of failures only grow.                                       *)
LEMMA FaultsGrow ==
    ASSUME CountsTyped, [JourneyNext]_journeyVars
    PROVE  /\ faults' \in [{"crash", "db", "redis", "publish"} -> Nat]
           /\ \A k \in {"crash", "db", "redis", "publish"} :
                 faults'[k] >= faults[k]
<1>1. CASE NoFault
  BY <1>1 DEF NoFault, CountsTyped
<1>2. ASSUME NEW kind, Fault(kind)
      PROVE  /\ faults' \in [{"crash", "db", "redis", "publish"} -> Nat]
             /\ \A k \in {"crash", "db", "redis", "publish"} :
                   faults'[k] >= faults[k]
  BY <1>2, FaultCounted DEF CountsTyped
<1>. QED  BY <1>1, <1>2, FaultChanges

(* Tasks, messages and failures are counted.                               *)
LEMMA CountsStep == ASSUME Typed, [JourneyNext]_journeyVars PROVE CountsTyped'
<1>. USE DEF Typed
<1>1. UNCHANGED <<tasks, sms>> => CountsTyped'
  BY FaultsGrow DEF CountsTyped
<1>2. ASSUME NEW c \in Consumers, Consume(c) \/ Crash(c) PROVE CountsTyped'
  <2>1. Kind(c) \in Kinds /\ "remind" \in Kinds /\ "timeout" \in Kinds
    BY KindIs DEF Kinds
  <2>2. CASE CreateReminder(c) \/ CommitAlert(c)
    <3>1. tasks' \in [Kinds -> Nat] /\ UNCHANGED sms
      BY <2>1, <2>2 DEF CreateReminder, CommitAlert, AddTask, CountsTyped
    <3>. QED  BY <3>1, FaultsGrow DEF CountsTyped
  <2>3. CASE PublishSMS(c)
    <3>1. sms' \in [Kinds -> Nat] /\ UNCHANGED tasks
      BY <2>1, <2>3 DEF PublishSMS, CountsTyped
    <3>. QED  BY <3>1, FaultsGrow DEF CountsTyped
  <2>. QED  BY <1>1, <1>2, <2>2, <2>3 DEF outVars, Consume, Take,
       ReadForReminder, StampReminder, ReadForTimeout, RefuseAlert, Finish,
       Retry, Crash
<1>. QED  BY <1>1, <1>2, HandChanges

(* The states CreateJourney leaves have these types.                       *)
LEMMA TypedInit == JourneyInit => Typed
<1>. SUFFICES ASSUME JourneyInit PROVE Typed
  OBVIOUS
<1>. USE Constants DEF JourneyInit
<1>1. PICK due \in Lead..MaxDue :
         /\ journey = [status |-> "ongoing", deleted |-> FALSE, due |-> due,
                       reminded |-> FALSE, attempts |-> 0,
                       alert |-> "pending"]
         /\ \/ queue = EmptyBag
            \/ /\ autoNotify /\ due + Grace <= MaxDelay
               /\ \E cut \in 0..Truncation :
                     queue = SetToBag({Message("timeout", due + Grace - cut,
                                               FALSE)})
  OBVIOUS
<1>2. RowTyped
  BY <1>1 DEF RowTyped, Rows
<1>3. QueueTyped
  <2>1. CASE queue = EmptyBag
    BY <2>1, NoneIsABag DEF QueueTyped
  <2>2. ASSUME NEW cut \in 0..Truncation,
               queue = SetToBag({Message("timeout", due + Grace - cut, FALSE)})
        PROVE  QueueTyped
    <3>. DEFINE m == Message("timeout", due + Grace - cut, FALSE)
    <3>1. due + Grace - cut \in Nat
      OBVIOUS
    <3>2. m \in Messages /\ ~m.marked
      BY <3>1 DEF Message, Messages, Kinds
    <3>3. IsABag(queue) /\ BagToSet(queue) = {m}
      BY <2>2, OneIsABag
    <3>. QED  BY <3>2, <3>3 DEF QueueTyped
  <2>. QED  BY <1>1, <2>1, <2>2
<1>4. HandTyped
  BY DEF HandTyped, Hands, Idle
<1>5. RequestTyped
  BY DEF RequestTyped, RequestStates, NoRequest
<1>6. SchedulerTyped
  BY DEF SchedulerTyped, NoScan
<1>7. CountsTyped
  BY DEF CountsTyped
<1>. QED  BY <1>2, <1>3, <1>4, <1>5, <1>6, <1>7 DEF Typed

(* The types, for any number of consumers, requests and instants.          *)
THEOREM JourneyTyped == JourneySpec => []Typed
<1>1. Typed /\ [JourneyNext]_journeyVars => Typed'
  BY RowStep, QueueStep, HandStep, RequestStep, SchedulerStep, CountsStep
     DEF Typed
<1>. QED  BY <1>1, TypedInit, PTL DEF JourneySpec

(* Type correctness, the queues of messages included.                      *)
THEOREM JourneyTypeCorrect == JourneySpec => []JourneyTypeOK
<1>1. Typed => JourneyTypeOK
  BY DEF Typed, RowTyped, QueueTyped, HandTyped, RequestTyped, SchedulerTyped,
     CountsTyped, JourneyTypeOK, Rows, Messages, Hands, RequestStates
<1>. QED  BY <1>1, JourneyTyped, PTL

-----------------------------------------------------------------------------
(* Tasks and their messages                                                *)

(* A consumer has created a task whose message is not published yet.       *)
Owes(h) == IF h.pc \in {"stamp", "publish"} THEN 1 ELSE 0

(* A step of one consumer leaves the others where they are.                *)
LEMMA OneHandMoves ==
    ASSUME Typed, NEW c \in Consumers, Consume(c) \/ Crash(c)
    PROVE  \A d \in Consumers : d # c => hand'[d] = hand[d]
  BY DEF Typed, HandTyped, Consume, Crash, Take, ReadForReminder,
     CreateReminder, StampReminder, ReadForTimeout, CommitAlert, RefuseAlert,
     PublishSMS, Finish, Retry, GiveBack, GotoHand

(* The consumers of one queue that are at some point of their handler.     *)
HandsAt(k, pcs) == {c \in Consumers : Kind(c) = k /\ hand[c].pc \in pcs}

(* Consumers can be counted.                                               *)
LEMMA ConsumersFinite ==
    /\ IsFiniteSet(Consumers)
    /\ \A k, pcs : /\ IsFiniteSet(HandsAt(k, pcs))
                   /\ Cardinality(HandsAt(k, pcs)) \in Nat
<1>1. IsFiniteSet(Consumers)
  BY JourneyAssumption, FS_Union DEF Consumers
<1>2. \A k, pcs : HandsAt(k, pcs) \subseteq Consumers
  BY DEF HandsAt
<1>. QED  BY <1>1, <1>2, FS_Subset, FS_CardinalityType

(* One consumer moves at a time.                                           *)
LEMMA HandsMove ==
    ASSUME Typed, NEW c \in Consumers, Consume(c) \/ Crash(c), NEW k, NEW pcs
    PROVE  /\ Cardinality(HandsAt(k, pcs)) \in Nat
           /\ Cardinality(HandsAt(k, pcs))' \in Nat
           /\ Cardinality(HandsAt(k, pcs))' =
                 Cardinality(HandsAt(k, pcs))
                   + (IF Kind(c) = k /\ hand'[c].pc \in pcs THEN 1 ELSE 0)
                   - (IF Kind(c) = k /\ hand[c].pc \in pcs THEN 1 ELSE 0)
<1>. DEFINE S == HandsAt(k, pcs)
            T == HandsAt(k, pcs)'
<1>1. IsFiniteSet(S)
  BY ConsumersFinite
<1>2. T \ {c} = S \ {c}
  BY OneHandMoves DEF HandsAt
<1>3. /\ c \in S <=> Kind(c) = k /\ hand[c].pc \in pcs
      /\ c \in T <=> Kind(c) = k /\ hand'[c].pc \in pcs
  BY DEF HandsAt
<1>. HIDE DEF S, T
<1>4. /\ Cardinality(S) \in Nat /\ Cardinality(T) \in Nat
      /\ Cardinality(T) = Cardinality(S) + (IF c \in T THEN 1 ELSE 0)
                                         - (IF c \in S THEN 1 ELSE 0)
  BY <1>1, <1>2, CountMoves
<1>. QED  BY <1>3, <1>4 DEF S, T

(* The consumers that owe a message, counted.                              *)
LEMMA PublishingMoves ==
    ASSUME Typed, NEW c \in Consumers, Consume(c) \/ Crash(c), NEW k \in Kinds
    PROVE  /\ Cardinality(Publishing(k)) \in Nat
           /\ Cardinality(Publishing(k))' \in Nat
           /\ Cardinality(Publishing(k))' =
                 Cardinality(Publishing(k))
                   + (IF Kind(c) = k THEN Owes(hand'[c]) - Owes(hand[c]) ELSE 0)
<1>1. /\ Publishing(k) = HandsAt(k, {"stamp", "publish"})
      /\ Publishing(k)' = HandsAt(k, {"stamp", "publish"})'
  BY DEF Publishing, HandsAt
<1>. QED  BY <1>1, HandsMove DEF Owes

(* What a consumer adds to the tasks it owes or publishes, or a crash or a *)
(* failed publish makes up for it.                                         *)
LEMMA OwedMoves ==
    ASSUME Typed, NEW c \in Consumers, Consume(c) \/ Crash(c)
    PROVE  /\ \A k \in Kinds : k # Kind(c) =>
                 tasks'[k] = tasks[k] /\ sms'[k] = sms[k]
           /\ tasks'[Kind(c)] - tasks[Kind(c)]
                 <= sms'[Kind(c)] - sms[Kind(c)]
                      + Owes(hand'[c]) - Owes(hand[c])
                      + faults'["crash"] - faults["crash"]
                      + faults'["publish"] - faults["publish"]
<1>. DEFINE k == Kind(c)
<1>1. /\ k \in Kinds /\ tasks[k] \in Nat /\ sms[k] \in Nat
      /\ faults["crash"] \in Nat /\ faults["publish"] \in Nat
      /\ hand[c] \in Hands
  BY KindIs DEF Typed, CountsTyped, HandTyped
<1>2. /\ faults'["crash"] \in Nat /\ faults'["crash"] >= faults["crash"]
      /\ faults'["publish"] \in Nat /\ faults'["publish"] >= faults["publish"]
  BY FaultsGrow DEF Typed, JourneyNext
<1>3. \A pc : GotoHand(c, pc) => hand'[c].pc = pc
  BY DEF GotoHand, Typed, HandTyped, Hands
<1>4. Idle.pc = "idle" /\ \A m : GiveBack(c, m) => hand'[c] = Idle
  BY DEF GiveBack, Idle, Typed, HandTyped
<1>5. UNCHANGED <<tasks, sms>> =>
         \A j \in Kinds : tasks'[j] = tasks[j] /\ sms'[j] = sms[j]
  OBVIOUS
<1>6. CASE CreateReminder(c) \/ CommitAlert(c)
  <2>1. /\ tasks'[k] = tasks[k] + 1 /\ UNCHANGED sms
        /\ \A j \in Kinds : j # k => tasks'[j] = tasks[j]
    <3>1. (k = "remind" /\ CreateReminder(c)) \/ (k = "timeout" /\ CommitAlert(c))
      BY <1>6, KindIs DEF Typed, HandTyped, CreateReminder, CommitAlert
    <3>. QED  BY <3>1, <1>1 DEF Typed, CountsTyped, CreateReminder, CommitAlert,
              AddTask
  <2>2. Owes(hand[c]) = 0 /\ Owes(hand'[c]) = 1
    BY <1>3, <1>6 DEF CreateReminder, CommitAlert, Owes
  <2>. QED  BY <1>1, <1>2, <2>1, <2>2
<1>7. CASE PublishSMS(c)
  <2>1. Owes(hand[c]) = 1 /\ Owes(hand'[c]) = 0
    BY <1>3, <1>7 DEF PublishSMS, Owes
  <2>2. UNCHANGED tasks
    BY <1>7 DEF PublishSMS
  <2>3. CASE sms' = [sms EXCEPT ![k] = @ + 1]
    <3>1. sms'[k] = sms[k] + 1 /\ \A j \in Kinds : j # k => sms'[j] = sms[j]
      BY <2>3, <1>1 DEF Typed, CountsTyped
    <3>. QED  BY <1>1, <1>2, <2>1, <2>2, <3>1
  <2>4. CASE Fault("publish") /\ UNCHANGED sms
    <3>1. faults'["publish"] = faults["publish"] + 1
      BY <2>4, FaultCounted DEF Typed
    <3>. QED  BY <1>1, <1>2, <2>1, <2>2, <2>4, <3>1
  <2>. QED  BY <1>7, <2>3, <2>4 DEF PublishSMS
<1>8. CASE Crash(c)
  <2>1. UNCHANGED <<tasks, sms>> /\ Owes(hand'[c]) = 0
    BY <1>4, <1>8 DEF Crash, outVars, Owes
  <2>2. faults'["crash"] = faults["crash"] + 1
    BY <1>8, FaultCounted DEF Crash, Typed
  <2>3. Owes(hand[c]) \in 0..1
    BY DEF Owes
  <2>. QED  BY <1>1, <1>2, <1>5, <2>1, <2>2, <2>3
<1>9. CASE StampReminder(c)
  <2>1. UNCHANGED <<tasks, sms>> /\ Owes(hand[c]) = 1 /\ Owes(hand'[c]) = 1
    BY <1>3, <1>9 DEF StampReminder, outVars, Owes
  <2>. QED  BY <1>1, <1>2, <1>5, <2>1
<1>10. ASSUME UNCHANGED <<tasks, sms>>, Owes(hand[c]) = 0, Owes(hand'[c]) = 0
       PROVE  /\ \A j \in Kinds : j # k =>
                    tasks'[j] = tasks[j] /\ sms'[j] = sms[j]
              /\ tasks'[k] - tasks[k] <= sms'[k] - sms[k]
                   + Owes(hand'[c]) - Owes(hand[c])
                   + faults'["crash"] - faults["crash"]
                   + faults'["publish"] - faults["publish"]
  BY <1>1, <1>2, <1>5, <1>10
<1>11. ASSUME NEW m \in BagToSet(queue), Take(c, m)
       PROVE  /\ UNCHANGED <<tasks, sms>>
              /\ Owes(hand[c]) = 0 /\ Owes(hand'[c]) = 0
  BY <1>11 DEF Take, outVars, Owes, Typed, HandTyped
<1>12. CASE ReadForReminder(c) \/ ReadForTimeout(c) \/ RefuseAlert(c)
  <2>1. UNCHANGED <<tasks, sms>> /\ Owes(hand[c]) = 0 /\ Owes(hand'[c]) = 0
    BY <1>3, <1>12
       DEF ReadForReminder, ReadForTimeout, RefuseAlert, outVars, Owes
  <2>. QED  BY <1>10, <2>1
<1>13. CASE Finish(c) \/ Retry(c)
  <2>1. UNCHANGED <<tasks, sms>> /\ Owes(hand[c]) = 0
    BY <1>13 DEF Finish, Retry, outVars, Owes
  <2>2. hand'[c] = Idle
    BY <1>4, <1>13 DEF Finish, Retry, Typed, HandTyped
  <2>3. Owes(hand'[c]) = 0
    BY <1>4, <2>2 DEF Owes
  <2>. QED  BY <1>10, <2>1, <2>3
<1>. QED  BY <1>6, <1>7, <1>8, <1>9, <1>10, <1>11, <1>12, <1>13 DEF Consume

(* However the consumers interleave, a task without a message is the work  *)
(* of a crash or of a failed publish.                                      *)
THEOREM JourneyTasksPublished == JourneySpec => []TasksArePublished
<1>1. JourneyInit => TasksArePublished
  <2>. SUFFICES ASSUME JourneyInit, NEW k \in Kinds
                PROVE  tasks[k] <= sms[k] + Cardinality(Publishing(k))
                                     + faults["crash"] + faults["publish"]
    BY DEF TasksArePublished
  <2>1. Publishing(k) = {}
    BY DEF JourneyInit, Publishing, Idle
  <2>2. Cardinality(Publishing(k)) = 0
    BY <2>1, FS_EmptySet
  <2>. QED  BY <2>2 DEF JourneyInit
<1>2. Typed /\ TasksArePublished /\ [JourneyNext]_journeyVars
        => TasksArePublished'
  <2>. SUFFICES ASSUME Typed, TasksArePublished, [JourneyNext]_journeyVars,
                       NEW k \in Kinds
                PROVE  (tasks[k] <= sms[k] + Cardinality(Publishing(k))
                                      + faults["crash"] + faults["publish"])'
    BY DEF TasksArePublished
  <2>1. /\ tasks[k] \in Nat /\ sms[k] \in Nat
        /\ faults["crash"] \in Nat /\ faults["publish"] \in Nat
        /\ tasks'[k] \in Nat /\ sms'[k] \in Nat
        /\ faults'["crash"] \in Nat /\ faults'["publish"] \in Nat
        /\ faults'["crash"] >= faults["crash"]
        /\ faults'["publish"] >= faults["publish"]
    BY FaultsGrow, CountsStep DEF Typed, CountsTyped
  <2>2. tasks[k] <= sms[k] + Cardinality(Publishing(k))
                      + faults["crash"] + faults["publish"]
    BY DEF TasksArePublished
  <2>3. CASE UNCHANGED <<hand, tasks, sms>>
    <3>1. Publishing(k)' = Publishing(k)
      BY <2>3 DEF Publishing
    <3>2. Cardinality(Publishing(k)) \in Nat
      <4>1. Publishing(k) = HandsAt(k, {"stamp", "publish"})
        BY DEF Publishing, HandsAt
      <4>. QED  BY <4>1, ConsumersFinite
    <3>. QED  BY <2>1, <2>2, <2>3, <3>1, <3>2
  <2>4. ASSUME NEW c \in Consumers, Consume(c) \/ Crash(c)
        PROVE  (tasks[k] <= sms[k] + Cardinality(Publishing(k))
                              + faults["crash"] + faults["publish"])'
    <3>. DEFINE n == Cardinality(Publishing(k))
                n1 == Cardinality(Publishing(k))'
    <3>1. /\ n \in Nat /\ n1 \in Nat
          /\ n1 = n + (IF Kind(c) = k THEN Owes(hand'[c]) - Owes(hand[c]) ELSE 0)
      BY <2>4, PublishingMoves
    <3>2. Owes(hand'[c]) \in 0..1 /\ Owes(hand[c]) \in 0..1
      BY DEF Owes
    <3>3. CASE k = Kind(c)
      <4>1. tasks'[k] - tasks[k] <= sms'[k] - sms[k]
               + Owes(hand'[c]) - Owes(hand[c])
               + faults'["crash"] - faults["crash"]
               + faults'["publish"] - faults["publish"]
        BY <2>4, <3>3, OwedMoves
      <4>2. n1 = n + Owes(hand'[c]) - Owes(hand[c])
        BY <3>1, <3>2, <3>3
      <4>3. tasks[k] <= sms[k] + n + faults["crash"] + faults["publish"]
        BY <2>2
      <4>. HIDE DEF n, n1
      <4>4. tasks'[k] <= sms'[k] + n1 + faults'["crash"] + faults'["publish"]
        BY <2>1, <3>1, <3>2, <4>1, <4>2, <4>3
      <4>. QED  BY <4>4 DEF n1
    <3>4. CASE k # Kind(c)
      <4>1. tasks'[k] = tasks[k] /\ sms'[k] = sms[k]
        BY <2>4, <3>4, OwedMoves
      <4>. QED  BY <2>1, <2>2, <3>1, <3>4, <4>1
    <3>. QED  BY <3>3, <3>4
  <2>. QED  BY <2>3, <2>4, HandChanges
<1>. QED  BY <1>1, <1>2, JourneyTyped, PTL DEF JourneySpec

-----------------------------------------------------------------------------
(* One alert and one reminder for each goroutine                           *)

(* Where a step takes a consumer.                                          *)
LEMMA PcMoves ==
    ASSUME Typed, NEW c \in Consumers
    PROVE  /\ \A pc : GotoHand(c, pc) => hand'[c].pc = pc
           /\ \A m : GiveBack(c, m) => hand'[c].pc = "idle"
           /\ Finish(c) => hand'[c].pc = "idle"
           /\ \A m : Take(c, m) => /\ hand[c].pc = "idle"
                                   /\ hand'[c].pc \in {"idle", "read"}
  BY DEF Typed, HandTyped, Hands, GotoHand, GiveBack, Finish, Take, Idle

(* No consumer decides on a journey that is over, and only one that has    *)
(* decided writes "timeout" into it or creates tasks for its contacts.     *)
LEMMA CompletionStays ==
    ASSUME Typed, [JourneyNext]_journeyVars PROVE CompletionStands
<1>1. ASSUME Over
      PROVE  /\ Decided' \subseteq Decided
             /\ Decided = {} => Over' /\ tasks'["timeout"] = tasks["timeout"]
  <2>1. Decided' \subseteq Decided
    <3>1. CASE UNCHANGED <<hand, tasks, sms>>
      BY <3>1 DEF Decided
    <3>2. ASSUME NEW c \in Consumers, Consume(c) \/ Crash(c)
          PROVE  Decided' \subseteq Decided
      <4>1. hand'[c].pc \notin {"alert", "refuse"}
        <5>1. ReadForTimeout(c) => hand'[c].pc = "finish"
          BY <1>1, PcMoves DEF ReadForTimeout, TimedOut, Over
        <5>. QED  BY <1>1, <3>2, <5>1, PcMoves
                  DEF Consume, ReadForReminder, CreateReminder, StampReminder,
                      CommitAlert, RefuseAlert, PublishSMS, Retry, Crash
      <4>. QED  BY <1>1, <3>2, <4>1, OneHandMoves DEF Decided
    <3>. QED  BY <1>1, <3>1, <3>2, HandChanges
  <2>2. ASSUME Decided = {}
        PROVE  \A c \in Consumers : ~CommitAlert(c) /\ ~RefuseAlert(c)
    BY <2>2 DEF Decided, CommitAlert, RefuseAlert
  <2>3. ASSUME \A c \in Consumers : ~CommitAlert(c) /\ ~RefuseAlert(c)
        PROVE  Over'
    BY <1>1, <2>3, RowChanges DEF Over, UpdateRow, UpdateWrite, CompleteWrite,
       DeleteWrite, StampReminder, Typed, RowTyped, Rows
  <2>4. ASSUME \A c \in Consumers : ~CommitAlert(c)
        PROVE  tasks'["timeout"] = tasks["timeout"]
    <3>1. ASSUME NEW c \in Consumers, Consume(c) \/ Crash(c)
          PROVE  UNCHANGED tasks \/ AddTask("remind")
      BY <2>4, <3>1 DEF Consume, Take, ReadForReminder, CreateReminder,
         StampReminder, ReadForTimeout, RefuseAlert, PublishSMS, Finish, Retry,
         Crash, outVars
    <3>2. AddTask("remind") => tasks'["timeout"] = tasks["timeout"]
      BY <1>1 DEF AddTask, Typed, CountsTyped, Kinds
    <3>. QED  BY <1>1, <3>1, <3>2, HandChanges
  <2>. QED  BY <2>1, <2>2, <2>3, <2>4
<1>. QED  BY <1>1 DEF CompletionStands

(* The user has the last word on a journey that is over, for any number of *)
(* requests and consumers.                                                 *)
THEOREM JourneyEndIsFinal == JourneySpec => EndIsFinal
<1>1. Typed /\ [JourneyNext]_journeyVars
        => [DeletedIsKept /\ CompletionStands]_journeyVars
  BY DeletedStays, CompletionStays
<1>. QED  BY <1>1, JourneyTyped, PTL DEF JourneySpec, EndIsFinal

(* Deleting a journey cancels it.                                          *)
DeletedIsCancelled == journey.deleted => journey.status # "ongoing"

(* A journey never gets back to ongoing, and its reminder is not forgotten.*)
LEMMA RowGoesOn ==
    ASSUME Typed, DeletedIsCancelled, [JourneyNext]_journeyVars
    PROVE  /\ DeletedIsCancelled'
           /\ journey'.status = "ongoing" => journey.status = "ongoing"
           /\ journey.reminded => journey'.reminded
<1>. USE DEF Typed, RowTyped, Rows, DeletedIsCancelled
<1>1. \A row : UpdateRow(row) =>
         journey' = journey \/ (journey' = row /\ ~journey.deleted)
  BY DEF UpdateRow
<1>2. ASSUME NEW r \in Requests, UpdateWrite(r)
      PROVE  /\ DeletedIsCancelled'
             /\ journey'.status = "ongoing" => journey.status = "ongoing"
             /\ journey.reminded => journey'.reminded
  BY <1>1, <1>2 DEF UpdateWrite
<1>3. ASSUME NEW r \in Requests, CompleteWrite(r) \/ DeleteWrite(r)
      PROVE  /\ DeletedIsCancelled'
             /\ journey'.status = "ongoing" => journey.status = "ongoing"
             /\ journey.reminded => journey'.reminded
  <2>1. CASE CompleteWrite(r)
    BY <1>1, <2>1 DEF CompleteWrite
  <2>2. CASE DeleteWrite(r)
    <3>1. journey' = journey
             \/ journey' = [journey EXCEPT !.status = "cancelled",
                                           !.deleted = TRUE]
      BY <1>1, <2>2 DEF DeleteWrite
    <3>2. \/ journey' = journey
          \/ journey'.status = "cancelled" /\ journey'.reminded = journey.reminded
      BY <3>1
    <3>. QED  BY <3>2
  <2>. QED  BY <1>3, <2>1, <2>2
<1>4. ASSUME NEW c \in Consumers,
             StampReminder(c) \/ CommitAlert(c) \/ RefuseAlert(c)
      PROVE  /\ DeletedIsCancelled'
             /\ journey'.status = "ongoing" => journey.status = "ongoing"
             /\ journey.reminded => journey'.reminded
  <2>1. CASE StampReminder(c)
    BY <1>1, <2>1 DEF StampReminder
  <2>2. CASE CommitAlert(c) \/ RefuseAlert(c)
    <3>1. \/ journey' = journey
          \/ journey' = [journey EXCEPT !.status = "timeout", !.alert = "failed"]
          \/ journey' = [journey EXCEPT !.status = "timeout",
                            !.alert = "triggered", !.attempts = @ + 1]
      BY <1>1, <2>2 DEF CommitAlert, RefuseAlert
    <3>2. \/ journey' = journey
          \/ journey'.status = "timeout" /\ journey'.reminded = journey.reminded
      BY <3>1
    <3>. QED  BY <3>2
  <2>. QED  BY <1>4, <2>1, <2>2
<1>. QED  BY RowChanges, <1>2, <1>3, <1>4

(* Each timeout consumer that has read an ongoing journey alerts once, and *)
(* none reads one after the first alert.                                   *)
AlertsBounded ==
    /\ tasks["timeout"] + Cardinality(HandsAt("timeout", {"alert"}))
          <= Cardinality(TimeoutConsumers)
    /\ journey.status = "ongoing" => tasks["timeout"] = 0

(* There are as many at some point of a handler as consumers at most.      *)
LEMMA HandsAreConsumers ==
    /\ Cardinality(RemindConsumers) \in Nat
    /\ Cardinality(TimeoutConsumers) \in Nat
    /\ \A S \in SUBSET RemindConsumers :
          Cardinality(S) \in Nat /\ Cardinality(S) <= Cardinality(RemindConsumers)
    /\ \A S \in SUBSET TimeoutConsumers :
          Cardinality(S) \in Nat /\ Cardinality(S) <= Cardinality(TimeoutConsumers)
  BY JourneyAssumption, FS_Subset, FS_CardinalityType

(* An alert takes a consumer that has decided before the first one.        *)
LEMMA AlertsStep ==
    ASSUME Typed, DeletedIsCancelled, AlertsBounded, [JourneyNext]_journeyVars
    PROVE  AlertsBounded'
<1>. DEFINE n == Cardinality(HandsAt("timeout", {"alert"}))
            n1 == Cardinality(HandsAt("timeout", {"alert"}))'
            k == tasks["timeout"]
            k1 == tasks'["timeout"]
            Most == Cardinality(TimeoutConsumers)
<1>1. /\ n \in Nat /\ k \in Nat /\ Most \in Nat /\ n1 \in Nat /\ k1 \in Nat
      /\ n <= Most /\ n1 <= Most
  <2>1. n1 \in Nat /\ n1 <= Most
    BY HandsAreConsumers DEF HandsAt, Consumers, Kind
  <2>2. k1 \in Nat
    BY CountsStep DEF CountsTyped, Kinds
  <2>3. n \in Nat /\ n <= Most
    BY HandsAreConsumers DEF HandsAt, Consumers, Kind
  <2>. QED  BY <2>1, <2>2, <2>3, HandsAreConsumers
            DEF Typed, CountsTyped, Kinds
<1>2. journey'.status = "ongoing" => journey.status = "ongoing"
  BY RowGoesOn
<1>3. CASE UNCHANGED <<hand, tasks, sms>>
  <2>1. n1 = n /\ k1 = k
    BY <1>3 DEF HandsAt
  <2>. QED  BY <1>1, <1>2, <2>1 DEF AlertsBounded
<1>4. ASSUME NEW c \in Consumers, Consume(c) \/ Crash(c) PROVE AlertsBounded'
  <2>. DEFINE in == Kind(c) = "timeout" /\ hand[c].pc = "alert"
              in1 == Kind(c) = "timeout" /\ hand'[c].pc = "alert"
  <2>1. n1 = n + (IF in1 THEN 1 ELSE 0) - (IF in THEN 1 ELSE 0)
    <3>1. n1 = n + (IF Kind(c) = "timeout" /\ hand'[c].pc \in {"alert"}
                    THEN 1 ELSE 0)
                 - (IF Kind(c) = "timeout" /\ hand[c].pc \in {"alert"}
                    THEN 1 ELSE 0)
      BY <1>4, HandsMove
    <3>. QED  BY <3>1
  <2>2. CASE CommitAlert(c)
    <3>1. in /\ ~in1
      BY <2>2, PcMoves, KindIs DEF CommitAlert, Typed, HandTyped
    <3>2. k1 = k + 1
      BY <2>2 DEF CommitAlert, AddTask, Typed, CountsTyped, Kinds
    <3>3. journey'.status # "ongoing"
      BY <2>2 DEF CommitAlert, UpdateRow, DeletedIsCancelled, Typed, RowTyped,
         Rows
    <3>. QED  BY <1>1, <2>1, <3>1, <3>2, <3>3 DEF AlertsBounded
  <2>3. ASSUME k1 = k, in1 => in \/ k = 0
        PROVE  AlertsBounded'
    BY <1>1, <1>2, <2>1, <2>3 DEF AlertsBounded
  <2>4. CASE CreateReminder(c)
    <3>1. k1 = k /\ ~in1
      BY <2>4, PcMoves DEF CreateReminder, AddTask, Typed, CountsTyped, Kinds
    <3>. QED  BY <2>3, <3>1
  <2>5. CASE ReadForTimeout(c)
    <3>1. UNCHANGED tasks
      BY <2>5 DEF ReadForTimeout, outVars
    <3>2. TimedOut \/ hand'[c].pc = "finish"
      BY <2>5, PcMoves DEF ReadForTimeout
    <3>3. TimedOut => k = 0
      BY DEF TimedOut, AlertsBounded
    <3>. QED  BY <2>3, <3>1, <3>2, <3>3
  <2>6. CASE ReadForReminder(c) \/ StampReminder(c) \/ RefuseAlert(c)
             \/ PublishSMS(c) \/ Finish(c) \/ Retry(c) \/ Crash(c)
    <3>1. UNCHANGED tasks /\ ~in1
      BY <2>6, PcMoves DEF ReadForReminder, StampReminder, RefuseAlert,
         PublishSMS, Finish, Retry, Crash, outVars
    <3>. QED  BY <2>3, <3>1
  <2>7. ASSUME NEW m \in BagToSet(queue), Take(c, m) PROVE AlertsBounded'
    <3>1. UNCHANGED tasks /\ ~in1
      BY <2>7, PcMoves DEF Take, outVars
    <3>. QED  BY <2>3, <3>1
  <2>. QED  BY <1>4, <2>2, <2>4, <2>5, <2>6, <2>7 DEF Consume
<1>. QED  BY <1>3, <1>4, HandChanges

(* Every message handed to the SMS queue has a task behind it.             *)
MessagesHaveTasks ==
    \A k \in Kinds : sms[k] + Cardinality(Publishing(k)) <= tasks[k]

(* A consumer never publishes more than the tasks it has created.          *)
LEMMA BackedMoves ==
    ASSUME Typed, NEW c \in Consumers, Consume(c) \/ Crash(c)
    PROVE  sms'[Kind(c)] - sms[Kind(c)] + Owes(hand'[c]) - Owes(hand[c])
              <= tasks'[Kind(c)] - tasks[Kind(c)]
<1>. DEFINE k == Kind(c)
<1>1. k \in Kinds /\ tasks[k] \in Nat /\ sms[k] \in Nat
  BY KindIs DEF Typed, CountsTyped
<1>2. Owes(hand[c]) \in 0..1 /\ Owes(hand'[c]) \in 0..1
  BY DEF Owes
<1>3. ASSUME UNCHANGED <<tasks, sms>>, Owes(hand'[c]) <= Owes(hand[c])
      PROVE  sms'[k] - sms[k] + Owes(hand'[c]) - Owes(hand[c])
                <= tasks'[k] - tasks[k]
  BY <1>1, <1>2, <1>3
<1>4. CASE CreateReminder(c) \/ CommitAlert(c)
  <2>1. tasks'[k] = tasks[k] + 1 /\ UNCHANGED sms
    <3>1. \/ k = "remind" /\ CreateReminder(c)
          \/ k = "timeout" /\ CommitAlert(c)
      BY <1>4, KindIs DEF Typed, HandTyped, CreateReminder, CommitAlert
    <3>. QED  BY <3>1, <1>1 DEF Typed, CountsTyped, CreateReminder, CommitAlert,
              AddTask
  <2>. QED  BY <1>1, <1>2, <1>4, <2>1
            DEF Owes, CreateReminder, CommitAlert
<1>5. CASE PublishSMS(c)
  <2>1. Owes(hand[c]) = 1 /\ Owes(hand'[c]) = 0
    BY <1>5, PcMoves DEF PublishSMS, Owes
  <2>2. UNCHANGED tasks /\ (sms'[k] = sms[k] + 1 \/ UNCHANGED sms)
    BY <1>1, <1>5 DEF PublishSMS, Typed, CountsTyped
  <2>. QED  BY <1>1, <2>1, <2>2
<1>6. CASE StampReminder(c)
  <2>1. Owes(hand[c]) = 1 /\ UNCHANGED <<tasks, sms>>
    BY <1>6 DEF StampReminder, outVars, Owes
  <2>. QED  BY <1>2, <1>3, <2>1
<1>7. CASE \/ ReadForReminder(c) \/ ReadForTimeout(c) \/ RefuseAlert(c)
           \/ Finish(c) \/ Retry(c) \/ Crash(c)
  <2>1. Owes(hand'[c]) = 0
    BY <1>7, PcMoves DEF ReadForReminder, ReadForTimeout, RefuseAlert, Retry,
       Crash, Owes
  <2>2. UNCHANGED <<tasks, sms>>
    BY <1>7 DEF ReadForReminder, ReadForTimeout, RefuseAlert, Finish, Retry,
       Crash, outVars
  <2>. QED  BY <1>2, <1>3, <2>1, <2>2
<1>8. ASSUME NEW m \in BagToSet(queue), Take(c, m)
      PROVE  sms'[k] - sms[k] + Owes(hand'[c]) - Owes(hand[c])
                <= tasks'[k] - tasks[k]
  <2>1. Owes(hand'[c]) = 0 /\ UNCHANGED <<tasks, sms>>
    BY <1>8, PcMoves DEF Take, outVars, Owes
  <2>. QED  BY <1>2, <1>3, <2>1
<1>. QED  BY <1>4, <1>5, <1>6, <1>7, <1>8 DEF Consume

(* Summed over the consumers of a queue.                                   *)
LEMMA BackedStep ==
    ASSUME Typed, MessagesHaveTasks, [JourneyNext]_journeyVars
    PROVE  MessagesHaveTasks'
<1>. SUFFICES ASSUME NEW k \in Kinds
              PROVE  (sms[k] + Cardinality(Publishing(k)) <= tasks[k])'
  BY DEF MessagesHaveTasks
<1>. DEFINE n == Cardinality(Publishing(k))
            n1 == Cardinality(Publishing(k))'
<1>1. /\ tasks[k] \in Nat /\ sms[k] \in Nat
      /\ tasks'[k] \in Nat /\ sms'[k] \in Nat
  BY CountsStep DEF Typed, CountsTyped
<1>2. sms[k] + n <= tasks[k]
  BY DEF MessagesHaveTasks
<1>3. CASE UNCHANGED <<hand, tasks, sms>>
  <2>1. n1 = n
    BY <1>3 DEF Publishing
  <2>. QED  BY <1>2, <1>3, <2>1
<1>4. ASSUME NEW c \in Consumers, Consume(c) \/ Crash(c)
      PROVE  sms'[k] + n1 <= tasks'[k]
  <2>1. /\ n \in Nat /\ n1 \in Nat
        /\ n1 = n + (IF Kind(c) = k THEN Owes(hand'[c]) - Owes(hand[c]) ELSE 0)
    BY <1>4, PublishingMoves
  <2>2. Owes(hand'[c]) \in 0..1 /\ Owes(hand[c]) \in 0..1
    BY DEF Owes
  <2>3. k = Kind(c) => sms'[k] - sms[k] + Owes(hand'[c]) - Owes(hand[c])
                          <= tasks'[k] - tasks[k]
    BY <1>4, BackedMoves
  <2>4. k # Kind(c) => tasks'[k] = tasks[k] /\ sms'[k] = sms[k]
    BY <1>4, OwedMoves
  <2>. HIDE DEF n, n1
  <2>. QED  BY <1>1, <1>2, <2>1, <2>2, <2>3, <2>4
<1>. QED  BY <1>3, <1>4, HandChanges

(* Each reminder consumer that has read an unreminded journey reminds      *)
(* once; while reminder_sent_at is not set, every reminder that is out has *)
(* failed to set it.                                                       *)
Reminding == HandsAt("remind", {"create", "stamp", "publish"})
Unstamped == HandsAt("remind", {"publish"})

RemindersBounded ==
    /\ sms["remind"] + Cardinality(Reminding)
          <= Cardinality(RemindConsumers) + faults["db"]
    /\ journey.status = "ongoing" /\ ~journey.reminded =>
          sms["remind"] + Cardinality(Unstamped) <= faults["db"]

(* A reminder takes a consumer that has read the row before the stamp,     *)
(* or a stamp that has failed.                                             *)
LEMMA RemindersStep ==
    ASSUME Typed, DeletedIsCancelled, RemindersBounded,
           [JourneyNext]_journeyVars
    PROVE  RemindersBounded'
<1>. DEFINE n == Cardinality(Reminding)
            n1 == Cardinality(Reminding)'
            u == Cardinality(Unstamped)
            u1 == Cardinality(Unstamped)'
            s == sms["remind"]
            s1 == sms'["remind"]
            f == faults["db"]
            f1 == faults'["db"]
            Most == Cardinality(RemindConsumers)
            open == journey.status = "ongoing" /\ ~journey.reminded
            open1 == journey'.status = "ongoing" /\ ~journey'.reminded
<1>1. /\ n \in Nat /\ n1 \in Nat /\ u \in Nat /\ u1 \in Nat /\ s \in Nat
      /\ s1 \in Nat /\ f \in Nat /\ f1 \in Nat /\ Most \in Nat /\ f1 >= f
  <2>1. n \in Nat /\ n1 \in Nat /\ u \in Nat /\ u1 \in Nat /\ Most \in Nat
    BY HandsAreConsumers DEF Reminding, Unstamped, HandsAt, Consumers, Kind
  <2>2. s1 \in Nat /\ f1 \in Nat /\ f1 >= f
    BY CountsStep, FaultsGrow DEF Typed, CountsTyped, Kinds
  <2>. QED  BY <2>1, <2>2 DEF Typed, CountsTyped, Kinds
<1>2. open1 => open
  BY RowGoesOn
<1>3. s + n <= Most + f /\ (open => s + u <= f)
  BY DEF RemindersBounded
<1>4. SUFFICES s1 + n1 <= Most + f1 /\ (open1 => s1 + u1 <= f1)
  BY DEF RemindersBounded
<1>5. CASE UNCHANGED <<hand, tasks, sms>>
  <2>1. n1 = n /\ u1 = u /\ s1 = s
    BY <1>5 DEF Reminding, Unstamped, HandsAt
  <2>. HIDE DEF n, n1, u, u1, s, s1, f, f1, Most, open, open1
  <2>. QED  BY <1>1, <1>2, <1>3, <2>1
<1>6. ASSUME NEW c \in Consumers, Consume(c) \/ Crash(c)
      PROVE  s1 + n1 <= Most + f1 /\ (open1 => s1 + u1 <= f1)
  <2>. DEFINE mine == Kind(c) = "remind"
              in == mine /\ hand[c].pc \in {"create", "stamp", "publish"}
              in1 == mine /\ hand'[c].pc \in {"create", "stamp", "publish"}
              at == mine /\ hand[c].pc = "publish"
              at1 == mine /\ hand'[c].pc = "publish"
  <2>1. /\ n1 = n + (IF in1 THEN 1 ELSE 0) - (IF in THEN 1 ELSE 0)
        /\ u1 = u + (IF at1 THEN 1 ELSE 0) - (IF at THEN 1 ELSE 0)
    <3>1. u1 = u + (IF mine /\ hand'[c].pc \in {"publish"} THEN 1 ELSE 0)
                 - (IF mine /\ hand[c].pc \in {"publish"} THEN 1 ELSE 0)
      BY <1>6, HandsMove DEF Unstamped
    <3>2. n1 = n + (IF in1 THEN 1 ELSE 0) - (IF in THEN 1 ELSE 0)
      BY <1>6, HandsMove DEF Reminding
    <3>. QED  BY <3>1, <3>2
  <2>2. ASSUME s1 = s, in1 => in, at1 => at
        PROVE  s1 + n1 <= Most + f1 /\ (open1 => s1 + u1 <= f1)
    <3>. HIDE DEF n, n1, u, u1, s, s1, f, f1, Most, open, open1, in, in1, at, at1
    <3>. QED  BY <1>1, <1>2, <1>3, <2>1, <2>2
  <2>3. CASE ReadForReminder(c)
    <3>1. /\ s1 = s /\ ~at /\ ~at1
          /\ (hand'[c].pc = "create" /\ open) \/ hand'[c].pc = "finish"
      BY <2>3, PcMoves DEF ReadForReminder, outVars
    <3>2. u1 = u
      BY <1>1, <2>1, <3>1
    <3>3. CASE hand'[c].pc = "finish"
      BY <2>2, <3>1, <3>3
    <3>4. CASE hand'[c].pc = "create" /\ open
      <4>1. Reminding' \cap Unstamped' = Unstamped'
        BY DEF Reminding, Unstamped, HandsAt
      <4>. DEFINE Others == HandsAt("remind", {"create", "stamp"})'
      <4>2. n1 = Cardinality(Others) + u1 /\ Cardinality(Others) \in Nat
            /\ Cardinality(Others) <= Most
        <5>1. /\ Reminding' = Others \cup Unstamped'
              /\ Others \cap Unstamped' = {}
              /\ Others \subseteq RemindConsumers
              /\ Unstamped' \subseteq RemindConsumers
          BY DEF Reminding, Unstamped, HandsAt, Consumers, Kind
        <5>2. IsFiniteSet(Others) /\ IsFiniteSet(Unstamped')
          BY <5>1, JourneyAssumption, FS_Subset
        <5>3. Cardinality({}) = 0
          BY FS_EmptySet
        <5>4. Cardinality(Others \cup Unstamped') =
                 Cardinality(Others) + u1 - Cardinality(Others \cap Unstamped')
          BY <5>2, FS_Union
        <5>5. Cardinality(Others) \in Nat /\ Cardinality(Others) <= Most
          BY <5>1, HandsAreConsumers
        <5>. HIDE DEF Others
        <5>. QED  BY <1>1, <5>1, <5>3, <5>4, <5>5
      <4>. HIDE DEF n, n1, u, u1, s, s1, f, f1, Most, open, open1, Others
      <4>. QED  BY <1>1, <1>3, <3>1, <3>2, <3>4, <4>2
    <3>. QED  BY <3>1, <3>3, <3>4
  <2>4. CASE CreateReminder(c)
    <3>1. mine
      BY <2>4, KindIs DEF CreateReminder, Typed, HandTyped
    <3>2. s1 = s /\ in /\ ~at1
      BY <2>4, <3>1, PcMoves DEF CreateReminder
    <3>. QED  BY <2>2, <3>2
  <2>5. CASE StampReminder(c)
    <3>1. mine
      BY <2>5, KindIs DEF StampReminder, Typed, HandTyped
    <3>2. s1 = s /\ in /\ in1 /\ ~at /\ at1
      BY <2>5, <3>1, PcMoves DEF StampReminder, outVars
    <3>3. CASE UpdateRow([journey EXCEPT !.reminded = TRUE])
      <4>1. ~open1
        BY <3>3 DEF UpdateRow, DeletedIsCancelled, Typed, RowTyped, Rows
      <4>. HIDE DEF n, n1, u, u1, s, s1, f, f1, Most, open, open1, in, in1
      <4>. QED  BY <1>1, <1>3, <2>1, <3>2, <4>1
    <3>4. CASE Fault("db")
      <4>1. f1 = f + 1
        BY <3>4, FaultCounted DEF Typed
      <4>. HIDE DEF n, n1, u, u1, s, s1, f, f1, Most, open, open1, in, in1,
                    at, at1
      <4>. QED  BY <1>1, <1>2, <1>3, <2>1, <3>2, <4>1
    <3>. QED  BY <2>5, <3>3, <3>4 DEF StampReminder
  <2>6. CASE PublishSMS(c)
    <3>1. ~in1 /\ ~at1
      BY <2>6, PcMoves DEF PublishSMS
    <3>2. \/ s1 = s
          \/ s1 = s + 1 /\ in /\ at
      <4>1. s1 = s \/ (s1 = s + 1 /\ mine)
        BY <2>6, KindIs DEF PublishSMS, Typed, CountsTyped, Kinds
      <4>. QED  BY <2>6, <4>1 DEF PublishSMS
    <3>. HIDE DEF n, n1, u, u1, s, s1, f, f1, Most, open, open1, in, in1, at,
                  at1
    <3>. QED  BY <1>1, <1>2, <1>3, <2>1, <3>1, <3>2
  <2>7. CASE ReadForTimeout(c) \/ CommitAlert(c) \/ RefuseAlert(c)
    <3>1. ~mine
      BY <2>7, KindIs DEF ReadForTimeout, CommitAlert, RefuseAlert, Typed,
         HandTyped
    <3>2. s1 = s
      BY <2>7 DEF ReadForTimeout, CommitAlert, RefuseAlert, outVars
    <3>. QED  BY <2>2, <3>1, <3>2
  <2>8. CASE Finish(c) \/ Retry(c) \/ Crash(c)
    BY <2>2, <2>8, PcMoves DEF Finish, Retry, Crash, outVars
  <2>9. ASSUME NEW m \in BagToSet(queue), Take(c, m)
        PROVE  s1 + n1 <= Most + f1 /\ (open1 => s1 + u1 <= f1)
    BY <2>2, <2>9, PcMoves DEF Take, outVars
  <2>. QED  BY <1>6, <2>3, <2>4, <2>5, <2>6, <2>7, <2>8, <2>9 DEF Consume
<1>. QED  BY <1>5, <1>6, HandChanges

Notified == /\ DeletedIsCancelled /\ AlertsBounded /\ MessagesHaveTasks
            /\ RemindersBounded

(* Nothing has gone out when a journey is created.                         *)
LEMMA NotifiedInit == JourneyInit => Notified
<1>. SUFFICES ASSUME JourneyInit PROVE Notified
  OBVIOUS
<1>1. journey.status = "ongoing" /\ ~journey.deleted
  BY DEF JourneyInit
<1>2. /\ tasks["timeout"] = 0 /\ sms["remind"] = 0 /\ faults["db"] = 0
      /\ \A k \in Kinds : tasks[k] = 0 /\ sms[k] = 0
  BY DEF JourneyInit, Kinds
<1>3. \A c \in Consumers : hand[c].pc = "idle"
  BY DEF JourneyInit, Idle
<1>4. /\ HandsAt("timeout", {"alert"}) = {} /\ Reminding = {} /\ Unstamped = {}
      /\ \A k \in Kinds : Publishing(k) = {}
  BY <1>3 DEF HandsAt, Reminding, Unstamped, Publishing
<1>5. Cardinality({}) = 0
  BY FS_EmptySet
<1>6. AlertsBounded
  BY <1>1, <1>2, <1>4, <1>5, HandsAreConsumers DEF AlertsBounded
<1>7. RemindersBounded
  BY <1>1, <1>2, <1>4, <1>5, HandsAreConsumers DEF RemindersBounded
<1>8. MessagesHaveTasks
  BY <1>2, <1>4, <1>5 DEF MessagesHaveTasks
<1>. QED  BY <1>1, <1>6, <1>7, <1>8 DEF Notified, DeletedIsCancelled

(* However many goroutines consume the two queues: the contacts are        *)
(* alerted, and the user reminded, once for each of them at most.          *)
THEOREM JourneyNotified == JourneySpec => []Notified
<1>1. Typed /\ Notified /\ [JourneyNext]_journeyVars => Notified'
  BY RowGoesOn, AlertsStep, BackedStep, RemindersStep DEF Notified
<1>. QED  BY <1>1, NotifiedInit, JourneyTyped, PTL DEF JourneySpec

(* With the one goroutine that the worker starts for each queue, the       *)
(* scans, the requests and the retries that publish messages for a journey *)
(* never add up to a second alert or a second reminder.                    *)
THEOREM JourneyNotifiedOnce ==
    ASSUME Cardinality(RemindConsumers) = 1, Cardinality(TimeoutConsumers) = 1
    PROVE  JourneySpec => []NotifiedAtMostOnce
<1>1. Typed /\ Notified => NotifiedAtMostOnce
  <2>. SUFFICES ASSUME Typed, Notified PROVE NotifiedAtMostOnce
    OBVIOUS
  <2>. DEFINE a == Cardinality(HandsAt("timeout", {"alert"}))
              p == Cardinality(Publishing("timeout"))
              n == Cardinality(Reminding)
  <2>1. a \in Nat /\ p \in Nat /\ n \in Nat
    <3>1. Publishing("timeout") = HandsAt("timeout", {"stamp", "publish"})
      BY DEF Publishing, HandsAt
    <3>. QED  BY <3>1, ConsumersFinite DEF Reminding
  <2>2. /\ tasks["timeout"] + a <= 1 /\ sms["timeout"] + p <= tasks["timeout"]
        /\ sms["remind"] + n <= 1 + faults["db"]
    BY DEF Notified, AlertsBounded, MessagesHaveTasks, RemindersBounded, Kinds
  <2>3. /\ tasks["timeout"] \in Nat /\ sms["timeout"] \in Nat
        /\ sms["remind"] \in Nat /\ faults["db"] \in Nat
    BY DEF Typed, CountsTyped, Kinds
  <2>. HIDE DEF a, p, n
  <2>. QED  BY <2>1, <2>2, <2>3
            DEF NotifiedAtMostOnce, AlertedAtMostOnce, RemindedAtMostOnce
<1>. QED  BY <1>1, JourneyTyped, JourneyNotified, PTL

-----------------------------------------------------------------------------
(* The row tells of the alert                                              *)

(* Nobody alerts, or refuses to, on what was read before an alert.         *)
DecidesBefore ==
    \A c \in Consumers :
        hand[c].pc \in {"alert", "refuse"} => tasks["timeout"] = 0

Recorded == DecidesBefore /\ AlertIsRecorded

(* The alert and its record are one write; the writes of the others        *)
(* leave the record, or the journey is deleted.                            *)
LEMMA RecordedStep ==
    ASSUME Cardinality(TimeoutConsumers) = 1,
           Typed, DeletedIsCancelled, AlertsBounded, Recorded,
           [JourneyNext]_journeyVars
    PROVE  Recorded'
<1>. USE DEF Typed, RowTyped, Rows, Recorded
<1>1. PICK t \in TimeoutConsumers : TimeoutConsumers = {t}
  BY JourneyAssumption, FS_Singleton
<1>2. tasks["timeout"] \in Nat
  BY DEF CountsTyped, Kinds
<1>3. \A row : UpdateRow(row) => journey' = IF journey.deleted THEN journey
                                            ELSE row
  BY DEF UpdateRow
<1>4. ASSUME tasks'["timeout"] = tasks["timeout"],
             \/ journey' = journey
             \/ journey'.deleted
             \/ /\ journey'.deleted = journey.deleted
                /\ journey'.attempts = journey.attempts
                /\ journey'.alert = journey.alert
                /\ journey'.status \in {journey.status, "ended"}
      PROVE  AlertIsRecorded'
  BY <1>4 DEF AlertIsRecorded
<1>5. ASSUME UNCHANGED <<hand, tasks, sms>> PROVE DecidesBefore'
  BY <1>5 DEF DecidesBefore
<1>6. ASSUME NEW r \in Requests, Serve(r) PROVE Recorded'
  <2>1. UNCHANGED <<hand, tasks, sms>>
    BY <1>6 DEF outVars, Serve, Answer, UpdateRead, CompleteRead, DeleteRead,
       Begin, UpdateWrite, UpdatePublish, CompleteWrite, DeleteWrite,
       RequestLost
  <2>2. CASE UpdateWrite(r)
    BY <1>3, <1>4, <1>5, <2>1, <2>2 DEF UpdateWrite
  <2>3. CASE CompleteWrite(r)
    BY <1>3, <1>4, <1>5, <2>1, <2>3 DEF CompleteWrite
  <2>4. CASE DeleteWrite(r)
    <3>1. journey'.deleted
      <4>1. ~journey.deleted => journey' = [journey EXCEPT !.status = "cancelled",
                                                           !.deleted = TRUE]
        BY <1>3, <2>4 DEF DeleteWrite
      <4>2. journey.deleted => journey' = journey
        BY <1>3, <2>4 DEF DeleteWrite
      <4>. QED  BY <4>1, <4>2
    <3>. QED  BY <1>4, <1>5, <2>1, <3>1
  <2>5. CASE UNCHANGED journey
    BY <1>4, <1>5, <2>1, <2>5
  <2>. QED  BY <1>6, <2>2, <2>3, <2>4, <2>5
            DEF rowVars, Serve, Answer, UpdateRead, CompleteRead, DeleteRead,
                Begin, UpdatePublish, RequestLost
<1>7. ASSUME NEW c \in Consumers, Consume(c) \/ Crash(c) PROVE Recorded'
  <2>1. ASSUME hand'[c].pc \notin {"alert", "refuse"} \/ tasks["timeout"] = 0,
               tasks'["timeout"] = tasks["timeout"]
        PROVE  DecidesBefore'
    BY <1>7, <2>1, OneHandMoves DEF DecidesBefore
  <2>2. CASE CommitAlert(c)
    <3>1. c = t /\ tasks["timeout"] = 0
      BY <1>1, <2>2 DEF CommitAlert, HandTyped, DecidesBefore
    <3>2. tasks'["timeout"] = 1
      BY <2>2, <3>1 DEF CommitAlert, AddTask, CountsTyped, Kinds
    <3>3. \A d \in Consumers : hand'[d].pc \notin {"alert", "refuse"}
      BY <1>1, <1>7, <2>2, <3>1, OneHandMoves, PcMoves DEF CommitAlert, HandTyped
    <3>4. journey.deleted => journey' = journey
      BY <1>3, <2>2 DEF CommitAlert
    <3>5. ~journey.deleted =>
             /\ journey'.attempts = journey.attempts + 1
             /\ journey'.status = "timeout" /\ journey'.alert = "triggered"
      <4>1. ~journey.deleted =>
               journey' = [journey EXCEPT !.status = "timeout",
                             !.alert = "triggered", !.attempts = @ + 1]
        BY <1>3, <2>2 DEF CommitAlert
      <4>. QED  BY <4>1
    <3>6. AlertIsRecorded'
      BY <3>1, <3>2, <3>4, <3>5 DEF AlertIsRecorded
    <3>. QED  BY <3>3, <3>6 DEF DecidesBefore
  <2>3. CASE RefuseAlert(c)
    <3>1. c = t /\ tasks["timeout"] = 0
      BY <1>1, <2>3 DEF RefuseAlert, HandTyped, DecidesBefore
    <3>2. UNCHANGED tasks
      BY <2>3 DEF RefuseAlert, outVars
    <3>3. \/ journey' = journey
          \/ journey'.deleted = journey.deleted
             /\ journey'.attempts = journey.attempts
      <4>1. \/ journey' = journey
            \/ journey' = [journey EXCEPT !.status = "timeout",
                                          !.alert = "failed"]
        BY <1>3, <2>3 DEF RefuseAlert
      <4>. QED  BY <4>1
    <3>4. AlertIsRecorded'
      BY <3>1, <3>2, <3>3 DEF AlertIsRecorded
    <3>. QED  BY <2>1, <3>1, <3>2, <3>4
  <2>4. CASE StampReminder(c)
    <3>1. UNCHANGED tasks /\ hand'[c].pc = "publish"
      BY <2>4, PcMoves DEF StampReminder, outVars
    <3>. QED  BY <1>3, <1>4, <2>1, <2>4, <3>1 DEF StampReminder
  <2>5. CASE ReadForTimeout(c)
    <3>1. UNCHANGED <<tasks, journey>>
      BY <2>5 DEF ReadForTimeout, outVars, rowVars
    <3>2. hand'[c].pc = "finish" \/ tasks["timeout"] = 0
      BY <2>5, PcMoves DEF ReadForTimeout, TimedOut, AlertsBounded
    <3>. QED  BY <1>4, <2>1, <3>1, <3>2
  <2>6. CASE CreateReminder(c)
    <3>1. tasks'["timeout"] = tasks["timeout"] /\ UNCHANGED journey
      BY <2>6 DEF CreateReminder, AddTask, rowVars, CountsTyped, Kinds
    <3>2. hand'[c].pc = "stamp"
      BY <2>6, PcMoves DEF CreateReminder
    <3>. QED  BY <1>4, <2>1, <3>1, <3>2
  <2>7. CASE \/ ReadForReminder(c) \/ PublishSMS(c) \/ Finish(c) \/ Retry(c)
             \/ Crash(c)
    <3>1. UNCHANGED <<tasks, journey>>
      BY <2>7 DEF ReadForReminder, PublishSMS, Finish, Retry, Crash, outVars,
         rowVars
    <3>2. hand'[c].pc \in {"create", "finish", "idle"}
      BY <2>7, PcMoves DEF ReadForReminder, PublishSMS, Retry, Crash
    <3>. QED  BY <1>4, <2>1, <3>1, <3>2
  <2>8. ASSUME NEW m \in BagToSet(queue), Take(c, m) PROVE Recorded'
    <3>1. UNCHANGED <<tasks, journey>>
      BY <2>8 DEF Take, outVars, rowVars
    <3>. QED  BY <1>4, <2>1, <2>8, <3>1, PcMoves
  <2>. QED  BY <1>7, <2>2, <2>3, <2>4, <2>5, <2>6, <2>7, <2>8 DEF Consume
<1>8. CASE UNCHANGED journeyVars \/ Tick \/ Schedule
  <2>1. UNCHANGED <<hand, tasks, sms, journey>>
    <3>1. CASE UNCHANGED journeyVars \/ Tick
      BY <3>1 DEF journeyVars, rowVars, outVars, Tick
    <3>2. CASE Schedule
      BY <3>2 DEF rowVars, outVars, Schedule, CheckJourneyTimeouts,
         CheckOverdueJourneys, ScanRead, ScanNothing, ScanRemind,
         ScanMarkRemind, ScanTimeout, ScanMarkTimeout, OverdueRead,
         OverduePublish, SchedulerStops
    <3>. QED  BY <1>8, <3>1, <3>2
  <2>. QED  BY <1>4, <1>5, <2>1
<1>. QED  BY <1>6, <1>7, <1>8 DEF JourneyNext

(* Unless the user deleted the journey meanwhile, the row tells what the   *)
(* contacts have been told, whoever writes it in between.                  *)
THEOREM JourneyAlertRecorded ==
    ASSUME Cardinality(TimeoutConsumers) = 1
    PROVE  JourneySpec => []AlertIsRecorded
<1>1. JourneyInit => Recorded
  BY DEF JourneyInit, Recorded, DecidesBefore, AlertIsRecorded, Idle, Kinds
<1>2. Typed /\ Notified /\ Recorded /\ [JourneyNext]_journeyVars => Recorded'
  BY RecordedStep DEF Notified
<1>3. Recorded => AlertIsRecorded
  BY DEF Recorded
<1>. QED  BY <1>1, <1>2, <1>3, JourneyTyped, JourneyNotified, PTL
          DEF JourneySpec

-----------------------------------------------------------------------------
(* The reminder comes before the alert                                     *)

Reminders == {m \in BagToSet(queue) : m.kind = "remind"}

(* A time that a request is about to write leaves the user Lead.           *)
UpdatesLeaveTime ==
    \A r \in Requests :
        request[r].pc = "update" => request[r].time >= now + Lead

(* The scan of the instant a journey is due at, if no earlier one, marks   *)
(* its reminder.                                                           *)
DueIsMarked ==
    journey.status = "ongoing" =>
        /\ journey.due < now => remindMark
        /\ journey.due = now /\ scanned =>
              remindMark \/ scan.pc \in {"remind", "markRemind"}

(* Nobody reminds before the scan has published its one reminder.          *)
NothingBeforeScan ==
    ~remindMark /\ scan.pc # "markRemind" =>
        /\ Reminders = {} /\ ~journey.reminded
        /\ \A c \in RemindConsumers : hand[c].pc = "idle"

(* The scan's second phase comes after the mark of its first; and what it  *)
(* is about to publish will come in time.                                  *)
ScanIsOrdered ==
    /\ scan.pc \in {"timeout", "markTimeout"} => remindMark
    /\ scan.pc = "remind" =>
          /\ scan.reminded => remindMark
          /\ scan.delay <= Window
          /\ journey.status = "ongoing" =>
                now + scan.delay < journey.due + Grace

(* A reminder on its way comes before the alert is due, also when the user *)
(* has moved the return time since.                                        *)
RemindersInTime ==
    \A m \in Reminders :
        /\ m.delay <= Window
        /\ journey.status = "ongoing" => now + m.delay < journey.due + Grace

(* Once somebody alerts, the reminder has come.                            *)
AlertsComeLast ==
    tasks["timeout"] > 0 \/ (\E c \in Consumers : hand[c].pc = "alert") =>
        remindMark /\ Reminders = {}

InOrder == /\ UpdatesLeaveTime /\ DueIsMarked /\ NothingBeforeScan
           /\ ScanIsOrdered /\ RemindersInTime /\ AlertsComeLast

(* Ten minutes each in the code: what a request leaves, how far the scan   *)
(* looks ahead and how long the alert waits.                               *)
TimesFit == 1 <= Lead /\ 1 <= Grace /\ Window < Lead + Grace

(* A step after which nothing has failed is none of those that do.         *)
LEMMA NothingFails ==
    ASSUME Typed, NothingFailed, NothingFailed', [JourneyNext]_journeyVars
    PROVE  NoFault /\ \A kind : ~Fault(kind)
<1>1. ASSUME NEW kind, Fault(kind) PROVE FALSE
  BY <1>1, FaultCounted DEF NothingFailed, Typed, CountsTyped
<1>. QED  BY <1>1, FaultChanges

(* Timeout messages are no reminders.                                      *)
LEMMA TimeoutMessages ==
    ASSUME Typed, NEW delay \in Nat, Post("timeout", delay)
    PROVE  Reminders' = Reminders
<1>. PICK cut \in 0..Truncation :
        queue' = With(queue, Message("timeout", delay - cut, FALSE))
  BY DEF Post
<1>. DEFINE m == Message("timeout", delay - cut, FALSE)
<1>1. BagToSet(queue') = BagToSet(queue) \cup {m}
  BY WithIsABag DEF Typed, QueueTyped
<1>2. m.kind = "timeout"
  BY DEF Message
<1>. HIDE DEF m
<1>. QED  BY <1>1, <1>2 DEF Reminders

(* A reminder waits no longer than it was published for.                   *)
LEMMA ReminderMessages ==
    ASSUME Typed, NEW delay \in Nat, Post("remind", delay)
    PROVE  \A n \in Reminders' : n \in Reminders \/ n.delay \in 0..delay
<1>. PICK cut \in 0..Truncation :
        cut <= delay /\ queue' = With(queue, Message("remind", delay - cut, FALSE))
  BY DEF Post
<1>. DEFINE m == Message("remind", delay - cut, FALSE)
<1>1. BagToSet(queue') = BagToSet(queue) \cup {m}
  BY WithIsABag DEF Typed, QueueTyped
<1>2. m.delay \in 0..delay
  BY Constants DEF Message
<1>. HIDE DEF m
<1>. QED  BY <1>1, <1>2 DEF Reminders

(* Reminders are messages.                                                 *)
LEMMA RemindersWait ==
    ASSUME Typed PROVE \A m \in Reminders : m \in Messages /\ m.delay \in Nat
  BY DEF Typed, QueueTyped, Messages, Reminders

(* What the order is about, typed.                                         *)
LEMMA TimesAre ==
    ASSUME Typed
    PROVE  /\ now \in Nat /\ journey.due \in Nat
           /\ scan.delay \in Nat /\ Window \in Nat /\ Grace \in Nat
           /\ Lead \in Nat /\ tasks["timeout"] \in Nat
           /\ journey.reminded \in BOOLEAN
           /\ \A r \in Requests : request[r].time \in Nat
  BY Constants DEF Typed, RowTyped, Rows, SchedulerTyped, CountsTyped, Kinds,
     RequestTyped, RequestStates

(* Time waits for the scan, the requests and what is due.                  *)
LEMMA OrderTick ==
    ASSUME Typed, TimesFit, Timely, InOrder, Tick, Typed'
    PROVE  InOrder'
<1>. USE TimesAre, Constants DEF InOrder, TimesFit
<1>1. /\ UpToDate /\ now' \in {now, now + 1} /\ ~scanned'
      /\ UNCHANGED <<journey, remindMark, hand, request, scan, tasks>>
  BY DEF Tick, rowVars, markVars, userVars, outVars
<1>2. Reminders' = {Sooner(m) : m \in Reminders}
  <2>1. BagToSet(queue)' = {Sooner(m) : m \in BagToSet(queue)}
    BY TickTyped DEF Typed, Tick
  <2>2. \A m \in BagToSet(queue) : Sooner(m).kind = m.kind
    BY SoonerTyped DEF Typed, QueueTyped
  <2>. QED  BY <2>1, <2>2 DEF Reminders
<1>3. UpdatesLeaveTime'
  BY <1>1 DEF UpToDate, UpdatesLeaveTime
<1>4. DueIsMarked'
  <2>1. scanned /\ scan.pc = "idle"
    BY <1>1 DEF UpToDate
  <2>2. journey.status = "ongoing" /\ journey.due <= now => remindMark
    BY <2>1 DEF DueIsMarked
  <2>3. journey.due < now' => journey.due <= now
    BY <1>1
  <2>. QED  BY <1>1, <2>2, <2>3 DEF DueIsMarked
<1>5. NothingBeforeScan'
  BY <1>1, <1>2 DEF NothingBeforeScan
<1>6. ScanIsOrdered'
  BY <1>1 DEF ScanIsOrdered, UpToDate
<1>7. RemindersInTime'
  <2>. SUFFICES ASSUME NEW m \in Reminders
                PROVE  /\ Sooner(m).delay <= Window
                       /\ journey.status = "ongoing" =>
                             now' + Sooner(m).delay < journey.due + Grace
    BY <1>1, <1>2 DEF RemindersInTime
  <2>1. m \in Messages /\ m.delay \in Nat /\ m.delay > 0
    BY <1>1, RemindersWait DEF UpToDate, Reminders
  <2>2. Sooner(m).delay = m.delay - 1
    BY <2>1, SoonerTyped
  <2>. QED  BY <1>1, <2>1, <2>2 DEF RemindersInTime
<1>8. AlertsComeLast'
  BY <1>1, <1>2 DEF AlertsComeLast
<1>. QED  BY <1>3, <1>4, <1>5, <1>6, <1>7, <1>8

(* A request moves the return time to where every reminder on its way      *)
(* still comes before the alert.                                           *)
LEMMA OrderRequests ==
    ASSUME Typed, TimesFit, DeletedIsCancelled, InOrder, NoFault,
           \A kind : ~Fault(kind), NEW r \in Requests, Serve(r), Typed'
    PROVE  InOrder'
<1>. USE TimesAre, Constants DEF InOrder, TimesFit
<1>0. journey'.due \in Nat
  BY DEF Typed, RowTyped, Rows
<1>1. UNCHANGED <<now, remindMark, hand, scan, scanned, tasks>>
  BY DEF outVars, markVars, schedulerVars, Serve, Answer, UpdateRead,
     CompleteRead, DeleteRead, Begin, UpdateWrite, UpdatePublish,
     CompleteWrite, DeleteWrite, RequestLost
<1>2. Reminders' = Reminders
  <2>1. CASE UpdatePublish(r)
    BY <2>1, TimeoutMessages DEF UpdatePublish
  <2>2. CASE UNCHANGED queue
    BY <2>2 DEF Reminders
  <2>. QED  BY <2>1, <2>2 DEF Serve, Answer, UpdateRead, CompleteRead,
       DeleteRead, Begin, UpdateWrite, CompleteWrite, DeleteWrite, RequestLost
<1>3. /\ journey'.reminded = journey.reminded
      /\ journey'.status = "ongoing" =>
            /\ journey.status = "ongoing"
            /\ journey'.due = journey.due \/ journey'.due >= now + Lead
  <2>. USE DEF Typed, RowTyped, Rows
  <2>1. \A row : UpdateRow(row) => journey' = journey \/ journey' = row
    BY DEF UpdateRow
  <2>2. CASE UpdateWrite(r)
    <3>1. journey' = journey \/ journey' = [journey EXCEPT !.due = request[r].time]
      BY <2>1, <2>2 DEF UpdateWrite
    <3>2. request[r].time >= now + Lead
      BY <2>2 DEF UpdateWrite, UpdatesLeaveTime
    <3>. QED  BY <3>1, <3>2
  <2>3. CASE CompleteWrite(r)
    BY <2>1, <2>3 DEF CompleteWrite
  <2>4. CASE DeleteWrite(r)
    <3>1. \/ journey' = journey
          \/ journey' = [journey EXCEPT !.status = "cancelled", !.deleted = TRUE]
      BY <2>1, <2>4 DEF DeleteWrite
    <3>. QED  BY <3>1
  <2>5. CASE UNCHANGED journey
    BY <2>5
  <2>. QED  BY <2>2, <2>3, <2>4, <2>5 DEF rowVars, Serve, Answer, UpdateRead,
       CompleteRead, DeleteRead, Begin, UpdatePublish, RequestLost
<1>4. UpdatesLeaveTime'
  <2>1. \A q \in Requests : q # r => request'[q] = request[q]
    BY DEF Serve, Answer, UpdateRead, CompleteRead, DeleteRead, Begin,
       UpdateWrite, UpdatePublish, CompleteWrite, DeleteWrite, RequestLost,
       GotoRequest, Typed, RequestTyped
  <2>2. \A pc, time : GotoRequest(r, pc, time) =>
           request'[r].pc = pc /\ request'[r].time = time
    BY DEF GotoRequest, Typed, RequestTyped
  <2>3. request'[r].pc = "update" => request'[r].time >= now + Lead
    BY <2>2 DEF Serve, Answer, UpdateRead, CompleteRead, DeleteRead, Begin,
       UpdateWrite, UpdatePublish, CompleteWrite, DeleteWrite, RequestLost
  <2>. QED  BY <1>1, <2>1, <2>3 DEF UpdatesLeaveTime
<1>5. DueIsMarked'
  BY <1>0, <1>1, <1>3 DEF DueIsMarked
<1>6. NothingBeforeScan'
  BY <1>1, <1>2, <1>3 DEF NothingBeforeScan
<1>7. ScanIsOrdered'
  <2>1. scan.pc = "remind" /\ journey'.status = "ongoing"
           => now + scan.delay < journey'.due + Grace
    BY <1>0, <1>3 DEF ScanIsOrdered
  <2>. QED  BY <1>1, <2>1 DEF ScanIsOrdered
<1>8. RemindersInTime'
  BY <1>0, <1>1, <1>2, <1>3, RemindersWait DEF RemindersInTime
<1>9. AlertsComeLast'
  BY <1>1, <1>2 DEF AlertsComeLast
<1>. QED  BY <1>4, <1>5, <1>6, <1>7, <1>8, <1>9

(* The scan publishes one reminder, and marks it before it goes on.        *)
LEMMA OrderScheduler ==
    ASSUME Typed, TimesFit, DeletedIsCancelled, InOrder, NoFault,
           \A kind : ~Fault(kind), Schedule, Typed'
    PROVE  InOrder'
<1>. USE TimesAre, Constants DEF InOrder, TimesFit
<1>1. UNCHANGED <<now, journey, hand, request, tasks>>
  BY DEF outVars, rowVars, userVars, Schedule, CheckJourneyTimeouts,
     CheckOverdueJourneys, ScanRead, ScanNothing, ScanRemind, ScanMarkRemind,
     ScanTimeout, ScanMarkTimeout, OverdueRead, OverduePublish, SchedulerStops
<1>2. UpdatesLeaveTime'
  BY <1>1 DEF UpdatesLeaveTime
<1>3. \A pc : GotoScan(pc) => /\ scan'.pc = pc /\ scan'.delay = scan.delay
                              /\ scan'.reminded = scan.reminded
  BY DEF GotoScan, Typed, SchedulerTyped
<1>4. NoScan.pc = "idle"
  BY DEF NoScan
<1>5. UNCHANGED queue => Reminders' = Reminders
  BY DEF Reminders
<1>6. CASE ScanRead
  <2>1. /\ scan.pc = "idle" /\ scanned' /\ UNCHANGED <<remindMark, queue>>
        /\ journey.due >= now /\ journey.due <= now + Window
    BY <1>6 DEF ScanRead, markVars, Approaching
  <2>2. /\ scan'.pc = "remind" /\ scan'.delay = journey.due - now
        /\ scan'.reminded = journey.reminded
    BY <1>6 DEF ScanRead
  <2>3. DueIsMarked' /\ NothingBeforeScan' /\ RemindersInTime' /\ AlertsComeLast'
    BY <1>1, <1>5, <2>1, <2>2
       DEF DueIsMarked, NothingBeforeScan, RemindersInTime, AlertsComeLast
  <2>4. ScanIsOrdered'
    <3>1. scan'.reminded => remindMark'
      BY <2>1, <2>2 DEF NothingBeforeScan
    <3>2. scan'.delay <= Window /\ now' + scan'.delay < journey'.due + Grace
      BY <1>1, <2>1, <2>2
    <3>. QED  BY <2>2, <3>1, <3>2 DEF ScanIsOrdered
  <2>. QED  BY <1>2, <2>3, <2>4
<1>7. CASE ScanNothing
  <2>1. /\ ~Approaching /\ UNCHANGED <<remindMark, queue, scan>>
    BY <1>7 DEF ScanNothing, markVars
  <2>2. journey.status = "ongoing" => journey.due # now
    BY <2>1 DEF Approaching, Listed, DeletedIsCancelled
  <2>. QED  BY <1>1, <1>2, <1>5, <2>1, <2>2 DEF DueIsMarked,
            NothingBeforeScan, RemindersInTime, AlertsComeLast, ScanIsOrdered
<1>8. CASE ScanRemind
  <2>1. scan.pc = "remind" /\ UNCHANGED <<remindMark, scanned>>
    BY <1>8 DEF ScanRemind, markVars
  <2>2. CASE remindMark /\ GotoScan("timeout") /\ UNCHANGED queue
    BY <1>1, <1>2, <1>3, <1>5, <2>1, <2>2 DEF DueIsMarked, NothingBeforeScan,
       RemindersInTime, AlertsComeLast, ScanIsOrdered
  <2>3. CASE ~remindMark /\ Post("remind", scan.delay)
               /\ GotoScan("markRemind")
    <3>1. \A n \in Reminders' : n \in Reminders \/ n.delay \in 0..scan.delay
      BY <2>3, ReminderMessages
    <3>2. RemindersInTime'
      <4>1. /\ scan.delay <= Window
            /\ journey.status = "ongoing" =>
                  now + scan.delay < journey.due + Grace
        BY <2>1 DEF ScanIsOrdered
      <4>2. \A n \in Reminders' :
               /\ n.delay <= Window
               /\ journey.status = "ongoing" =>
                     now + n.delay < journey.due + Grace
        BY <3>1, <4>1, RemindersWait DEF RemindersInTime
      <4>. QED  BY <1>1, <4>2 DEF RemindersInTime
    <3>3. DueIsMarked' /\ NothingBeforeScan' /\ ScanIsOrdered'
      BY <1>1, <1>3, <2>1, <2>3
         DEF DueIsMarked, NothingBeforeScan, ScanIsOrdered
    <3>4. AlertsComeLast'
      BY <1>1, <2>3 DEF AlertsComeLast
    <3>. QED  BY <1>2, <3>2, <3>3, <3>4
  <2>. QED  BY <1>8, <2>1, <2>2, <2>3 DEF ScanRemind, ScanIsOrdered
<1>9. CASE ScanMarkRemind
  <2>1. remindMark' /\ GotoScan("timeout") /\ UNCHANGED <<queue, scanned>>
    BY <1>9 DEF ScanMarkRemind
  <2>. QED  BY <1>1, <1>2, <1>3, <1>5, <2>1 DEF DueIsMarked,
            NothingBeforeScan, RemindersInTime, AlertsComeLast, ScanIsOrdered
<1>10. CASE ScanTimeout
  <2>1. /\ scan.pc = "timeout" /\ UNCHANGED <<remindMark, scanned>>
        /\ scan'.pc \in {"idle", "markTimeout"}
    BY <1>3, <1>4, <1>10 DEF ScanTimeout, markVars
  <2>2. Reminders' = Reminders
    BY <1>5, <1>10, TimeoutMessages DEF ScanTimeout
  <2>3. remindMark
    BY <2>1 DEF ScanIsOrdered
  <2>. QED  BY <1>1, <1>2, <2>1, <2>2, <2>3 DEF DueIsMarked,
            NothingBeforeScan, RemindersInTime, AlertsComeLast, ScanIsOrdered
<1>11. CASE ScanMarkTimeout
  <2>1. /\ remindMark /\ scan'.pc = "idle"
        /\ UNCHANGED <<remindMark, scanned, queue>>
    BY <1>4, <1>11 DEF ScanMarkTimeout, ScanIsOrdered
  <2>. QED  BY <1>1, <1>2, <1>5, <2>1 DEF DueIsMarked,
            NothingBeforeScan, RemindersInTime, AlertsComeLast, ScanIsOrdered
<1>12. CASE OverdueRead \/ OverduePublish
  <2>1. UNCHANGED <<remindMark, scan, scanned>>
    BY <1>12 DEF OverdueRead, OverduePublish, markVars
  <2>2. Reminders' = Reminders
    BY <1>5, <1>12, TimeoutMessages DEF OverdueRead, OverduePublish
  <2>. QED  BY <1>1, <1>2, <2>1, <2>2 DEF DueIsMarked,
            NothingBeforeScan, RemindersInTime, AlertsComeLast, ScanIsOrdered
<1>. QED  BY <1>6, <1>7, <1>8, <1>9, <1>10, <1>11, <1>12
          DEF Schedule, CheckJourneyTimeouts, CheckOverdueJourneys,
              SchedulerStops

(* A consumer reminds only on a reminder, and alerts only on a journey     *)
(* that is overdue.                                                        *)
LEMMA OrderConsumers ==
    ASSUME Typed, TimesFit, DeletedIsCancelled, InOrder, NoFault,
           \A kind : ~Fault(kind), [JourneyNext]_journeyVars,
           NEW c \in Consumers, Consume(c), Typed'
    PROVE  InOrder'
<1>. USE TimesAre, Constants DEF InOrder, TimesFit
<1>0. \A d \in Consumers : d # c => hand'[d] = hand[d]
  BY OneHandMoves
<1>1. UNCHANGED <<now, remindMark, request, scan, scanned>>
  BY DEF markVars, userVars, schedulerVars, Consume, Take, ReadForReminder,
     CreateReminder, StampReminder, ReadForTimeout, CommitAlert, RefuseAlert,
     PublishSMS, Finish, Retry
<1>2. UpdatesLeaveTime'
  BY <1>1 DEF UpdatesLeaveTime
<1>3. Reminders' \subseteq Reminders
  <2>1. ASSUME NEW m \in BagToSet(queue), Take(c, m)
        PROVE  BagToSet(queue') \subseteq BagToSet(queue)
    BY <2>1, WithoutIsABag DEF Take, Typed, QueueTyped
  <2>2. BagToSet(queue') \subseteq BagToSet(queue)
    BY <2>1 DEF Consume, ReadForReminder, CreateReminder, StampReminder,
       ReadForTimeout, CommitAlert, RefuseAlert, PublishSMS, Finish, Retry
  <2>. QED  BY <2>2 DEF Reminders
<1>4. journey'.status = "ongoing" =>
         journey.status = "ongoing" /\ journey'.due = journey.due
  <2>. USE DEF Typed, RowTyped, Rows
  <2>1. \A row : UpdateRow(row) => journey' = journey \/ journey' = row
    BY DEF UpdateRow
  <2>2. CASE StampReminder(c)
    BY <2>1, <2>2 DEF StampReminder
  <2>3. CASE CommitAlert(c) \/ RefuseAlert(c)
    <3>1. \/ journey' = journey
          \/ journey' = [journey EXCEPT !.status = "timeout", !.alert = "failed"]
          \/ journey' = [journey EXCEPT !.status = "timeout",
                            !.alert = "triggered", !.attempts = @ + 1]
      BY <2>1, <2>3 DEF CommitAlert, RefuseAlert
    <3>. QED  BY <3>1
  <2>. QED  BY <2>2, <2>3 DEF rowVars, Consume, Take, ReadForReminder,
            CreateReminder, ReadForTimeout, PublishSMS, Finish, Retry
<1>5. DueIsMarked'
  BY <1>1, <1>4 DEF DueIsMarked
<1>6. ScanIsOrdered'
  BY <1>1, <1>4 DEF ScanIsOrdered
<1>7. RemindersInTime'
  BY <1>1, <1>3, <1>4 DEF RemindersInTime
<1>8. NothingBeforeScan'
  <2>. SUFFICES ASSUME ~remindMark, scan.pc # "markRemind"
                PROVE  /\ Reminders' = {} /\ ~journey'.reminded
                       /\ \A d \in RemindConsumers : hand'[d].pc = "idle"
    BY <1>1 DEF NothingBeforeScan
  <2>1. /\ Reminders = {} /\ ~journey.reminded
        /\ \A d \in RemindConsumers : hand[d].pc = "idle"
    BY DEF NothingBeforeScan
  <2>2. Kind(c) = "remind" => c \in RemindConsumers
    BY DEF Kind
  <2>3. c \notin RemindConsumers
    <3>. SUFFICES ASSUME c \in RemindConsumers PROVE FALSE
      OBVIOUS
    <3>1. hand[c].pc = "idle" /\ Kind(c) = "remind"
      BY <2>1, KindIs
    <3>2. PICK m \in BagToSet(queue) : Take(c, m)
      BY <3>1 DEF Consume, ReadForReminder, CreateReminder, StampReminder,
         ReadForTimeout, CommitAlert, RefuseAlert, PublishSMS, Finish, Retry
    <3>3. m \in Reminders
      BY <3>1, <3>2 DEF Take, Reminders
    <3>. QED  BY <2>1, <3>3
  <2>4. ~StampReminder(c)
    BY <2>3 DEF StampReminder, Typed, HandTyped
  <2>5. journey'.reminded = journey.reminded
    <3>1. \A row : UpdateRow(row) => journey' = journey \/ journey' = row
      BY DEF UpdateRow
    <3>2. CASE CommitAlert(c) \/ RefuseAlert(c)
      <4>1. \/ journey' = journey
            \/ journey' = [journey EXCEPT !.status = "timeout",
                                          !.alert = "failed"]
            \/ journey' = [journey EXCEPT !.status = "timeout",
                              !.alert = "triggered", !.attempts = @ + 1]
        BY <3>1, <3>2 DEF CommitAlert, RefuseAlert
      <4>. QED  BY <4>1 DEF Typed, RowTyped, Rows
    <3>. QED  BY <2>4, <3>2 DEF rowVars, Consume, Take, ReadForReminder,
              CreateReminder, ReadForTimeout, PublishSMS, Finish, Retry
  <2>. QED  BY <1>0, <1>3, <2>1, <2>3, <2>5 DEF Consumers
<1>9. AlertsComeLast'
  <2>1. CASE TimedOut
    <3>1. remindMark
      BY <2>1 DEF TimedOut, DueIsMarked
    <3>2. Reminders = {}
      <4>. SUFFICES ASSUME NEW m \in Reminders PROVE FALSE
        OBVIOUS
      <4>1. now + m.delay < journey.due + Grace /\ m.delay \in Nat
        BY <2>1, RemindersWait DEF TimedOut, RemindersInTime
      <4>. QED  BY <2>1, <4>1 DEF TimedOut
    <3>. QED  BY <1>1, <1>3, <3>1, <3>2 DEF AlertsComeLast
  <2>2. CASE ~TimedOut
    <3>1. hand'[c].pc = "alert" => hand[c].pc = "alert"
      <4>1. ASSUME NEW m \in BagToSet(queue), Take(c, m)
            PROVE  hand'[c].pc # "alert"
        BY <4>1, PcMoves
      <4>. QED  BY <2>2, <4>1, PcMoves DEF Consume, ReadForReminder,
                CreateReminder, StampReminder, ReadForTimeout, CommitAlert,
                RefuseAlert, PublishSMS, Finish, Retry
    <3>2. \/ tasks'["timeout"] = tasks["timeout"]
          \/ hand[c].pc = "alert"
      <4>1. CASE CreateReminder(c)
        BY <4>1 DEF CreateReminder, AddTask, Typed, CountsTyped, Kinds
      <4>. QED  BY <4>1 DEF outVars, Consume, Take, ReadForReminder,
                StampReminder, ReadForTimeout, CommitAlert, RefuseAlert,
                PublishSMS, Finish, Retry
    <3>. QED  BY <1>0, <1>1, <1>3, <3>1, <3>2 DEF AlertsComeLast
  <2>. QED  BY <2>1, <2>2
<1>. QED  BY <1>2, <1>5, <1>6, <1>7, <1>8, <1>9

(* A journey is created with its return time ahead.                        *)
LEMMA OrderInit == ASSUME JourneyInit, TimesFit PROVE InOrder
<1>1. /\ journey.due \in Lead..MaxDue /\ ~journey.reminded /\ now = 0
      /\ scan.pc = "idle" /\ tasks["timeout"] = 0
      /\ \A c \in Consumers : hand[c].pc = "idle"
      /\ \A r \in Requests : request[r].pc = "idle"
  <2>1. journey.due \in Lead..MaxDue /\ ~journey.reminded
    BY DEF JourneyInit
  <2>2. scan.pc = "idle" /\ tasks["timeout"] = 0 /\ now = 0
    BY DEF JourneyInit, NoScan, Kinds
  <2>3. /\ \A c \in Consumers : hand[c].pc = "idle"
        /\ \A r \in Requests : request[r].pc = "idle"
    BY DEF JourneyInit, Idle, NoRequest
  <2>. QED  BY <2>1, <2>2, <2>3
<1>2. Reminders = {}
  <2>1. CASE queue = EmptyBag
    BY <2>1, NoneIsABag DEF Reminders
  <2>2. ASSUME NEW delay,
               queue = SetToBag({Message("timeout", delay, FALSE)})
        PROVE  Reminders = {}
    <3>. DEFINE m == Message("timeout", delay, FALSE)
    <3>1. BagToSet(queue) = {m} /\ m.kind = "timeout"
      BY <2>2, OneIsABag DEF Message
    <3>. QED  BY <3>1 DEF Reminders
  <2>. QED  BY <2>1, <2>2 DEF JourneyInit
<1>3. journey.due > now
  BY <1>1, Constants DEF TimesFit
<1>. QED  BY <1>1, <1>2, <1>3, Constants DEF InOrder, UpdatesLeaveTime,
          DueIsMarked, NothingBeforeScan, ScanIsOrdered, RemindersInTime,
          AlertsComeLast, Consumers

OrderKept == Timely /\ NothingFailed => InOrder

(* When nothing fails and everyone keeps up, the contacts are not alerted  *)
(* before the user's reminder has come, however the user moves the return  *)
(* time: for every number of requests, consumers and instants.             *)
THEOREM JourneyRemindedFirst ==
    ASSUME TimesFit PROVE JourneySpec => []RemindedBeforeAlert
<1>1. JourneyInit => OrderKept
  BY OrderInit DEF OrderKept
<1>2. /\ Typed /\ Typed' /\ DeletedIsCancelled /\ OrderKept
      /\ [JourneyNext]_journeyVars
      => OrderKept'
  <2>. SUFFICES ASSUME Typed, Typed', DeletedIsCancelled, OrderKept,
                       [JourneyNext]_journeyVars, Timely, NothingFailed'
                PROVE  InOrder'
    BY DEF OrderKept
  <2>1. NothingFailed
    <3>1. DOMAIN faults = {"crash", "db", "redis", "publish"}
          /\ DOMAIN faults' = {"crash", "db", "redis", "publish"}
      BY FaultsGrow DEF Typed, CountsTyped
    <3>2. \A k \in {"crash", "db", "redis", "publish"} :
             faults[k] \in Nat /\ faults'[k] >= faults[k]
      BY FaultsGrow DEF Typed, CountsTyped
    <3>. QED  BY <3>1, <3>2 DEF NothingFailed
  <2>2. InOrder
    BY <2>1 DEF OrderKept
  <2>3. NoFault /\ \A kind : ~Fault(kind)
    BY <2>1, NothingFails
  <2>4. CASE UNCHANGED journeyVars
    BY <2>2, <2>4 DEF journeyVars, rowVars, markVars, userVars, schedulerVars,
       outVars, InOrder, UpdatesLeaveTime, DueIsMarked, NothingBeforeScan,
       ScanIsOrdered, RemindersInTime, AlertsComeLast, Reminders
  <2>5. CASE Tick
    BY <2>2, <2>5, OrderTick
  <2>6. CASE Schedule
    BY <2>2, <2>3, <2>6, OrderScheduler
  <2>7. ASSUME NEW r \in Requests, Serve(r) PROVE InOrder'
    BY <2>2, <2>3, <2>7, OrderRequests
  <2>8. ASSUME NEW c \in Consumers, Consume(c) \/ Crash(c) PROVE InOrder'
    <3>1. ~Crash(c)
      BY <2>3 DEF Crash
    <3>. QED  BY <2>2, <2>3, <2>8, <3>1, OrderConsumers
  <2>. QED  BY <2>4, <2>5, <2>6, <2>7, <2>8 DEF JourneyNext
<1>3. Typed /\ OrderKept => RemindedBeforeAlert
  BY DEF OrderKept, InOrder, AlertsComeLast, RemindedBeforeAlert, Reminders
<1>. QED  BY <1>1, <1>2, <1>3, JourneyTyped, JourneyNotified, PTL
          DEF JourneySpec, Notified

=============================================================================
