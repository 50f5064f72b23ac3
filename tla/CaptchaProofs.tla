--------------------------- MODULE CaptchaProofs ---------------------------
(***************************************************************************)
(* Proofs about the SMS codes and the rate limiter they are behind, for    *)
(* every number of concurrent requests, limits and failures of Redis.      *)
(*                                                                         *)
(*   LimiterStep         what the composition does to the limiter: its own *)
(*                       steps, and handlers that give up without Redis;   *)
(*                       LimitHolds is kept by each of them                *)
(*   Typed, Counted      types, and what has been done together with what  *)
(*                       is still to come of it stays within the requests  *)
(*                       that arrived and the limits: DailyLimits          *)
(*   LoginsBounded       behind OneLoginPerCode                            *)
(*   CodesKept           behind DeliveredCodeWorks                         *)
(***************************************************************************)
EXTENDS Captcha, Counting, SequenceTheorems, TLAPS

(* A handler that has lost Redis gives up its slot of the limiter.         *)
GivesUp(r) ==
    /\ gate[r] = "inside"
    /\ Limiter!RedisFault
    /\ Limiter!Pass(r, "outside")
    /\ UNCHANGED <<window, aged, blocked>>

(* What a step of the composition is to the limiter.                       *)
LimiterStep ==
    \/ Limiter!LimiterNext
    \/ \E r \in Requests : GivesUp(r)
    \/ UNCHANGED limiterVars

(* The part of the type invariant that says where requests are.            *)
RequestsTyped ==
    /\ req \in [Requests -> Request \cup {None}]
    /\ \A r \in Requests :
          /\ gate[r] # "outside" => req[r] # None
          /\ req[r] # None =>
                (req[r].pc \in PCs \ {"gate"} <=> gate[r] = "inside")

GateTyped == Limiter!LimiterTypeOK /\ RequestsTyped

-----------------------------------------------------------------------------
(* The window                                                              *)

(* What sealing an entry does to the window.                               *)
LEMMA SealedWindow ==
    ASSUME window \in Seq(Limiter!Entry), NEW r, NEW fate \in Limiter!Fates,
           Limiter!Seal(r, fate)
    PROVE  /\ window' \in Seq(Limiter!Entry)
           /\ Len(window') = Len(window)
           /\ DOMAIN window' = DOMAIN window
           /\ \A i \in 1..Len(window) :
                 window'[i] = IF window[i] = r THEN fate ELSE window[i]
<1>1. DOMAIN window = 1..Len(window) /\ Len(window) \in Nat
  BY LenProperties
<1>2. window' = [i \in 1..Len(window) |->
                    IF window[i] = r THEN fate ELSE window[i]]
  BY <1>1 DEF Limiter!Seal
<1>3. \A i \in 1..Len(window) :
         (IF window[i] = r THEN fate ELSE window[i]) \in Limiter!Entry
  BY ElementOfSeq DEF Limiter!Entry
<1>4. window' \in [1..Len(window) -> Limiter!Entry]
  BY <1>2, <1>3
<1>5. window' \in Seq(Limiter!Entry)
  BY <1>1, <1>4
<1>6. DOMAIN window' = 1..Len(window')
  BY <1>5, LenProperties
<1>7. Len(window') = Len(window)
  BY <1>1, <1>4, <1>5, <1>6, LenProperties
<1>. QED  BY <1>1, <1>2, <1>5, <1>7, <1>6

(* The window after the clean-up and the ZADD of request r.                *)
LEMMA AddedWindow ==
    ASSUME Limiter!LimiterTypeOK, NEW r \in Requests, Limiter!Add(r)
    PROVE  /\ window' \in Seq(Limiter!Entry)
           /\ Len(window') = Len(window) - aged + 1
           /\ \A i \in 1..(Len(window) - aged) :
                 window'[i] = window[i + aged]
           /\ window'[Len(window')] = r
<1>1. /\ window \in Seq(Limiter!Entry) /\ Len(window) \in Nat
      /\ aged \in Int /\ 0 <= aged /\ aged <= Len(window)
  BY LenProperties DEF Limiter!LimiterTypeOK
<1>. DEFINE rest == SubSeq(window, aged + 1, Len(window))
<1>2. \A i \in (aged + 1)..Len(window) : window[i] \in Limiter!Entry
  BY <1>1, ElementOfSeq
<1>3. /\ rest \in Seq(Limiter!Entry)
      /\ Len(rest) = Len(window) - aged
      /\ \A i \in 1..(Len(window) - aged) : rest[i] = window[i + aged]
  <2>1. /\ rest \in Seq(Limiter!Entry)
        /\ Len(rest) = IF aged + 1 <= Len(window)
                       THEN Len(window) - (aged + 1) + 1 ELSE 0
        /\ \A i \in 1..(Len(window) - (aged + 1) + 1) :
              rest[i] = window[(aged + 1) + i - 1]
    BY <1>1, <1>2, SubSeqProperties
  <2>. HIDE DEF rest
  <2>. QED  BY <1>1, <2>1
<1>4. window' = Append(rest, r) /\ r \in Limiter!Entry
  BY DEF Limiter!Add, Limiter!Entry
<1>. HIDE DEF rest
<1>. QED  BY <1>1, <1>3, <1>4, AppendProperties

(* Every step keeps the types of the limiter.                              *)
LEMMA LimiterTyped ==
    ASSUME Limiter!LimiterTypeOK, LimiterStep
    PROVE  Limiter!LimiterTypeOK'
<1>. USE DEF Limiter!LimiterTypeOK, Limiter!Pass, Limiter!Stages,
     Limiter!RedisFault, Limiter!Entry, Limiter!Fates
<1>1. Len(window) \in Nat /\ MaxRedisFaults \in Nat
  BY LenProperties, CaptchaAssumption
<1>2. ASSUME NEW r \in Requests, Limiter!Add(r) PROVE Limiter!LimiterTypeOK'
  <2>1. Len(window') \in Nat /\ window' \in Seq(Limiter!Entry)
    BY <1>2, AddedWindow, LenProperties
  <2>. QED  BY <1>2, <2>1 DEF Limiter!Add
<1>3. ASSUME NEW r \in Requests, Limiter!Admit(r) \/ Limiter!Refuse(r)
      PROVE  Limiter!LimiterTypeOK'
  <2>1. Len(window') = Len(window) /\ window' \in Seq(Limiter!Entry)
    BY <1>3, SealedWindow DEF Limiter!Admit, Limiter!Refuse, Limiter!Fates
  <2>. QED  BY <1>3, <2>1 DEF Limiter!Admit, Limiter!Refuse
<1>4. ASSUME NEW r \in Requests, Limiter!PipelineFails(r)
      PROVE  Limiter!LimiterTypeOK'
  <2>1. Len(window') = Len(window) /\ window' \in Seq(Limiter!Entry)
    BY <1>4, SealedWindow DEF Limiter!PipelineFails, Limiter!Fates
  <2>. QED  BY <1>1, <1>4, <2>1 DEF Limiter!PipelineFails
<1>5. ASSUME NEW r \in Requests,
             \/ Limiter!Enter(r) \/ Limiter!Block(r)
             \/ Limiter!BlockFails(r) \/ Limiter!Leave(r) \/ GivesUp(r)
      PROVE  Limiter!LimiterTypeOK'
  <2>1. UNCHANGED <<window, aged>>
    BY <1>5 DEF Limiter!Enter, Limiter!Block, Limiter!BlockFails,
       Limiter!Leave, GivesUp
  <2>2. blocked' \in BOOLEAN
    BY <1>5 DEF Limiter!Enter, Limiter!Block, Limiter!BlockFails,
       Limiter!Leave, GivesUp
  <2>3. gate' \in [Requests -> Limiter!Stages]
    BY <1>5 DEF Limiter!Enter, Limiter!Block, Limiter!BlockFails,
       Limiter!Leave, GivesUp
  <2>4. redisFaults' \in 0..MaxRedisFaults
    BY <1>1, <1>5 DEF Limiter!Enter, Limiter!Block, Limiter!BlockFails,
       Limiter!Leave, GivesUp
  <2>. QED  BY <2>1, <2>2, <2>3, <2>4
<1>6. CASE Limiter!Slide \/ Limiter!Unblock \/ UNCHANGED limiterVars
  <2>1. UNCHANGED <<window, gate, redisFaults>>
    BY <1>6 DEF Limiter!Slide, Limiter!Unblock, limiterVars
  <2>2. blocked' \in BOOLEAN
    BY <1>6 DEF Limiter!Slide, Limiter!Unblock, limiterVars
  <2>3. aged' \in 0..Len(window)
    BY <1>1, <1>6 DEF Limiter!Slide, Limiter!Unblock, limiterVars
  <2>. QED  BY <2>1, <2>2, <2>3
<1>. QED  BY <1>2, <1>3, <1>4, <1>5, <1>6
          DEF LimiterStep, Limiter!LimiterNext, Limiter!Middleware

(* The entries of a window w that are in it, after the first a, and those  *)
(* of them that were admitted.                                             *)
FreshOf(w, a) == {i \in DOMAIN w : i > a}
AdmittedOf(w, a) == {i \in FreshOf(w, a) : w[i] = "admitted"}

Admitted == AdmittedOf(window, aged)

(* How many they are.                                                      *)
LEMMA WindowSets ==
    ASSUME NEW w \in Seq(Limiter!Entry), NEW a \in 0..Len(w)
    PROVE  /\ Len(w) \in Nat
           /\ FreshOf(w, a) = (a + 1)..Len(w)
           /\ IsFiniteSet(AdmittedOf(w, a))
           /\ Cardinality(FreshOf(w, a)) = Len(w) - a
           /\ Cardinality(AdmittedOf(w, a)) \in Nat
           /\ Cardinality(AdmittedOf(w, a)) <= Len(w) - a
<1>1. /\ DOMAIN w = 1..Len(w) /\ Len(w) \in Nat
      /\ a \in Int /\ 0 <= a /\ a <= Len(w)
  BY LenProperties
<1>2. FreshOf(w, a) = (a + 1)..Len(w)
  BY <1>1 DEF FreshOf
<1>3. /\ IsFiniteSet(FreshOf(w, a))
      /\ Cardinality(FreshOf(w, a)) = Len(w) - a
  <2>1. a + 1 \in Int /\ Len(w) \in Int
    BY <1>1
  <2>2. /\ IsFiniteSet((a + 1)..Len(w))
        /\ Cardinality((a + 1)..Len(w)) =
              IF a + 1 > Len(w) THEN 0 ELSE Len(w) - (a + 1) + 1
    BY <2>1, FS_Interval
  <2>. QED  BY <1>1, <1>2, <2>2
<1>4. AdmittedOf(w, a) \in SUBSET FreshOf(w, a)
  BY DEF AdmittedOf
<1>5. IsFiniteSet(AdmittedOf(w, a)) /\ Cardinality(AdmittedOf(w, a)) \in Nat
      /\ Cardinality(AdmittedOf(w, a)) <= Cardinality(FreshOf(w, a))
  BY <1>3, <1>4, FS_Subset, FS_CardinalityType
<1>. QED  BY <1>1, <1>2, <1>3, <1>5

(* The same before and after a step.                                       *)
LEMMA WindowNow ==
    ASSUME Limiter!LimiterTypeOK
    PROVE  /\ Len(window) \in Nat /\ aged \in Int /\ 0 <= aged
           /\ Limiter!Fresh = (aged + 1)..Len(window)
           /\ IsFiniteSet(Admitted) /\ Cardinality(Admitted) \in Nat
           /\ Cardinality(Limiter!Fresh) = Len(window) - aged
           /\ Cardinality(Admitted) <= Len(window) - aged
           /\ Admitted = {i \in (aged + 1)..Len(window) :
                             window[i] = "admitted"}
<1>1. window \in Seq(Limiter!Entry) /\ aged \in 0..Len(window)
  BY DEF Limiter!LimiterTypeOK
<1>2. Limiter!Fresh = FreshOf(window, aged)
  BY DEF Limiter!Fresh, FreshOf
<1>3. Len(window) \in Nat /\ aged \in Int /\ 0 <= aged
  BY <1>1, LenProperties
<1>. QED  BY <1>1, <1>2, <1>3, WindowSets DEF Admitted, AdmittedOf

(* And after a step.                                                       *)
LEMMA WindowNext ==
    ASSUME Limiter!LimiterTypeOK'
    PROVE  /\ Len(window') \in Nat /\ aged' \in Int /\ 0 <= aged'
           /\ Cardinality(Limiter!Fresh') = Len(window') - aged'
           /\ Cardinality(Admitted') \in Nat
           /\ Cardinality(Admitted') <= Len(window') - aged'
           /\ Admitted' = {i \in (aged' + 1)..Len(window') :
                              window'[i] = "admitted"}
<1>1. window' \in Seq(Limiter!Entry) /\ aged' \in 0..Len(window')
  BY DEF Limiter!LimiterTypeOK, Limiter!Entry
<1>2. Limiter!Fresh' = FreshOf(window', aged')
  BY DEF Limiter!Fresh, FreshOf
<1>3. Admitted' = AdmittedOf(window', aged')
  BY DEF Admitted
<1>4. Len(window') \in Nat /\ aged' \in Int /\ 0 <= aged'
  BY <1>1, LenProperties
<1>. QED  BY <1>1, <1>2, <1>3, <1>4, WindowSets DEF AdmittedOf

(* The entries of the window are told apart: a request is no fate.         *)
LEMMA RequestsAreNoFates ==
    ASSUME NEW r \in Requests PROVE r # "admitted" /\ r # "refused"
BY CaptchaAssumption

(* No step admits one too many.                                            *)
LEMMA AdmittedStep ==
    ASSUME Limiter!LimiterTypeOK, LimiterStep,
           Cardinality(Admitted) <= MaxInWindow
    PROVE  Cardinality(Admitted') <= MaxInWindow
<1>1. MaxInWindow \in Nat
  BY CaptchaAssumption
<1>2. Limiter!LimiterTypeOK'
  BY LimiterTyped
<1>3. /\ Len(window') \in Int /\ aged' \in Int /\ 0 <= aged'
      /\ Cardinality(Admitted') \in Nat
      /\ Cardinality(Admitted') <= Len(window') - aged'
      /\ Admitted' = {i \in (aged' + 1)..Len(window') :
                         window'[i] = "admitted"}
  BY <1>2, WindowNext
<1>4. /\ Len(window) \in Int /\ aged \in Int /\ 0 <= aged
      /\ IsFiniteSet(Admitted) /\ Cardinality(Admitted) \in Nat
      /\ Admitted = {i \in (aged + 1)..Len(window) : window[i] = "admitted"}
  BY WindowNow
<1>5. CASE Admitted' \in SUBSET Admitted
  <2>1. Cardinality(Admitted') <= Cardinality(Admitted)
    BY <1>4, <1>5, FS_Subset
  <2>. QED  BY <1>1, <1>3, <1>4, <2>1
<1>6. ASSUME NEW r \in Requests, Limiter!Add(r)
      PROVE  Cardinality(Admitted') <= MaxInWindow
  <2>1. aged' = 0
    BY <1>6 DEF Limiter!Add
  <2>2. /\ Len(window') = Len(window) - aged + 1
        /\ \A i \in 1..(Len(window) - aged) :
              window'[i] = window[i + aged]
        /\ window'[Len(window')] = r
    BY <1>6, AddedWindow
  <2>3. \A i \in Admitted' : i + aged \in Admitted
    BY <1>3, <1>4, <2>1, <2>2, RequestsAreNoFates
  <2>4. Admitted' \in SUBSET Int /\ Admitted \in SUBSET Int
    BY <1>3, <1>4
  <2>5. Cardinality(Admitted') <= Cardinality(Admitted)
    BY <1>4, <2>3, <2>4, ShiftCount
  <2>. QED  BY <1>1, <1>3, <1>4, <2>5
<1>7. ASSUME NEW r \in Requests, Limiter!Admit(r)
      PROVE  Cardinality(Admitted') <= MaxInWindow
  <2>1. /\ Len(window) <= MaxInWindow /\ window \in Seq(Limiter!Entry)
        /\ Limiter!Seal(r, "admitted")
    BY <1>7 DEF Limiter!Admit, Limiter!Fits, Limiter!LimiterTypeOK
  <2>2. Len(window') = Len(window)
    BY <2>1, SealedWindow DEF Limiter!Fates
  <2>. QED  BY <1>1, <1>3, <1>4, <2>1, <2>2
<1>8. ASSUME NEW r \in Requests,
             Limiter!Seal(r, "refused"), aged' = aged
      PROVE  Admitted' \in SUBSET Admitted
  <2>1. window \in Seq(Limiter!Entry)
    BY DEF Limiter!LimiterTypeOK
  <2>2. /\ Len(window') = Len(window)
        /\ \A i \in 1..Len(window) :
              window'[i] = IF window[i] = r THEN "refused" ELSE window[i]
    BY <1>8, <2>1, SealedWindow DEF Limiter!Fates
  <2>. QED  BY <1>3, <1>4, <1>8, <2>2
<1>9. ASSUME NEW r \in Requests,
             Limiter!Refuse(r) \/ Limiter!PipelineFails(r)
      PROVE  Admitted' \in SUBSET Admitted
  <2>1. CASE Limiter!Seal(r, "refused")
    BY <1>8, <1>9, <2>1 DEF Limiter!Refuse, Limiter!PipelineFails
  <2>2. CASE window' = window
    BY <1>3, <1>4, <1>9, <2>2 DEF Limiter!Refuse, Limiter!PipelineFails
  <2>. QED  BY <1>9, <2>1, <2>2 DEF Limiter!Refuse, Limiter!PipelineFails
<1>10. ASSUME NEW r \in Requests,
              \/ Limiter!Enter(r) \/ Limiter!Block(r)
              \/ Limiter!BlockFails(r) \/ Limiter!Leave(r) \/ GivesUp(r)
       PROVE  Admitted' \in SUBSET Admitted
  BY <1>3, <1>4, <1>10 DEF Limiter!Enter, Limiter!Block, Limiter!BlockFails,
     Limiter!Leave, GivesUp
<1>11. CASE Limiter!Slide \/ Limiter!Unblock \/ UNCHANGED limiterVars
  BY <1>3, <1>4, <1>5, <1>11
     DEF Limiter!Slide, Limiter!Unblock, limiterVars
<1>. QED  BY <1>5, <1>6, <1>7, <1>9, <1>10, <1>11
          DEF LimiterStep, Limiter!LimiterNext, Limiter!Middleware

(* The limiter counts with an instance of FiniteSets of its own.           *)
LEMMA SameCardinality == \A S : Limiter!Cardinality(S) = Cardinality(S)
BY DEF Limiter!Cardinality, Cardinality

(* What OverLimitIsBlocked says.                                           *)
OverLimit == Cardinality(Limiter!Fresh) > MaxInWindow =>
    \/ blocked
    \/ \E r \in Requests : gate[r] \in {"counting", "blocking"}
    \/ redisFaults > 0

(* No step leaves a full window open, but for an error of Redis.           *)
LEMMA OverLimitStep ==
    ASSUME Limiter!LimiterTypeOK, LimiterStep, OverLimit
    PROVE  OverLimit'
<1>1. MaxInWindow \in Nat /\ redisFaults \in Nat /\ blocked \in BOOLEAN
  BY CaptchaAssumption DEF Limiter!LimiterTypeOK
<1>2. Limiter!LimiterTypeOK'
  BY LimiterTyped
<1>3. /\ Cardinality(Limiter!Fresh') = Len(window') - aged'
      /\ aged' \in Int /\ Len(window') \in Int /\ 0 <= aged'
  BY <1>2, WindowNext
<1>4. /\ Cardinality(Limiter!Fresh) = Len(window) - aged
      /\ Len(window) \in Int /\ aged \in Int /\ 0 <= aged
  BY WindowNow
<1>. USE DEF Limiter!Pass, Limiter!RedisFault
<1>5. ASSUME NEW r \in Requests, Limiter!Add(r)
      PROVE  gate'[r] = "counting"
  BY <1>5 DEF Limiter!Add, Limiter!LimiterTypeOK
<1>6. ASSUME NEW r \in Requests, Limiter!Refuse(r)
      PROVE  gate'[r] = "blocking"
  BY <1>6 DEF Limiter!Refuse, Limiter!LimiterTypeOK
<1>7. ASSUME NEW r \in Requests, Limiter!Admit(r)
      PROVE  ~(Cardinality(Limiter!Fresh') > MaxInWindow)
  <2>1. /\ Len(window) <= MaxInWindow /\ window \in Seq(Limiter!Entry)
        /\ Limiter!Seal(r, "admitted")
    BY <1>7 DEF Limiter!Admit, Limiter!Fits, Limiter!LimiterTypeOK
  <2>2. Len(window') = Len(window)
    BY <2>1, SealedWindow DEF Limiter!Fates
  <2>. QED  BY <1>1, <1>3, <1>4, <2>1, <2>2
<1>8. ASSUME NEW r \in Requests,
             \/ Limiter!PipelineFails(r) \/ Limiter!BlockFails(r)
             \/ GivesUp(r)
      PROVE  redisFaults' > 0
  BY <1>1, <1>8 DEF Limiter!PipelineFails, Limiter!BlockFails, GivesUp
<1>9. ASSUME NEW r \in Requests, Limiter!Enter(r) \/ Limiter!Leave(r)
      PROVE  OverLimit'
  <2>1. /\ \A q \in Requests : gate[q] \in {"counting", "blocking"}
                                  => gate'[q] = gate[q]
        /\ UNCHANGED <<window, aged, blocked, redisFaults>>
    BY <1>9 DEF Limiter!Enter, Limiter!Leave, Limiter!LimiterTypeOK
  <2>. QED  BY <1>1, <1>3, <1>4, <2>1 DEF OverLimit
<1>10. CASE Limiter!Slide
  BY <1>1, <1>3, <1>4, <1>10 DEF Limiter!Slide, OverLimit
<1>11. CASE Limiter!Unblock
  BY <1>1, <1>3, <1>4, <1>11 DEF Limiter!Unblock, OverLimit
<1>12. CASE UNCHANGED limiterVars
  BY <1>1, <1>3, <1>4, <1>12 DEF limiterVars, OverLimit
<1>13. ASSUME NEW r \in Requests, Limiter!Block(r) PROVE blocked'
  BY <1>13 DEF Limiter!Block
<1>. QED  BY <1>5, <1>6, <1>7, <1>8, <1>9, <1>10, <1>11, <1>12, <1>13
          DEF LimiterStep, Limiter!LimiterNext, Limiter!Middleware,
              OverLimit

(* The promise of the limiter, in the terms of this module.                *)
LEMMA LimitIs ==
    LimitHolds <=> Cardinality(Admitted) <= MaxInWindow /\ OverLimit
<1>1. Admitted = {i \in Limiter!Fresh : window[i] = "admitted"}
  BY DEF Admitted, AdmittedOf, FreshOf, Limiter!Fresh
<1>. QED  BY <1>1, SameCardinality
     DEF LimitHolds, Limiter!LimitHolds, Limiter!AdmittedInWindow,
         Limiter!OverLimitIsBlocked, OverLimit

-----------------------------------------------------------------------------
(* The requests                                                            *)

(* What a request relies on: that it can only send codes that arrived on   *)
(* the phone, and that it has stored what it is about to send.             *)
RequestOK(q) ==
    /\ q.pc \in {"compare", "delete"} => q.kind = "verify"
    /\ q.kind = "verify" => q.arg \in {0} \cup delivered
    /\ q.pc = "delete" => q.arg # 0
    /\ q.pc = "sms" => q.code \in 1..codes
    /\ q.pc = "undo" => lost

(* The type invariant without the bounds that have to be counted.          *)
Typed ==
    /\ GateTyped
    /\ arrivals \in 0..MaxArrivals
    /\ count \in Nat /\ codes \in Nat /\ sliders \in Nat
    /\ code \in 0..codes /\ slider \in 0..sliders
    /\ delivered \subseteq 1..codes
    /\ unguarded \in Nat
    /\ accepted \in [1..MaxArrivals -> Nat]
    /\ lost \in BOOLEAN
    /\ expiries \in 0..MaxExpiries
    /\ \A r \in Requests : req[r] # None => RequestOK(req[r])

(* What can become of a request in a step.                                 *)
LEMMA RequestIs ==
    ASSUME RequestsTyped, NEW r \in Requests
    PROVE  /\ req[r] # None <=> req[r].pc # "none"
           /\ req[r] # None => /\ req[r] \in Request /\ req[r].pc \in PCs
                               /\ req[r].kind \in Kinds
                               /\ req[r].arg \in 0..MaxArrivals
                               /\ req[r].code \in 0..MaxArrivals
BY DEF RequestsTyped, Request, None, PCs

(* A request that goes on is the same but for its next call.               *)
LEMMA GotoIs ==
    ASSUME RequestsTyped, NEW r \in Requests, req[r] # None, NEW pc \in PCs,
           Goto(r, pc)
    PROVE  /\ req' \in [Requests -> Request \cup {None}]
           /\ \A q \in Requests \ {r} : req'[q] = req[q]
           /\ req'[r] \in Request /\ req'[r] # None
           /\ req'[r].pc = pc /\ req'[r].kind = req[r].kind
           /\ req'[r].arg = req[r].arg /\ req'[r].code = req[r].code
<1>1. req' \in [Requests -> Request \cup {None}]
      /\ req'[r] = [req[r] EXCEPT !.pc = pc]
      /\ \A q \in Requests \ {r} : req'[q] = req[q]
  BY DEF RequestsTyped, Goto, Request, None
<1>2. req[r] \in Request
  BY RequestIs
<1>. QED  BY <1>1, <1>2 DEF Request, None, PCs

(* A request that is answered is gone.                                     *)
LEMMA DoneIs ==
    ASSUME RequestsTyped, NEW r \in Requests, req' = [req EXCEPT ![r] = None]
    PROVE  /\ req' \in [Requests -> Request \cup {None}]
           /\ \A q \in Requests \ {r} : req'[q] = req[q]
           /\ req'[r] = None /\ req'[r].pc = "none"
BY DEF RequestsTyped, None

(* A request that arrives is new.                                          *)
LEMMA GuestIs ==
    ASSUME RequestsTyped, NEW r \in Requests,
           NEW kind \in Kinds, NEW arg \in 0..MaxArrivals,
           req' = [req EXCEPT ![r] = [pc |-> "gate", kind |-> kind,
                                      arg |-> arg, code |-> 0]]
    PROVE  /\ req' \in [Requests -> Request \cup {None}]
           /\ \A q \in Requests \ {r} : req'[q] = req[q]
           /\ req'[r] \in Request /\ req'[r] # None
           /\ req'[r].pc = "gate" /\ req'[r].kind = kind
           /\ req'[r].arg = arg
<1>. DEFINE q == [pc |-> "gate", kind |-> kind, arg |-> arg, code |-> 0]
<1>1. q \in Request /\ q # None /\ q.pc = "gate" /\ q.kind = kind
      /\ q.arg = arg
  BY CaptchaAssumption DEF Request, PCs, None
<1>2. req' = [req EXCEPT ![r] = q]
  OBVIOUS
<1>. HIDE DEF q
<1>. QED  BY <1>1, <1>2 DEF RequestsTyped

(* A request that has stored its code knows which.                         *)
LEMMA StoredIs ==
    ASSUME RequestsTyped, NEW r \in Requests, req[r] # None,
           NEW c \in 0..MaxArrivals,
           req' = [req EXCEPT ![r].pc = "sms", ![r].code = c]
    PROVE  /\ req' \in [Requests -> Request \cup {None}]
           /\ \A q \in Requests \ {r} : req'[q] = req[q]
           /\ req'[r] \in Request /\ req'[r] # None
           /\ req'[r].pc = "sms" /\ req'[r].kind = req[r].kind
           /\ req'[r].arg = req[r].arg /\ req'[r].code = c
<1>1. req[r] \in Request
  BY RequestIs
<1>. DEFINE q == [[req[r] EXCEPT !.pc = "sms"] EXCEPT !.code = c]
<1>2. q \in Request /\ q.pc = "sms" /\ q.kind = req[r].kind
      /\ q.arg = req[r].arg /\ q.code = c
  BY <1>1 DEF Request, PCs
<1>3. q # None
  BY <1>2 DEF None
<1>4. req' = [req EXCEPT ![r] = q]
  BY DEF RequestsTyped
<1>. HIDE DEF q
<1>. QED  BY <1>2, <1>3, <1>4 DEF RequestsTyped

-----------------------------------------------------------------------------
(* Counting requests                                                       *)

(* The requests whose next call is one of S, and those that are going to   *)
(* send a code without having shown a slider token.                        *)
Before(S) == {r \in Requests : req[r].pc \in S}
Unshown == {r \in Requests : req[r].pc \in {"store", "sms"} /\ req[r].arg = 0}

(* How a step that serves r changes how many are before a call.            *)
LEMMA BeforeCounts ==
    ASSUME NEW r \in Requests, NEW S,
           \A q \in Requests \ {r} : req'[q] = req[q]
    PROVE  /\ Cardinality(Before(S)) \in Nat
           /\ Cardinality(Before(S)') \in Nat
           /\ Cardinality(Before(S)') = Cardinality(Before(S))
                + (IF req'[r].pc \in S THEN 1 ELSE 0)
                - (IF req[r].pc \in S THEN 1 ELSE 0)
<1>1. IsFiniteSet(Before(S))
  BY CaptchaAssumption, FS_Subset DEF Before
<1>2. Before(S)' \ {r} = Before(S) \ {r}
  BY DEF Before
<1>3. /\ r \in Before(S)' <=> req'[r].pc \in S
      /\ r \in Before(S) <=> req[r].pc \in S
  BY DEF Before
<1>. QED  BY <1>1, <1>2, <1>3, CountMoves

(* And how many are going to send without a token.                         *)
LEMMA UnshownCounts ==
    ASSUME NEW r \in Requests,
           \A q \in Requests \ {r} : req'[q] = req[q]
    PROVE  /\ Cardinality(Unshown) \in Nat
           /\ Cardinality(Unshown') \in Nat
           /\ Cardinality(Unshown') = Cardinality(Unshown)
                + (IF req'[r].pc \in {"store", "sms"} /\ req'[r].arg = 0
                   THEN 1 ELSE 0)
                - (IF req[r].pc \in {"store", "sms"} /\ req[r].arg = 0
                   THEN 1 ELSE 0)
<1>1. IsFiniteSet(Unshown)
  BY CaptchaAssumption, FS_Subset DEF Unshown
<1>2. Unshown' \ {r} = Unshown \ {r}
  BY DEF Unshown
<1>3. /\ r \in Unshown' <=> req'[r].pc \in {"store", "sms"} /\ req'[r].arg = 0
      /\ r \in Unshown <=> req[r].pc \in {"store", "sms"} /\ req[r].arg = 0
  BY DEF Unshown
<1>. QED  BY <1>1, <1>2, <1>3, CountMoves

(* What has been done and what is still to come of it is covered: by the   *)
(* requests that arrived, by the requests INCR has counted, and by the     *)
(* limits it was compared with.                                            *)
Counted ==
    /\ count + Cardinality(Before({"gate", "incr"})) <= arrivals
    /\ sliders + Cardinality(Before({"gate", "solve", "issue"})) <= arrivals
    /\ codes + Cardinality(Before({"slider", "store"})) <= count
    /\ codes + Cardinality(Before({"slider", "store"})) <= MaxDaily
    /\ unguarded + Cardinality(Unshown) <= count
    /\ unguarded + Cardinality(Unshown) <= SliderThreshold

(* A step that serves request r keeps them covered.                        *)
LEMMA ServeIsCounted ==
    ASSUME Typed, Counted, NEW r \in Requests, Serve(r)
    PROVE  Counted'
<1>. DEFINE a == Cardinality(Before({"gate", "incr"}))
            b == Cardinality(Before({"gate", "solve", "issue"}))
            c == Cardinality(Before({"slider", "store"}))
            d == Cardinality(Unshown)
            a2 == Cardinality(Before({"gate", "incr"})')
            b2 == Cardinality(Before({"gate", "solve", "issue"})')
            c2 == Cardinality(Before({"slider", "store"})')
            d2 == Cardinality(Unshown')
            old == req[r].pc
            new == req'[r].pc
            shown == req[r].arg # 0
            shows == req'[r].arg # 0
<1>1. /\ RequestsTyped
      /\ arrivals \in Nat /\ count \in Nat /\ codes \in Nat /\ sliders \in Nat
      /\ unguarded \in Nat /\ MaxDaily \in Nat /\ SliderThreshold \in Nat
  BY CaptchaAssumption DEF Typed, GateTyped
<1>2. /\ count + a <= arrivals /\ sliders + b <= arrivals
      /\ codes + c <= count /\ codes + c <= MaxDaily
      /\ unguarded + d <= count /\ unguarded + d <= SliderThreshold
  BY DEF Counted
<1>3. SUFFICES
      ASSUME \A q \in Requests \ {r} : req'[q] = req[q],
             a \in Nat, b \in Nat, c \in Nat, d \in Nat,
             a2 \in Nat, b2 \in Nat, c2 \in Nat, d2 \in Nat,
             a2 = a + (IF new \in {"gate", "incr"} THEN 1 ELSE 0)
                    - (IF old \in {"gate", "incr"} THEN 1 ELSE 0),
             b2 = b + (IF new \in {"gate", "solve", "issue"} THEN 1 ELSE 0)
                    - (IF old \in {"gate", "solve", "issue"} THEN 1 ELSE 0),
             c2 = c + (IF new \in {"slider", "store"} THEN 1 ELSE 0)
                    - (IF old \in {"slider", "store"} THEN 1 ELSE 0),
             d2 = d + (IF new \in {"store", "sms"} /\ ~shows THEN 1 ELSE 0)
                    - (IF old \in {"store", "sms"} /\ ~shown THEN 1 ELSE 0)
      PROVE  /\ count' + a2 <= arrivals' /\ sliders' + b2 <= arrivals'
             /\ codes' + c2 <= count' /\ codes' + c2 <= MaxDaily
             /\ unguarded' + d2 <= count' /\ unguarded' + d2 <= SliderThreshold
  <2>1. \A q \in Requests \ {r} : req'[q] = req[q]
    BY <1>1 DEF Serve, Arrive, PassGate, IncrCaptchaCount, CheckSlider,
       StoreCode, SendCaptchaSMS, UndoSend, SolveSlider,
       SetSliderVerificationToken, CompareCode, DeleteCode, Goto, Answer,
       Fails, RequestsTyped
  <2>. QED  BY <2>1, BeforeCounts, UnshownCounts DEF Counted
<1>. HIDE DEF a, b, c, d, a2, b2, c2, d2
<1>. USE <1>1, <1>2, <1>3 DEF storeVars, ghostVars, At
<1>4. CASE Arrive(r)
  BY <1>4, RequestIs DEF Arrive, RequestsTyped, None
<1>5. CASE PassGate(r)
  <2>1. /\ old = "gate"
        /\ UNCHANGED <<arrivals, count, codes, sliders, unguarded>>
    BY <1>5 DEF PassGate
  <2>2. CASE req' = req
    BY <2>1, <2>2
  <2>3. CASE req' = [req EXCEPT ![r] = None]
    <3>1. new = "none"
      BY <2>3, DoneIs
    <3>. QED  BY <2>1, <3>1
  <2>4. CASE Goto(r, FirstCall(req[r].kind))
    <3>1. /\ FirstCall(req[r].kind) \in PCs
          /\ FirstCall(req[r].kind) \in {"incr", "solve", "compare"}
      BY <1>5, RequestIs, CaptchaAssumption DEF PassGate, FirstCall, PCs
    <3>2. new \in {"incr", "solve", "compare"}
      BY <1>5, <2>4, <3>1, GotoIs DEF PassGate
    <3>. QED  BY <2>1, <3>2
  <2>. QED  BY <1>5, <2>2, <2>3, <2>4 DEF PassGate
<1>6. CASE IncrCaptchaCount(r)
  <2>1. CASE Goto(r, IF count' > SliderThreshold THEN "slider" ELSE "store")
             /\ count' = count + 1 /\ count' <= MaxDaily
    <3>1. new = IF count' > SliderThreshold THEN "slider" ELSE "store"
      BY <1>6, <2>1, GotoIs DEF IncrCaptchaCount, PCs
    <3>. QED  BY <1>6, <2>1, <3>1 DEF IncrCaptchaCount
  <2>2. CASE req' = [req EXCEPT ![r] = None] /\ count' \in {count, count + 1}
    <3>1. new = "none"
      BY <2>2, DoneIs
    <3>2. old = "incr" /\ UNCHANGED <<arrivals, codes, sliders, unguarded>>
      BY <1>6 DEF IncrCaptchaCount
    <3>3. a2 = a - 1 /\ b2 = b /\ c2 = c /\ d2 = d
      BY <3>1, <3>2
    <3>4. count' = count \/ count' = count + 1
      BY <2>2
    <3>. HIDE <1>3, <2>2 DEF old, new, shown, shows
    <3>. QED  BY <1>3, <3>2, <3>3, <3>4
  <2>. QED  BY <1>6, <2>1, <2>2 DEF IncrCaptchaCount, Answer, Fails
<1>7. CASE CheckSlider(r)
  <2>1. CASE Goto(r, "store") /\ shown
    <3>1. new = "store" /\ shows
      BY <1>7, <2>1, GotoIs DEF CheckSlider, PCs
    <3>. QED  BY <1>7, <2>1, <3>1 DEF CheckSlider
  <2>2. CASE req' = [req EXCEPT ![r] = None]
    <3>1. new = "none"
      BY <2>2, DoneIs
    <3>. QED  BY <1>7, <3>1 DEF CheckSlider
  <2>. QED  BY <1>7, <2>1, <2>2 DEF CheckSlider, Answer, Fails
<1>8. CASE StoreCode(r)
  <2>1. codes' \in {codes, codes + 1}
        /\ UNCHANGED <<arrivals, count, sliders, unguarded>> /\ old = "store"
    BY <1>8 DEF StoreCode, Fails
  <2>2. \/ (new = "sms" /\ req'[r].arg = req[r].arg)
        \/ new = "none"
    <3>1. CASE req' = [req EXCEPT ![r] = None]
      BY <3>1, DoneIs
    <3>2. CASE req' = [req EXCEPT ![r].pc = "sms", ![r].code = codes']
      BY <1>8, <3>2 DEF StoreCode, RequestsTyped, Request, None
    <3>. QED  BY <1>8, <3>1, <3>2 DEF StoreCode, Fails
  <2>. QED  BY <2>1, <2>2
<1>9. CASE SendCaptchaSMS(r)
  <2>1. /\ old = "sms" /\ UNCHANGED <<arrivals, count, codes, sliders>>
        /\ unguarded' = unguarded \/ (unguarded' = unguarded + 1 /\ ~shown)
    <3>1. PICK arrives, reported \in BOOLEAN :
             unguarded' = IF arrives /\ req[r].arg = 0 THEN unguarded + 1
                                                       ELSE unguarded
      BY <1>9 DEF SendCaptchaSMS
    <3>2. old = "sms" /\ UNCHANGED <<arrivals, count, codes, sliders>>
      BY <1>9 DEF SendCaptchaSMS
    <3>3. unguarded' = unguarded \/ (unguarded' = unguarded + 1 /\ ~shown)
      <4>. HIDE <1>2, <1>3
      <4>. QED  BY <3>1
    <3>. QED  BY <3>2, <3>3
  <2>2. new \in {"none", "undo"}
    <3>1. CASE req' = [req EXCEPT ![r] = None]
      BY <3>1, DoneIs
    <3>2. CASE Goto(r, "undo")
      BY <1>9, <3>2, GotoIs DEF SendCaptchaSMS, PCs
    <3>. QED  BY <1>9, <3>1, <3>2 DEF SendCaptchaSMS, Answer
  <2>. QED  BY <2>1, <2>2
<1>10. CASE UndoSend(r) \/ CompareCode(r) \/ DeleteCode(r)
  <2>1. /\ old \in {"undo", "compare", "delete"}
        /\ UNCHANGED <<arrivals, count, codes, sliders, unguarded>>
    BY <1>10 DEF UndoSend, CompareCode, DeleteCode
  <2>2. new \in {"none", "delete"}
    <3>1. CASE req' = [req EXCEPT ![r] = None]
      BY <3>1, DoneIs
    <3>2. CASE CompareCode(r) /\ Goto(r, "delete")
      BY <3>2, GotoIs DEF CompareCode, PCs
    <3>. QED  BY <1>10, <3>1, <3>2
              DEF UndoSend, CompareCode, DeleteCode, Answer, Fails
  <2>. QED  BY <2>1, <2>2
<1>11. CASE SolveSlider(r)
  <2>1. old = "solve" /\ UNCHANGED <<arrivals, count, codes, sliders, unguarded>>
    BY <1>11 DEF SolveSlider
  <2>2. new \in {"none", "issue"}
    <3>1. CASE req' = [req EXCEPT ![r] = None]
      BY <3>1, DoneIs
    <3>2. CASE Goto(r, "issue")
      BY <1>11, <3>2, GotoIs DEF SolveSlider, PCs
    <3>. QED  BY <1>11, <3>1, <3>2 DEF SolveSlider, Answer
  <2>. QED  BY <2>1, <2>2
<1>12. CASE SetSliderVerificationToken(r)
  <2>1. /\ old = "issue" /\ UNCHANGED <<arrivals, count, codes, unguarded>>
        /\ sliders' \in {sliders, sliders + 1}
        /\ req' = [req EXCEPT ![r] = None]
    BY <1>12 DEF SetSliderVerificationToken, Answer, Fails
  <2>2. new = "none"
    BY <2>1, DoneIs
  <2>3. a2 = a /\ b2 = b - 1 /\ c2 = c /\ d2 = d
    BY <2>1, <2>2
  <2>4. sliders' = sliders \/ sliders' = sliders + 1
    BY <2>1
  <2>5. UNCHANGED <<arrivals, count, codes, unguarded>>
    BY <2>1
  <2>. HIDE <1>3, <2>1 DEF old, new, shown, shows
  <2>. QED  BY <1>3, <2>3, <2>4, <2>5
<1>. QED  BY <1>4, <1>5, <1>6, <1>7, <1>8, <1>9, <1>10, <1>11, <1>12 DEF Serve

(* Neither do the other steps touch them.                                  *)
LEMMA CountedStep ==
    ASSUME Typed, Counted, [CaptchaNext]_captchaVars
    PROVE  Counted'
<1>1. CASE \E r \in Requests : Serve(r)
  BY <1>1, ServeIsCounted
<1>2. CASE CodeExpires \/ SliderExpires \/ TimePasses \/ UNCHANGED captchaVars
  <2>1. UNCHANGED <<req, arrivals, count, codes, sliders, unguarded>>
    BY <1>2 DEF CodeExpires, SliderExpires, TimePasses, captchaVars,
       storeVars, ghostVars
  <2>2. /\ \A S : Before(S)' = Before(S)
        /\ Unshown' = Unshown
    BY <2>1 DEF Before, Unshown
  <2>. QED  BY <2>1, <2>2 DEF Counted
<1>. QED  BY <1>1, <1>2 DEF CaptchaNext

-----------------------------------------------------------------------------
(* Type correctness                                                        *)

(* To the limiter a step that serves a request is one of its own, or that  *)
(* of a handler that has lost Redis.                                       *)
LEMMA StepIsLimiters ==
    ASSUME GateTyped, [CaptchaNext]_captchaVars
    PROVE  LimiterStep
<1>. USE DEF LimiterStep, Limiter!LimiterNext
<1>1. ASSUME NEW r \in Requests, At(r, "gate") \/ Arrive(r), Serve(r)
      PROVE  LimiterStep
  <2>1. CASE Arrive(r)
    BY <2>1 DEF Arrive, Limiter!Middleware
  <2>2. CASE PassGate(r)
    BY <2>2 DEF PassGate, Limiter!Middleware
  <2>. QED  BY <1>1, <2>1, <2>2
            DEF Serve, At, IncrCaptchaCount, CheckSlider, StoreCode,
                SendCaptchaSMS, UndoSend, SolveSlider,
                SetSliderVerificationToken, CompareCode, DeleteCode
<1>2. ASSUME NEW r \in Requests, ~At(r, "gate"), Serve(r), ~Arrive(r)
      PROVE  LimiterStep
  <2>1. req[r] # None /\ req[r].pc \in PCs \ {"gate"}
    BY <1>2 DEF Serve, PassGate, At, IncrCaptchaCount, CheckSlider,
       StoreCode, SendCaptchaSMS, UndoSend, SolveSlider, PCs,
       SetSliderVerificationToken, CompareCode, DeleteCode
  <2>2. gate[r] = "inside"
    BY <2>1 DEF GateTyped, RequestsTyped
  <2>3. Answer(r) \/ Works \/ Fails(r)
    BY <1>2 DEF Serve, PassGate, IncrCaptchaCount, CheckSlider,
       StoreCode, SendCaptchaSMS, UndoSend, SolveSlider,
       SetSliderVerificationToken, CompareCode, DeleteCode
  <2>4. Answer(r) => Limiter!Leave(r)
    BY DEF Answer
  <2>5. Works => UNCHANGED limiterVars
    BY DEF Works
  <2>6. Fails(r) => GivesUp(r)
    BY <2>2 DEF Fails, GivesUp
  <2>. QED  BY <2>3, <2>4, <2>5, <2>6
<1>3. CASE CodeExpires \/ SliderExpires \/ TimePasses \/ UNCHANGED captchaVars
  BY <1>3 DEF CodeExpires, SliderExpires, TimePasses, captchaVars
<1>. QED  BY <1>1, <1>2, <1>3 DEF CaptchaNext

(* No more codes or tokens are stored than requests have arrived.          *)
LEMMA StoresBounded ==
    ASSUME Typed, Counted
    PROVE  /\ count <= MaxArrivals /\ codes <= MaxArrivals
           /\ sliders <= MaxArrivals
           /\ codes <= MaxDaily /\ unguarded <= SliderThreshold
<1>1. \A S : Cardinality(Before(S)) \in Nat
  BY CaptchaAssumption, FS_Subset, FS_CardinalityType DEF Before
<1>2. Cardinality(Unshown) \in Nat
  BY CaptchaAssumption, FS_Subset, FS_CardinalityType DEF Unshown
<1>3. /\ Cardinality(Before({"gate", "incr"})) \in Nat
      /\ Cardinality(Before({"gate", "solve", "issue"})) \in Nat
      /\ Cardinality(Before({"slider", "store"})) \in Nat
  BY <1>1
<1>4. /\ arrivals \in Nat /\ arrivals <= MaxArrivals /\ MaxArrivals \in Nat
      /\ count \in Nat /\ codes \in Nat /\ sliders \in Nat
      /\ unguarded \in Nat /\ MaxDaily \in Nat /\ SliderThreshold \in Nat
  BY CaptchaAssumption DEF Typed
<1>. QED  BY <1>2, <1>3, <1>4 DEF Counted

(* The same after a step.                                                  *)
LEMMA CodesBoundedNext ==
    ASSUME Typed, Counted, [CaptchaNext]_captchaVars
    PROVE  codes' \in 0..MaxArrivals /\ sliders' \in 0..MaxArrivals
           /\ count' \in 0..MaxArrivals /\ arrivals' \in 0..MaxArrivals
<1>1. /\ arrivals' \in 0..MaxArrivals
      /\ count' \in Nat /\ codes' \in Nat /\ sliders' \in Nat
  <2>1. /\ arrivals \in 0..MaxArrivals /\ MaxArrivals \in Nat
        /\ count \in Nat /\ codes \in Nat /\ sliders \in Nat
    BY CaptchaAssumption DEF Typed
  <2>2. ASSUME NEW r \in Requests, Serve(r)
        PROVE  /\ arrivals' = arrivals \/ (arrivals < MaxArrivals
                                           /\ arrivals' = arrivals + 1)
               /\ count' \in {count, count + 1}
               /\ codes' \in {codes, codes + 1}
               /\ sliders' \in {sliders, sliders + 1}
    BY <2>2 DEF Serve, Arrive, PassGate, IncrCaptchaCount, CheckSlider,
       StoreCode, SendCaptchaSMS, UndoSend, SolveSlider, storeVars,
       SetSliderVerificationToken, CompareCode, DeleteCode
  <2>3. CASE CodeExpires \/ SliderExpires \/ TimePasses
             \/ UNCHANGED captchaVars
    BY <2>1, <2>3 DEF CodeExpires, SliderExpires, TimePasses, captchaVars,
       storeVars
  <2>4. CASE \E r \in Requests : Serve(r)
    BY <2>1, <2>2, <2>4
  <2>. QED  BY <2>3, <2>4 DEF CaptchaNext
<1>2. /\ count' + Cardinality(Before({"gate", "incr"})') <= arrivals'
      /\ sliders' + Cardinality(Before({"gate", "solve", "issue"})')
            <= arrivals'
      /\ codes' + Cardinality(Before({"slider", "store"})') <= count'
  BY CountedStep DEF Counted
<1>3. /\ Cardinality(Before({"gate", "incr"})') \in Nat
      /\ Cardinality(Before({"gate", "solve", "issue"})') \in Nat
      /\ Cardinality(Before({"slider", "store"})') \in Nat
  <2>1. /\ Before({"gate", "incr"})' \in SUBSET Requests
        /\ Before({"gate", "solve", "issue"})' \in SUBSET Requests
        /\ Before({"slider", "store"})' \in SUBSET Requests
    BY DEF Before
  <2>. QED  BY <2>1, CaptchaAssumption, FS_Subset, FS_CardinalityType
<1>4. arrivals' \in Nat /\ arrivals' <= MaxArrivals /\ MaxArrivals \in Nat
  BY <1>1, CaptchaAssumption
<1>. QED  BY <1>1, <1>2, <1>3, <1>4

(* Every step keeps the requests where the limiter has them.               *)
LEMMA RequestsStep ==
    ASSUME Typed, Counted, [CaptchaNext]_captchaVars
    PROVE  RequestsTyped'
<1>1. RequestsTyped /\ gate \in [Requests -> Limiter!Stages]
  BY DEF Typed, GateTyped, Limiter!LimiterTypeOK
<1>2. UNCHANGED <<req, gate>> => RequestsTyped'
  BY <1>1 DEF RequestsTyped
<1>3. ASSUME NEW r \in Requests,
             req' \in [Requests -> Request \cup {None}],
             \A q \in Requests \ {r} : req'[q] = req[q],
             \A q \in Requests \ {r} : gate'[q] = gate[q],
             gate'[r] # "outside" => req'[r] # None,
             req'[r] # None =>
                (req'[r].pc \in PCs \ {"gate"} <=> gate'[r] = "inside")
      PROVE  RequestsTyped'
  BY <1>1, <1>3 DEF RequestsTyped
<1>4. ASSUME NEW r \in Requests, req' = [req EXCEPT ![r] = None],
             gate' = [gate EXCEPT ![r] = "outside"]
      PROVE  RequestsTyped'
  BY <1>1, <1>3, <1>4, DoneIs
<1>5. ASSUME NEW r \in Requests, req[r] # None, gate[r] = "inside",
             NEW pc \in PCs \ {"gate"}, Goto(r, pc), gate' = gate
      PROVE  RequestsTyped'
  BY <1>1, <1>3, <1>5, GotoIs
<1>6. ASSUME NEW r \in Requests, Arrive(r) PROVE RequestsTyped'
  <2>1. gate' = [gate EXCEPT ![r] = "adding"]
    BY <1>6 DEF Arrive, Limiter!Enter, Limiter!Pass
  <2>2. PICK kind \in Kinds :
          \E arg \in CASE kind = "send" -> 0..sliders
                       [] kind = "slider" -> {0}
                       [] kind = "verify" -> {0} \cup delivered :
             req' = [req EXCEPT ![r] = [pc |-> "gate", kind |-> kind,
                                        arg |-> arg, code |-> 0]]
    BY <1>6 DEF Arrive
  <2>3. PICK arg \in CASE kind = "send" -> 0..sliders
                       [] kind = "slider" -> {0}
                       [] kind = "verify" -> {0} \cup delivered :
             req' = [req EXCEPT ![r] = [pc |-> "gate", kind |-> kind,
                                        arg |-> arg, code |-> 0]]
    BY <2>2
  <2>4. arg \in 0..MaxArrivals
    <3>1. kind \in {"send", "slider", "verify"}
      BY CaptchaAssumption
    <3>2. /\ 0..sliders \subseteq 0..MaxArrivals
          /\ {0} \cup delivered \subseteq 0..MaxArrivals
      BY StoresBounded, CaptchaAssumption, SMTT(30) DEF Typed
    <3>. QED  BY <2>3, <3>1, <3>2
  <2>5. /\ req' \in [Requests -> Request \cup {None}]
        /\ \A q \in Requests \ {r} : req'[q] = req[q]
        /\ req'[r] # None /\ req'[r].pc = "gate"
    BY <1>1, <2>3, <2>4, GuestIs
  <2>. QED  BY <1>1, <1>3, <2>1, <2>5
<1>7. ASSUME NEW r \in Requests, PassGate(r) PROVE RequestsTyped'
  <2>. USE DEF Limiter!Pass
  <2>1. CASE Limiter!Add(r) /\ UNCHANGED req
    BY <1>1, <1>3, <2>1 DEF Limiter!Add, RequestsTyped
  <2>2. CASE Limiter!Refuse(r) /\ UNCHANGED req
    BY <1>1, <1>3, <2>2 DEF Limiter!Refuse, RequestsTyped
  <2>3. CASE Limiter!Admit(r) /\ Goto(r, FirstCall(req[r].kind))
    <3>1. FirstCall(req[r].kind) \in PCs \ {"gate"} /\ req[r] # None
      BY <1>1, <1>7, RequestIs, CaptchaAssumption
         DEF PassGate, At, FirstCall, PCs
    <3>2. gate' = [gate EXCEPT ![r] = "inside"]
      BY <2>3 DEF Limiter!Admit
    <3>3. /\ req' \in [Requests -> Request \cup {None}]
          /\ \A q \in Requests \ {r} : req'[q] = req[q]
          /\ req'[r] # None /\ req'[r].pc = FirstCall(req[r].kind)
      BY <1>1, <2>3, <3>1, GotoIs
    <3>. QED  BY <1>1, <1>3, <3>1, <3>2, <3>3
  <2>4. CASE /\ Limiter!Block(r) \/ Limiter!BlockFails(r)
                \/ Limiter!PipelineFails(r)
             /\ req' = [req EXCEPT ![r] = None]
    BY <1>4, <2>4 DEF Limiter!Block, Limiter!BlockFails,
       Limiter!PipelineFails
  <2>. QED  BY <1>7, <2>1, <2>2, <2>3, <2>4 DEF PassGate
<1>8. ASSUME NEW r \in Requests, Serve(r), ~Arrive(r), ~PassGate(r)
      PROVE  RequestsTyped'
  <2>1. req[r] # None /\ gate[r] = "inside"
    BY <1>1, <1>8 DEF Serve, At, IncrCaptchaCount, CheckSlider, RequestsTyped,
       StoreCode, SendCaptchaSMS, UndoSend, SolveSlider, PCs,
       SetSliderVerificationToken, CompareCode, DeleteCode
  <2>2. CASE Answer(r)
    BY <1>4, <2>2 DEF Answer, Limiter!Leave, Limiter!Pass
  <2>3. CASE Fails(r)
    BY <1>4, <2>3 DEF Fails, Limiter!Pass
  <2>4. CASE Works /\ \E pc \in PCs \ {"gate"} : Goto(r, pc)
    BY <1>5, <2>1, <2>4 DEF Works, limiterVars
  <2>5. CASE StoreCode(r) /\ ~Fails(r)
    <3>1. codes' \in 0..MaxArrivals
      BY CodesBoundedNext
    <3>2. gate' = gate /\ req' = [req EXCEPT ![r].pc = "sms",
                                             ![r].code = codes']
      BY <2>5 DEF StoreCode, Works, limiterVars
    <3>3. /\ req' \in [Requests -> Request \cup {None}]
          /\ \A q \in Requests \ {r} : req'[q] = req[q]
          /\ req'[r] # None /\ req'[r].pc = "sms"
      BY <1>1, <2>1, <3>1, <3>2, StoredIs
    <3>. QED  BY <1>1, <1>3, <2>1, <3>2, <3>3 DEF PCs
  <2>6. \/ Answer(r) \/ Fails(r) \/ (StoreCode(r) /\ ~Fails(r))
        \/ (Works /\ \E pc \in PCs \ {"gate"} : Goto(r, pc))
    <3>. DEFINE Goes == Works /\ \E pc \in PCs \ {"gate"} : Goto(r, pc)
    <3>1. IncrCaptchaCount(r) => Answer(r) \/ Fails(r) \/ Goes
      BY DEF IncrCaptchaCount, PCs
    <3>2. CheckSlider(r) => Answer(r) \/ Fails(r) \/ Goes
      BY DEF CheckSlider, PCs
    <3>3. SendCaptchaSMS(r) => Answer(r) \/ Goes
      BY DEF SendCaptchaSMS, PCs
    <3>4. UndoSend(r) \/ SetSliderVerificationToken(r) \/ DeleteCode(r)
            => Answer(r) \/ Fails(r)
      BY DEF UndoSend, SetSliderVerificationToken, DeleteCode
    <3>5. SolveSlider(r) \/ CompareCode(r)
            => Answer(r) \/ Fails(r) \/ Goes
      BY DEF SolveSlider, CompareCode, PCs
    <3>. QED  BY <1>8, <3>1, <3>2, <3>3, <3>4, <3>5 DEF Serve
  <2>. QED  BY <2>2, <2>3, <2>4, <2>5, <2>6
<1>9. CASE CodeExpires \/ SliderExpires \/ TimePasses \/ UNCHANGED captchaVars
  BY <1>2, <1>9 DEF CodeExpires, SliderExpires, TimePasses, captchaVars,
     limiterVars, Limiter!Slide, Limiter!Unblock
<1>. QED  BY <1>6, <1>7, <1>8, <1>9 DEF CaptchaNext

(* What a step does to the store, to the codes on the phone and to the     *)
(* accepted ones.                                                          *)
LEMMA StoreStep ==
    ASSUME Typed, [CaptchaNext]_captchaVars
    PROVE  /\ codes' \in Nat /\ codes <= codes' /\ sliders <= sliders'
           /\ code' \in {code, 0} \/ (codes' = codes + 1 /\ code' = codes')
           /\ slider' \in 0..sliders'
           /\ delivered \subseteq delivered' /\ delivered' \subseteq 1..codes'
           /\ unguarded' \in Nat
           /\ lost => lost'
           /\ lost' \in BOOLEAN
           /\ expiries' \in 0..MaxExpiries /\ expiries <= expiries'
<1>. DEFINE Goal ==
        /\ codes' \in Nat /\ codes <= codes' /\ sliders <= sliders'
        /\ code' \in {code, 0} \/ (codes' = codes + 1 /\ code' = codes')
        /\ slider' \in 0..sliders'
        /\ delivered \subseteq delivered' /\ delivered' \subseteq 1..codes'
        /\ unguarded' \in Nat
        /\ lost => lost'
        /\ lost' \in BOOLEAN
        /\ expiries' \in 0..MaxExpiries /\ expiries <= expiries'
<1>1. /\ codes \in Nat /\ sliders \in Nat /\ expiries \in 0..MaxExpiries
      /\ code \in 0..codes /\ slider \in 0..sliders /\ MaxExpiries \in Nat
      /\ delivered \subseteq 1..codes /\ unguarded \in Nat
      /\ lost \in BOOLEAN
  BY CaptchaAssumption DEF Typed
<1>2. ASSUME NEW r \in Requests,
             \/ Arrive(r) \/ PassGate(r) \/ IncrCaptchaCount(r)
             \/ CheckSlider(r) \/ SolveSlider(r) \/ CompareCode(r)
             \/ UndoSend(r) \/ DeleteCode(r)
      PROVE  Goal
  <2>1. /\ UNCHANGED <<slider, codes, sliders, delivered, unguarded, lost,
                       expiries>>
        /\ code' \in {code, 0}
    BY <1>2 DEF Arrive, PassGate, IncrCaptchaCount, CheckSlider, SolveSlider,
       CompareCode, UndoSend, DeleteCode, storeVars, ghostVars
  <2>. QED  BY <1>1, <2>1
<1>3. ASSUME NEW r \in Requests, StoreCode(r) PROVE Goal
  <2>1. /\ UNCHANGED <<slider, sliders, delivered, unguarded, lost, expiries>>
        /\ \/ UNCHANGED <<codes, code>>
           \/ codes' = codes + 1 /\ code' = codes'
    BY <1>3 DEF StoreCode, ghostVars
  <2>. QED  BY <1>1, <2>1
<1>4. ASSUME NEW r \in Requests, SetSliderVerificationToken(r) PROVE Goal
  <2>1. /\ UNCHANGED <<code, codes, delivered, unguarded, lost, expiries>>
        /\ \/ UNCHANGED <<slider, sliders>>
           \/ sliders' = sliders + 1 /\ slider' = sliders'
    BY <1>4 DEF SetSliderVerificationToken, ghostVars
  <2>. QED  BY <1>1, <2>1
<1>5. ASSUME NEW r \in Requests, SendCaptchaSMS(r) PROVE Goal
  <2>1. UNCHANGED <<code, codes, slider, sliders, expiries>>
    BY <1>5 DEF SendCaptchaSMS, storeVars
  <2>2. PICK arrives, reported \in BOOLEAN :
          /\ delivered' = IF arrives THEN delivered \cup {req[r].code}
                                     ELSE delivered
          /\ unguarded' = IF arrives /\ req[r].arg = 0 THEN unguarded + 1
                                                       ELSE unguarded
          /\ lost' = (lost \/ ~reported)
    BY <1>5 DEF SendCaptchaSMS
  <2>3. req[r].code \in 1..codes
    BY <1>5 DEF SendCaptchaSMS, At, Typed, RequestOK
  <2>4. delivered \subseteq delivered' /\ delivered' \subseteq 1..codes
    BY <1>1, <2>2, <2>3
  <2>5. unguarded' \in Nat
    BY <1>1, <2>2
  <2>6. lost' \in BOOLEAN /\ (lost => lost')
    BY <2>2
  <2>. QED  BY <1>1, <2>1, <2>4, <2>5, <2>6
<1>6. CASE CodeExpires \/ SliderExpires
  <2>1. /\ UNCHANGED <<codes, sliders, delivered, unguarded, lost>>
        /\ code' \in {code, 0} /\ slider' \in {slider, 0}
        /\ expiries < MaxExpiries /\ expiries' = expiries + 1
    BY <1>6 DEF CodeExpires, SliderExpires, Expire, ghostVars
  <2>. QED  BY <1>1, <2>1
<1>7. CASE TimePasses \/ UNCHANGED captchaVars
  <2>1. UNCHANGED <<code, codes, slider, sliders, delivered, unguarded, lost,
                    expiries>>
    BY <1>7 DEF TimePasses, captchaVars, storeVars, ghostVars
  <2>. QED  BY <1>1, <2>1
<1>. QED  BY <1>2, <1>3, <1>4, <1>5, <1>6, <1>7 DEF CaptchaNext, Serve

(* An accepted code is one that arrived on the phone, and the step that    *)
(* accepts it deletes what is stored, if Redis works.                      *)
LEMMA AcceptedStep ==
    ASSUME Typed, Counted, [CaptchaNext]_captchaVars
    PROVE  \/ accepted' = accepted
           \/ \E r \in Requests :
                 /\ req[r] # None /\ req[r].pc = "delete"
                 /\ req[r].arg \in delivered
                 /\ accepted' = [accepted EXCEPT ![req[r].arg] = @ + 1]
                 /\ req' = [req EXCEPT ![r] = None]
                 /\ DeleteCode(r)
<1>1. ASSUME NEW r \in Requests, DeleteCode(r)
      PROVE  /\ req[r] # None /\ req[r].pc = "delete"
             /\ req[r].arg \in delivered
             /\ accepted' = [accepted EXCEPT ![req[r].arg] = @ + 1]
             /\ req' = [req EXCEPT ![r] = None]
  BY <1>1 DEF DeleteCode, At, Accept, Answer, Fails, Typed, RequestOK
<1>2. ASSUME NEW r \in Requests, Serve(r), ~DeleteCode(r)
      PROVE  accepted' = accepted
  BY <1>2 DEF Serve, Arrive, PassGate, IncrCaptchaCount, CheckSlider,
     StoreCode, SendCaptchaSMS, UndoSend, SolveSlider, ghostVars,
     SetSliderVerificationToken, CompareCode
<1>3. CASE CodeExpires \/ SliderExpires \/ TimePasses \/ UNCHANGED captchaVars
  BY <1>3 DEF CodeExpires, SliderExpires, TimePasses, captchaVars, ghostVars
<1>. QED  BY <1>1, <1>2, <1>3 DEF CaptchaNext

(* A request that stays keeps what it relies on.                           *)
LEMMA RequestStays ==
    ASSUME Typed, Counted, [CaptchaNext]_captchaVars,
           NEW r \in Requests, req'[r] = req[r], req[r] # None
    PROVE  RequestOK(req[r])'
<1>1. RequestOK(req[r])
  BY DEF Typed
<1>2. /\ delivered \subseteq delivered' /\ (lost => lost')
      /\ codes \in Nat /\ codes' \in Nat /\ codes <= codes'
  BY StoreStep DEF Typed
<1>. QED  BY <1>1, <1>2 DEF RequestOK

(* Every step keeps what the requests rely on.                             *)
LEMMA RelianceStep ==
    ASSUME Typed, Counted, [CaptchaNext]_captchaVars, NEW q \in Requests,
           req'[q] # None
    PROVE  RequestOK(req[q])'
<1>. USE RequestStays
<1>1. RequestsTyped /\ (req[q] # None => RequestOK(req[q]))
  BY DEF Typed, GateTyped
<1>2. /\ delivered \subseteq delivered' /\ (lost => lost')
      /\ codes \in Nat /\ codes' \in Nat /\ codes <= codes'
  BY StoreStep DEF Typed
<1>3. ASSUME req[q] # None, NEW pc \in PCs, Goto(q, pc),
             pc \in {"compare", "delete"} => req[q].kind = "verify",
             pc = "delete" => req[q].arg # 0,
             pc # "sms", pc = "undo" => lost'
      PROVE  RequestOK(req[q])'
  <2>1. /\ req'[q].pc = pc /\ req'[q].kind = req[q].kind
        /\ req'[q].arg = req[q].arg /\ req'[q].code = req[q].code
    BY <1>1, <1>3, GotoIs
  <2>. QED  BY <1>1, <1>2, <1>3, <2>1 DEF RequestOK
<1>4. CASE req' = [req EXCEPT ![q] = None]
  BY <1>1, <1>4, DoneIs
<1>5. CASE Arrive(q)
  <2>1. PICK kind \in Kinds :
          \E arg \in CASE kind = "send" -> 0..sliders
                       [] kind = "slider" -> {0}
                       [] kind = "verify" -> {0} \cup delivered :
             req' = [req EXCEPT ![q] = [pc |-> "gate", kind |-> kind,
                                        arg |-> arg, code |-> 0]]
    BY <1>5 DEF Arrive
  <2>2. PICK arg \in CASE kind = "send" -> 0..sliders
                       [] kind = "slider" -> {0}
                       [] kind = "verify" -> {0} \cup delivered :
             req' = [req EXCEPT ![q] = [pc |-> "gate", kind |-> kind,
                                        arg |-> arg, code |-> 0]]
    BY <2>1
  <2>3. kind = "verify" => arg \in {0} \cup delivered
    BY <2>2
  <2>4. req'[q] = [pc |-> "gate", kind |-> kind, arg |-> arg, code |-> 0]
    BY <1>1, <2>2 DEF RequestsTyped
  <2>5. req'[q].pc = "gate" /\ req'[q].kind = kind /\ req'[q].arg = arg
    BY <2>4
  <2>. QED  BY <1>2, <2>3, <2>5 DEF RequestOK
<1>6. CASE PassGate(q)
  <2>1. CASE Goto(q, FirstCall(req[q].kind))
    <3>1. /\ req[q] # None /\ FirstCall(req[q].kind) \in PCs
          /\ FirstCall(req[q].kind) = "compare" => req[q].kind = "verify"
          /\ FirstCall(req[q].kind) \notin {"delete", "sms", "undo"}
      BY <1>1, <1>6, RequestIs, CaptchaAssumption
         DEF PassGate, At, FirstCall, PCs
    <3>. QED  BY <1>3, <2>1, <3>1
  <2>. QED  BY <1>4, <1>6, <2>1 DEF PassGate, At
<1>7. CASE IncrCaptchaCount(q)
  <2>1. req[q] # None /\ {"slider", "store"} \subseteq PCs
    BY <1>7 DEF IncrCaptchaCount, At, PCs
  <2>2. \/ req' = [req EXCEPT ![q] = None]
        \/ Goto(q, IF count' > SliderThreshold THEN "slider" ELSE "store")
    BY <1>7 DEF IncrCaptchaCount, Answer, Fails
  <2>3. \/ req' = [req EXCEPT ![q] = None]
        \/ Goto(q, "slider") \/ Goto(q, "store")
    BY <2>2
  <2>. QED  BY <1>3, <1>4, <2>1, <2>3
<1>8. CASE CheckSlider(q)
  <2>1. req[q] # None /\ "store" \in PCs
    BY <1>8 DEF CheckSlider, At, PCs
  <2>2. req' = [req EXCEPT ![q] = None] \/ Goto(q, "store")
    BY <1>8 DEF CheckSlider, Answer, Fails
  <2>. QED  BY <1>3, <1>4, <2>1, <2>2
<1>9. CASE StoreCode(q)
  <2>1. CASE /\ req' = [req EXCEPT ![q].pc = "sms", ![q].code = codes']
             /\ codes' = codes + 1
    <3>1. codes' \in 0..MaxArrivals /\ req[q] # None
      BY <1>9, CodesBoundedNext DEF StoreCode, At
    <3>2. /\ req'[q].pc = "sms" /\ req'[q].kind = req[q].kind
          /\ req'[q].arg = req[q].arg /\ req'[q].code = codes'
      BY <1>1, <2>1, <3>1, StoredIs
    <3>. QED  BY <1>1, <1>2, <2>1, <3>1, <3>2 DEF RequestOK
  <2>. QED  BY <1>4, <1>9, <2>1 DEF StoreCode, Fails
<1>10. CASE SendCaptchaSMS(q)
  <2>1. req[q] # None /\ "undo" \in PCs
    BY <1>10 DEF SendCaptchaSMS, At, PCs
  <2>2. req' = [req EXCEPT ![q] = None] \/ (Goto(q, "undo") /\ lost')
    BY <1>10 DEF SendCaptchaSMS, Answer
  <2>. QED  BY <1>3, <1>4, <2>1, <2>2
<1>11. CASE UndoSend(q) \/ SetSliderVerificationToken(q) \/ DeleteCode(q)
  BY <1>4, <1>11 DEF UndoSend, SetSliderVerificationToken, DeleteCode, Answer,
     Fails
<1>12. CASE SolveSlider(q)
  <2>1. req[q] # None /\ "issue" \in PCs
    BY <1>12 DEF SolveSlider, At, PCs
  <2>2. req' = [req EXCEPT ![q] = None] \/ Goto(q, "issue")
    BY <1>12 DEF SolveSlider, Answer
  <2>. QED  BY <1>3, <1>4, <2>1, <2>2
<1>13. CASE CompareCode(q)
  <2>1. /\ req[q] # None /\ "delete" \in PCs
        /\ req[q].kind = "verify"
    BY <1>1, <1>13 DEF CompareCode, At, PCs, RequestOK
  <2>2. \/ req' = [req EXCEPT ![q] = None]
        \/ (Goto(q, "delete") /\ req[q].arg # 0)
    BY <1>13 DEF CompareCode, Answer, Fails
  <2>. QED  BY <1>3, <1>4, <2>1, <2>2
<1>14. ASSUME NEW r \in Requests, Serve(r), r # q
       PROVE  req'[q] = req[q]
  BY <1>1, <1>14 DEF Serve, Arrive, PassGate, IncrCaptchaCount, CheckSlider,
     StoreCode, SendCaptchaSMS, UndoSend, SolveSlider,
     SetSliderVerificationToken, CompareCode, DeleteCode, Goto, Answer,
     Fails, RequestsTyped
<1>15. CASE CodeExpires \/ SliderExpires \/ TimePasses \/ UNCHANGED captchaVars
  BY <1>15 DEF CodeExpires, SliderExpires, TimePasses, captchaVars
<1>16. CASE Serve(q)
  BY <1>5, <1>6, <1>7, <1>8, <1>9, <1>10, <1>11, <1>12, <1>13, <1>16 DEF Serve
<1>. QED  BY <1>14, <1>15, <1>16, RequestStays DEF CaptchaNext

(* Every step keeps the types.                                             *)
LEMMA TypedStep ==
    ASSUME Typed, Counted, [CaptchaNext]_captchaVars
    PROVE  Typed'
<1>1. GateTyped'
  <2>1. LimiterStep /\ Limiter!LimiterTypeOK
    BY StepIsLimiters DEF Typed, GateTyped
  <2>. QED  BY <2>1, LimiterTyped, RequestsStep DEF GateTyped
<1>2. /\ arrivals' \in 0..MaxArrivals
      /\ count' \in Nat /\ codes' \in Nat /\ sliders' \in Nat
  BY CodesBoundedNext, CaptchaAssumption
<1>3. code' \in 0..codes' /\ slider' \in 0..sliders'
  BY <1>2, StoreStep DEF Typed
<1>4. accepted' \in [1..MaxArrivals -> Nat]
  <2>1. accepted \in [1..MaxArrivals -> Nat] /\ delivered \subseteq 1..codes
        /\ codes <= MaxArrivals /\ codes \in Nat /\ MaxArrivals \in Nat
    BY StoresBounded, CaptchaAssumption DEF Typed
  <2>2. CASE accepted' = accepted
    BY <2>1, <2>2
  <2>3. ASSUME NEW c \in delivered,
               accepted' = [accepted EXCEPT ![c] = @ + 1]
        PROVE  accepted' \in [1..MaxArrivals -> Nat]
    <3>1. c \in 1..MaxArrivals
      BY <2>1
    <3>. QED  BY <2>1, <2>3, <3>1
  <2>. QED  BY <2>2, <2>3, AcceptedStep
<1>5. \A r \in Requests : req'[r] # None => RequestOK(req[r])'
  BY RelianceStep
<1>. QED  BY <1>1, <1>2, <1>3, <1>4, <1>5, StoreStep DEF Typed, RequestOK

(* At the start there are no requests and nothing is stored.               *)
LEMMA TypedInit == CaptchaInit => Typed /\ Counted
<1>. SUFFICES ASSUME CaptchaInit PROVE Typed /\ Counted
  OBVIOUS
<1>1. /\ \A S : "none" \notin S => Before(S) = {}
      /\ Unshown = {}
  BY DEF CaptchaInit, Before, Unshown, None
<1>2. /\ Before({"gate", "incr"}) = {}
      /\ Before({"gate", "solve", "issue"}) = {}
      /\ Before({"slider", "store"}) = {}
  BY <1>1
<1>3. Counted
  <2>1. /\ Cardinality(Before({"gate", "incr"})) = 0
        /\ Cardinality(Before({"gate", "solve", "issue"})) = 0
        /\ Cardinality(Before({"slider", "store"})) = 0
        /\ Cardinality(Unshown) = 0
    BY <1>1, <1>2, FS_EmptySet
  <2>2. /\ arrivals = 0 /\ count = 0 /\ codes = 0 /\ sliders = 0
        /\ unguarded = 0 /\ MaxDaily \in Nat /\ SliderThreshold \in Nat
    BY CaptchaAssumption DEF CaptchaInit
  <2>. QED  BY <2>1, <2>2 DEF Counted
<1>4. GateTyped
  <2>1. RequestsTyped
    BY DEF CaptchaInit, Limiter!LimiterInit, RequestsTyped
  <2>2. Limiter!LimiterTypeOK
    <3>1. window = <<>> /\ aged = 0 /\ blocked = FALSE /\ redisFaults = 0
          /\ gate = [r \in Requests |-> "outside"]
      BY DEF CaptchaInit, Limiter!LimiterInit
    <3>2. window \in Seq(Limiter!Entry) /\ Len(window) = 0
      BY <3>1, EmptySeq
    <3>3. gate \in [Requests -> Limiter!Stages] /\ blocked \in BOOLEAN
      BY <3>1 DEF Limiter!Stages
    <3>. QED  BY <3>1, <3>2, <3>3, CaptchaAssumption
              DEF Limiter!LimiterTypeOK
  <2>. QED  BY <2>1, <2>2 DEF GateTyped
<1>5. /\ arrivals = 0 /\ count = 0 /\ codes = 0 /\ sliders = 0 /\ code = 0
      /\ slider = 0 /\ unguarded = 0 /\ expiries = 0 /\ delivered = {}
      /\ accepted \in [1..MaxArrivals -> Nat]
      /\ \A r \in Requests : req[r] = None
  BY DEF CaptchaInit
<1>6. lost \in BOOLEAN
  BY DEF CaptchaInit
<1>. QED  BY <1>3, <1>4, <1>5, <1>6, CaptchaAssumption DEF Typed

(* The types of the composition, and that its counters are covered.        *)
THEOREM CaptchaTyped == CaptchaSpec => [](Typed /\ Counted)
<1>1. Typed /\ Counted /\ [CaptchaNext]_captchaVars => (Typed /\ Counted)'
  BY TypedStep, CountedStep
<1>. QED  BY <1>1, TypedInit, PTL DEF CaptchaSpec

(* The service stays within its types: a request is where the limiter has  *)
(* it, and no code is stored that no request asked for.                    *)
THEOREM CaptchaTypeCorrect == CaptchaSpec => []CaptchaTypeOK
<1>1. Typed /\ Counted => CaptchaTypeOK
  BY StoresBounded, CaptchaAssumption
     DEF Typed, GateTyped, RequestsTyped, CaptchaTypeOK
<1>. QED  BY <1>1, CaptchaTyped, PTL

(* However many requests race, the daily limits hold.                      *)
THEOREM DailyLimitsHold == CaptchaSpec => []DailyLimits
<1>1. Typed /\ Counted => DailyLimits
  BY StoresBounded DEF DailyLimits
<1>. QED  BY <1>1, CaptchaTyped, PTL

(* The limiter keeps its promise in both directions, whatever its guests   *)
(* do.                                                                     *)
THEOREM LimiterHolds == CaptchaSpec => []LimitHolds
<1>. DEFINE Within == Cardinality(Admitted) <= MaxInWindow /\ OverLimit
<1>1. CaptchaInit => Within
  <2>. SUFFICES ASSUME CaptchaInit PROVE Within
    OBVIOUS
  <2>1. Limiter!LimiterTypeOK /\ window = <<>> /\ aged = 0
    BY TypedInit DEF Typed, GateTyped, CaptchaInit, Limiter!LimiterInit
  <2>2. Len(window) = 0
    BY <2>1, EmptySeq
  <2>. QED  BY <2>1, <2>2, WindowNow, CaptchaAssumption DEF OverLimit
<1>2. Typed /\ Within /\ [CaptchaNext]_captchaVars => Within'
  BY AdmittedStep, OverLimitStep, StepIsLimiters DEF Typed, GateTyped
<1>3. Within => LimitHolds
  BY LimitIs
<1>. QED  BY <1>1, <1>2, <1>3, CaptchaTyped, PTL DEF CaptchaSpec

-----------------------------------------------------------------------------
(* A code logs in once, and works until then                               *)

(* The requests that have found their code c right.                        *)
Deleting(c) == {r \in Requests : req[r].pc = "delete" /\ req[r].arg = c}

(* While Redis works, the stored code has not logged in, and nobody who    *)
(* comes after a login finds the code right.                               *)
LoginsBounded ==
    redisFaults = 0 =>
        /\ code # 0 => accepted[code] = 0
        /\ \A c \in 1..codes :
              accepted[c] + Cardinality(Deleting(c)) <= Cardinality(Requests)

(* Only codes that arrived on the phone log in; and unless something       *)
(* failed or expired, the newest code is stored until one does.            *)
CodesKept ==
    /\ \A c \in 1..MaxArrivals : accepted[c] # 0 => c \in delivered
    /\ ~lost /\ redisFaults = 0 /\ expiries = 0 =>
          code = codes \/ \E c \in delivered : accepted[c] # 0

(* How a step that serves r changes how many have found c right.           *)
LEMMA DeletingCounts ==
    ASSUME NEW r \in Requests, NEW c,
           \A q \in Requests \ {r} : req'[q] = req[q]
    PROVE  /\ Cardinality(Deleting(c)) \in Nat
           /\ Cardinality(Deleting(c)') \in Nat
           /\ Cardinality(Deleting(c)') = Cardinality(Deleting(c))
                + (IF req'[r].pc = "delete" /\ req'[r].arg = c THEN 1 ELSE 0)
                - (IF req[r].pc = "delete" /\ req[r].arg = c THEN 1 ELSE 0)
<1>1. IsFiniteSet(Deleting(c))
  BY CaptchaAssumption, FS_Subset DEF Deleting
<1>2. Deleting(c)' \ {r} = Deleting(c) \ {r}
  BY DEF Deleting
<1>3. /\ r \in Deleting(c)' <=> req'[r].pc = "delete" /\ req'[r].arg = c
      /\ r \in Deleting(c) <=> req[r].pc = "delete" /\ req[r].arg = c
  BY DEF Deleting
<1>. QED  BY <1>1, <1>2, <1>3, CountMoves

(* No more requests than there are can be in one state.                    *)
LEMMA DeletingBounded ==
    ASSUME NEW c
    PROVE  /\ Cardinality(Requests) \in Nat
           /\ Cardinality(Deleting(c)') \in Nat
           /\ Cardinality(Deleting(c)') <= Cardinality(Requests)
<1>1. Deleting(c)' \in SUBSET Requests
  BY DEF Deleting
<1>. QED  BY <1>1, CaptchaAssumption, FS_Subset, FS_CardinalityType

(* Redis that has failed once has failed.                                  *)
LEMMA FaultsStay ==
    ASSUME Typed, [CaptchaNext]_captchaVars
    PROVE  redisFaults \in Nat /\ redisFaults' \in Nat
           /\ redisFaults <= redisFaults'
<1>1. redisFaults \in Nat
  BY CaptchaAssumption DEF Typed, GateTyped, Limiter!LimiterTypeOK
<1>2. LimiterStep
  BY StepIsLimiters DEF Typed
<1>3. redisFaults' = redisFaults \/ redisFaults' = redisFaults + 1
  BY <1>2 DEF LimiterStep, Limiter!LimiterNext, Limiter!Middleware,
     Limiter!Enter, Limiter!Add, Limiter!Admit, Limiter!Refuse,
     Limiter!PipelineFails, Limiter!Block, Limiter!BlockFails,
     Limiter!Leave, Limiter!Slide, Limiter!Unblock, Limiter!RedisFault,
     GivesUp, limiterVars
<1>. QED  BY <1>1, <1>3

(* A request finds its code right when it compares it, at no other time.   *)
LEMMA OnlyComparing ==
    ASSUME Typed, Counted, NEW r \in Requests, Serve(r),
           req'[r] # None, req'[r].pc = "delete"
    PROVE  CompareCode(r) /\ req[r].arg = code /\ req'[r].arg = code
           /\ UNCHANGED <<code, codes, accepted>> /\ code # 0
<1>1. RequestsTyped
  BY DEF Typed, GateTyped
<1>. USE DEF PCs
<1>2. ASSUME req[r] # None, NEW pc \in PCs, Goto(r, pc)
      PROVE  req'[r].pc = pc /\ req'[r].arg = req[r].arg
  BY <1>1, <1>2, GotoIs
<1>3. req' # [req EXCEPT ![r] = None]
  BY <1>1, DoneIs
<1>4. CASE Arrive(r)
  BY <1>1, <1>4 DEF Arrive, RequestsTyped
<1>5. CASE PassGate(r)
  <2>1. req[r] # None /\ req[r].pc = "gate"
    BY <1>5 DEF PassGate, At
  <2>2. /\ FirstCall(req[r].kind) \in PCs
        /\ FirstCall(req[r].kind) # "delete"
    BY <1>1, <2>1, RequestIs, CaptchaAssumption DEF FirstCall
  <2>. QED  BY <1>2, <1>3, <1>5, <2>1, <2>2 DEF PassGate
<1>6. CASE IncrCaptchaCount(r)
  <2>1. req[r] # None
    BY <1>6 DEF IncrCaptchaCount, At
  <2>2. Goto(r, "slider") \/ Goto(r, "store")
    BY <1>3, <1>6 DEF IncrCaptchaCount, Answer, Fails
  <2>. QED  BY <1>2, <2>1, <2>2
<1>7. CASE CheckSlider(r) \/ SendCaptchaSMS(r) \/ SolveSlider(r)
  <2>1. req[r] # None
    BY <1>7 DEF CheckSlider, SendCaptchaSMS, SolveSlider, At
  <2>2. Goto(r, "store") \/ Goto(r, "undo") \/ Goto(r, "issue")
    BY <1>3, <1>7 DEF CheckSlider, SendCaptchaSMS, SolveSlider, Answer, Fails
  <2>. QED  BY <1>2, <2>1, <2>2
<1>8. CASE StoreCode(r)
  <2>1. req' = [req EXCEPT ![r].pc = "sms", ![r].code = codes']
        /\ req[r] # None
    BY <1>3, <1>8 DEF StoreCode, Fails, At
  <2>2. codes' \in 0..MaxArrivals
    BY <1>8, CodesBoundedNext DEF CaptchaNext, Serve
  <2>. QED  BY <1>1, <2>1, <2>2, StoredIs
<1>9. CASE CompareCode(r)
  <2>1. req[r] # None
    BY <1>9 DEF CompareCode, At
  <2>2. /\ req[r].arg # 0 /\ req[r].arg = code /\ Goto(r, "delete")
        /\ UNCHANGED <<code, codes, accepted>>
    BY <1>3, <1>9 DEF CompareCode, Answer, Fails, storeVars, ghostVars
  <2>. QED  BY <1>2, <1>9, <2>1, <2>2
<1>10. CASE UndoSend(r) \/ SetSliderVerificationToken(r) \/ DeleteCode(r)
  BY <1>3, <1>10 DEF UndoSend, SetSliderVerificationToken, DeleteCode, Answer,
     Fails
<1>. QED  BY <1>4, <1>5, <1>6, <1>7, <1>8, <1>9, <1>10 DEF Serve

(* A step that serves a request changes nothing of the others.             *)
LEMMA ServeIsLocal ==
    ASSUME RequestsTyped, NEW r \in Requests, Serve(r)
    PROVE  \A q \in Requests \ {r} : req'[q] = req[q]
BY DEF Serve, Arrive, PassGate, IncrCaptchaCount, CheckSlider,
   StoreCode, SendCaptchaSMS, UndoSend, SolveSlider,
   SetSliderVerificationToken, CompareCode, DeleteCode, Goto, Answer,
   Fails, RequestsTyped

(* No code logs in once more than there are requests at a time.            *)
LEMMA LoginsStep ==
    ASSUME Typed, Counted, LoginsBounded, CodesKept,
           [CaptchaNext]_captchaVars
    PROVE  LoginsBounded'
<1>. SUFFICES ASSUME redisFaults' = 0
              PROVE  /\ code' # 0 => accepted'[code'] = 0
                     /\ \A c \in 1..codes' :
                           accepted'[c] + Cardinality(Deleting(c)')
                              <= Cardinality(Requests)
  BY DEF LoginsBounded
<1>1. /\ redisFaults = 0
      /\ code # 0 => accepted[code] = 0
      /\ \A c \in 1..codes :
            accepted[c] + Cardinality(Deleting(c)) <= Cardinality(Requests)
  BY FaultsStay DEF LoginsBounded
<1>2. /\ accepted \in [1..MaxArrivals -> Nat] /\ delivered \subseteq 1..codes
      /\ codes \in Nat /\ codes' \in 0..MaxArrivals /\ code \in 0..codes
      /\ RequestsTyped /\ codes <= MaxArrivals /\ MaxArrivals \in Nat
      /\ code' \in {code, 0} \/ (codes' = codes + 1 /\ code' = codes')
      /\ codes <= codes'
  BY CodesBoundedNext, StoresBounded, StoreStep, CaptchaAssumption
     DEF Typed, GateTyped
<1>3. \A c \in 1..MaxArrivals : c > codes => accepted[c] = 0
  BY <1>2 DEF CodesKept
<1>4. ASSUME accepted' = accepted PROVE code' # 0 => accepted'[code'] = 0
  BY <1>1, <1>2, <1>3, <1>4
<1>5. CASE CodeExpires \/ SliderExpires \/ TimePasses \/ UNCHANGED captchaVars
  <2>1. UNCHANGED <<req, codes, accepted>>
    BY <1>5 DEF CodeExpires, SliderExpires, TimePasses, captchaVars,
       storeVars, ghostVars
  <2>2. \A c : Deleting(c)' = Deleting(c)
    BY <2>1 DEF Deleting
  <2>. QED  BY <1>1, <1>4, <2>1, <2>2
<1>6. ASSUME NEW r \in Requests, Serve(r), ~DeleteCode(r),
             NEW c \in 1..codes'
      PROVE  accepted'[c] + Cardinality(Deleting(c)')
                <= Cardinality(Requests)
  <2>1. accepted' = accepted
    BY <1>6 DEF Serve, Arrive, PassGate, IncrCaptchaCount, CheckSlider,
       StoreCode, SendCaptchaSMS, UndoSend, SolveSlider, ghostVars,
       SetSliderVerificationToken, CompareCode
  <2>2. CASE accepted[c] = 0
    BY <2>1, <2>2, DeletingBounded
  <2>3. CASE accepted[c] # 0
    <3>1. c \in 1..codes /\ c # code /\ accepted[c] \in Nat
      BY <1>1, <1>2, <1>3, <2>3
    <3>2. ~(req'[r].pc = "delete" /\ req'[r].arg = c)
      BY <1>6, <3>1, OnlyComparing DEF None
    <3>3. /\ Cardinality(Deleting(c)) \in Nat
          /\ Cardinality(Deleting(c)') \in Nat
          /\ Cardinality(Deleting(c)') <= Cardinality(Deleting(c))
      BY <1>2, <1>6, <3>2, ServeIsLocal, DeletingCounts
    <3>4. accepted[c] + Cardinality(Deleting(c)) <= Cardinality(Requests)
          /\ Cardinality(Requests) \in Nat
      BY <1>1, <3>1, DeletingBounded
    <3>. QED  BY <2>1, <3>1, <3>3, <3>4
  <2>. QED  BY <2>2, <2>3
<1>7. ASSUME NEW r \in Requests, DeleteCode(r)
      PROVE  /\ code' = 0
             /\ \A c \in 1..codes' :
                   accepted'[c] + Cardinality(Deleting(c)')
                      <= Cardinality(Requests)
  <2>1. /\ req[r] # None /\ req[r].pc = "delete" /\ codes' = codes
        /\ req[r].arg \in delivered
        /\ accepted' = [accepted EXCEPT ![req[r].arg] = @ + 1]
        /\ req' = [req EXCEPT ![r] = None]
    BY <1>7 DEF DeleteCode, At, Accept, Answer, Fails, Typed, RequestOK
  <2>2. code' = 0
    <3>1. ~Fails(r)
      BY <1>1 DEF Fails, Limiter!RedisFault
    <3>. QED  BY <1>7, <3>1 DEF DeleteCode
  <2>3. ASSUME NEW c \in 1..codes'
        PROVE  accepted'[c] + Cardinality(Deleting(c)')
                  <= Cardinality(Requests)
    <3>. DEFINE mine == req[r].arg = c
    <3>1. accepted'[c] = accepted[c] + (IF mine THEN 1 ELSE 0)
          /\ accepted[c] \in Nat
      <4>1. c \in 1..MaxArrivals
        BY <1>2
      <4>. QED  BY <1>2, <2>1, <4>1
    <3>2. /\ Cardinality(Deleting(c)) \in Nat
          /\ Cardinality(Deleting(c)') \in Nat
          /\ Cardinality(Deleting(c)') = Cardinality(Deleting(c))
                                           - (IF mine THEN 1 ELSE 0)
      <4>1. \A q \in Requests \ {r} : req'[q] = req[q]
        BY <1>2, <2>1, DoneIs
      <4>2. req'[r].pc # "delete"
        BY <1>2, <2>1, DoneIs
      <4>. QED  BY <2>1, <4>1, <4>2, DeletingCounts
    <3>3. accepted[c] + Cardinality(Deleting(c)) <= Cardinality(Requests)
          /\ Cardinality(Requests) \in Nat
      BY <1>1, <2>1, DeletingBounded
    <3>. HIDE DEF mine
    <3>. QED  BY <3>1, <3>2, <3>3
  <2>. QED  BY <2>2, <2>3
<1>8. ASSUME NEW r \in Requests, Serve(r), ~DeleteCode(r)
      PROVE  code' # 0 => accepted'[code'] = 0
  <2>1. accepted' = accepted
    BY <1>8 DEF Serve, Arrive, PassGate, IncrCaptchaCount, CheckSlider,
       StoreCode, SendCaptchaSMS, UndoSend, SolveSlider, ghostVars,
       SetSliderVerificationToken, CompareCode
  <2>. QED  BY <1>4, <2>1
<1>9. CASE \E r \in Requests : Serve(r) /\ ~DeleteCode(r)
  BY <1>6, <1>8, <1>9
<1>10. CASE \E r \in Requests : DeleteCode(r)
  BY <1>7, <1>10
<1>. QED  BY <1>5, <1>9, <1>10 DEF CaptchaNext

(* No step spoils the newest code but those that are excused.              *)
LEMMA CodesStep ==
    ASSUME Typed, Counted, CodesKept, [CaptchaNext]_captchaVars
    PROVE  CodesKept'
<1>1. /\ accepted \in [1..MaxArrivals -> Nat] /\ delivered \subseteq 1..codes
      /\ codes \in Nat /\ code \in 0..codes /\ codes <= MaxArrivals
      /\ MaxArrivals \in Nat /\ delivered \subseteq delivered'
      /\ (lost => lost') /\ lost \in BOOLEAN /\ lost' \in BOOLEAN
      /\ expiries \in Nat /\ expiries' \in Nat /\ expiries <= expiries'
      /\ redisFaults \in Nat /\ redisFaults' \in Nat
      /\ redisFaults <= redisFaults'
  <2>1. /\ accepted \in [1..MaxArrivals -> Nat] /\ lost \in BOOLEAN
        /\ delivered \subseteq 1..codes
        /\ codes \in Nat /\ code \in 0..codes
        /\ MaxArrivals \in Nat /\ expiries \in Nat
    BY CaptchaAssumption DEF Typed
  <2>2. codes <= MaxArrivals
    BY StoresBounded
  <2>3. /\ delivered \subseteq delivered'
        /\ (lost => lost') /\ lost' \in BOOLEAN
        /\ expiries' \in Nat /\ expiries <= expiries'
    BY StoreStep, CaptchaAssumption
  <2>4. /\ redisFaults \in Nat /\ redisFaults' \in Nat
        /\ redisFaults <= redisFaults'
    BY FaultsStay
  <2>. QED  BY <2>1, <2>2, <2>3, <2>4
<1>2. \A c \in 1..MaxArrivals : accepted'[c] # 0 => c \in delivered'
  <2>1. CASE accepted' = accepted
    BY <1>1, <2>1 DEF CodesKept
  <2>2. ASSUME NEW d \in delivered,
               accepted' = [accepted EXCEPT ![d] = @ + 1]
        PROVE  \A c \in 1..MaxArrivals : accepted'[c] # 0 => c \in delivered'
    BY <1>1, <2>2 DEF CodesKept
  <2>. QED  BY <2>1, <2>2, AcceptedStep
<1>3. \A c \in delivered : accepted[c] # 0 => accepted'[c] # 0
  <2>1. ASSUME NEW d \in delivered,
               accepted' = [accepted EXCEPT ![d] = @ + 1]
        PROVE  \A c \in delivered : accepted[c] # 0 => accepted'[c] # 0
    BY <1>1, <2>1
  <2>. QED  BY <2>1, AcceptedStep
<1>4. ASSUME ~lost', redisFaults' = 0, expiries' = 0
      PROVE  code' = codes' \/ \E c \in delivered' : accepted'[c] # 0
  <2>1. code = codes \/ \E c \in delivered : accepted[c] # 0
    BY <1>1, <1>4 DEF CodesKept
  <2>2. CASE \E c \in delivered : accepted[c] # 0
    BY <1>1, <1>3, <2>2
  <2>3. CASE UNCHANGED <<code, codes>>
    BY <1>1, <2>1, <2>2, <2>3
  <2>4. ASSUME NEW r \in Requests, DeleteCode(r)
        PROVE  \E c \in delivered' : accepted'[c] # 0
    <3>1. req[r].arg \in delivered
          /\ accepted' = [accepted EXCEPT ![req[r].arg] = @ + 1]
      BY <2>4 DEF DeleteCode, At, Accept, Typed, RequestOK
    <3>2. PICK d \in delivered :
             accepted' = [accepted EXCEPT ![d] = @ + 1]
      BY <3>1
    <3>3. d \in 1..MaxArrivals
      BY <1>1
    <3>4. accepted'[d] = accepted[d] + 1 /\ accepted[d] \in Nat
      BY <1>1, <3>2, <3>3
    <3>. QED  BY <1>1, <3>4
  <2>5. ASSUME NEW r \in Requests, StoreCode(r)
        PROVE  code' = codes' \/ UNCHANGED <<code, codes>>
    BY <2>5 DEF StoreCode
  <2>6. ASSUME NEW r \in Requests, UndoSend(r) PROVE FALSE
    <3>1. lost
      BY <2>6 DEF UndoSend, At, Typed, RequestOK
    <3>. QED  BY <1>1, <1>4, <3>1
  <2>7. ASSUME NEW r \in Requests, Serve(r), ~DeleteCode(r), ~StoreCode(r),
               ~UndoSend(r)
        PROVE  UNCHANGED <<code, codes>>
    BY <2>7 DEF Serve, Arrive, PassGate, IncrCaptchaCount, CheckSlider,
       SendCaptchaSMS, SolveSlider, storeVars, SetSliderVerificationToken,
       CompareCode
  <2>8. CASE CodeExpires \/ SliderExpires
    <3>1. expiries' = expiries + 1
      BY <2>8 DEF CodeExpires, SliderExpires, Expire
    <3>. QED  BY <1>1, <1>4, <3>1
  <2>9. CASE TimePasses \/ UNCHANGED captchaVars
    BY <2>3, <2>9 DEF TimePasses, captchaVars, storeVars
  <2>. QED  BY <2>3, <2>4, <2>5, <2>6, <2>7, <2>8, <2>9 DEF CaptchaNext
<1>. QED  BY <1>2, <1>4 DEF CodesKept

(* At the start no code is stored.                                         *)
LEMMA CodesInit == CaptchaInit => LoginsBounded /\ CodesKept
BY DEF CaptchaInit, LoginsBounded, CodesKept

(* In every state the logins are bounded and the codes kept.               *)
THEOREM CodesInvariance == CaptchaSpec => [](LoginsBounded /\ CodesKept)
<1>1. /\ Typed /\ Counted /\ LoginsBounded /\ CodesKept
      /\ [CaptchaNext]_captchaVars
      => (LoginsBounded /\ CodesKept)'
  BY LoginsStep, CodesStep
<1>. QED  BY <1>1, CodesInit, CaptchaTyped, PTL DEF CaptchaSpec

(* A code logs in at most as many requests as are served at a time.        *)
THEOREM OneLogin == CaptchaSpec => []OneLoginPerCode
<1>1. Typed /\ Counted /\ LoginsBounded => OneLoginPerCode
  <2>. SUFFICES ASSUME Typed, Counted, LoginsBounded, redisFaults = 0,
                       NEW c \in 1..codes
                PROVE  accepted[c] <= Cardinality(Requests)
    BY DEF OneLoginPerCode
  <2>1. Cardinality(Deleting(c)) \in Nat /\ Cardinality(Requests) \in Nat
    BY CaptchaAssumption, FS_Subset, FS_CardinalityType DEF Deleting
  <2>2. c \in 1..MaxArrivals
    BY StoresBounded, CaptchaAssumption DEF Typed
  <2>3. accepted[c] \in Nat
    BY <2>2 DEF Typed
  <2>. QED  BY <2>1, <2>3 DEF LoginsBounded
<1>. QED  BY <1>1, CaptchaTyped, CodesInvariance, PTL

(* The newest code that arrived on the phone is the one that logs in.      *)
THEOREM CodeWorks == CaptchaSpec => []DeliveredCodeWorks
<1>1. CodesKept => DeliveredCodeWorks
  BY DEF CodesKept, DeliveredCodeWorks
<1>. QED  BY <1>1, CodesInvariance, PTL

=============================================================================
