------------------------------ MODULE Captcha ------------------------------
(***************************************************************************)
(* SMS codes for one phone number on one day: the requests of              *)
(* /auth/phone/* behind the rate limiter, the daily counter, the slider    *)
(* token and the code in Redis, and the SMS provider.                      *)
(*                                                                         *)
(* Each Redis or provider call of VerificationService is a step, so that   *)
(* requests for the same number interleave between them.  Codes and slider *)
(* tokens are numbered in the order in which they are stored; a guess of a *)
(* code that was never sent is 0.  (That two random six-digit codes        *)
(* collide is left out.)                                                   *)
(***************************************************************************)
EXTENDS Integers, Sequences, FiniteSets

CONSTANTS
    Requests, MaxInWindow, MaxRedisFaults,   \* see RateLimiter
    SliderThreshold,   \* CaptchaSliderThreshold
    MaxDaily,          \* CaptchaMaxDaily
    MaxArrivals,       \* bound on the requests of a run
    MaxExpiries,       \* bound on codes and tokens that expire
    Kinds              \* which requests clients make

ASSUME CaptchaAssumption ==
    /\ IsFiniteSet(Requests) /\ Requests \cap {"admitted", "refused"} = {}
    /\ MaxInWindow \in Nat \ {0} /\ MaxRedisFaults \in Nat
    /\ SliderThreshold \in Nat /\ MaxDaily \in Nat
    /\ MaxArrivals \in Nat /\ MaxExpiries \in Nat
    /\ Kinds \subseteq {"send", "slider", "verify"}

VARIABLES
    window, aged, blocked, gate, redisFaults,   \* see RateLimiter
    req,        \* the request each server goroutine handles
    arrivals,   \* requests so far
    count,      \* captcha:count:<phone>:<date>
    code,       \* captcha:<phone>: the stored code, 0 when there is none
    slider,     \* slider:verify:<phone>: the stored token, 0 for none
    codes,      \* codes stored so far
    sliders,    \* slider tokens issued so far
    delivered,  \* codes that reached the phone
    unguarded,  \* codes sent without a solved slider
    accepted,   \* how often each code was accepted
    lost,       \* an SMS failed
    expiries

Limiter == INSTANCE RateLimiter

limiterVars == <<window, aged, blocked, gate, redisFaults>>
storeVars == <<count, code, slider, codes, sliders>>
ghostVars == <<delivered, unguarded, accepted, lost>>
captchaVars == <<limiterVars, req, arrivals, storeVars, ghostVars, expiries>>

(* A served request: the next call, what it sends (a slider token or a     *)
(* code), and the number of the code that a send request has stored.       *)
None == [pc |-> "none"]
PCs == {"gate", "incr", "slider", "store", "sms", "undo", "solve", "issue",
        "compare", "delete"}
Request == [pc : PCs, kind : Kinds, arg : 0..MaxArrivals,
            code : 0..MaxArrivals]

CaptchaTypeOK ==
    /\ Limiter!LimiterTypeOK
    /\ req \in [Requests -> Request \cup {None}]
    /\ arrivals \in 0..MaxArrivals
    /\ count \in 0..MaxArrivals
    /\ codes \in 0..MaxArrivals /\ sliders \in 0..MaxArrivals
    /\ code \in 0..codes /\ slider \in 0..sliders
    /\ delivered \subseteq 1..codes
    /\ unguarded \in Nat
    /\ accepted \in [1..MaxArrivals -> Nat]
    /\ lost \in BOOLEAN
    /\ expiries \in 0..MaxExpiries
    /\ \A r \in Requests :
          /\ gate[r] # "outside" => req[r] # None
          /\ req[r] # None =>
                (req[r].pc \in PCs \ {"gate"} <=> gate[r] = "inside")

CaptchaInit ==
    /\ Limiter!LimiterInit
    /\ req = [r \in Requests |-> None]
    /\ arrivals = 0
    /\ count = 0 /\ code = 0 /\ slider = 0 /\ codes = 0 /\ sliders = 0
    /\ delivered = {} /\ unguarded = 0
    /\ accepted = [c \in 1..MaxArrivals |-> 0]
    /\ lost = FALSE
    /\ expiries = 0

-----------------------------------------------------------------------------

At(r, pc) == req[r] # None /\ req[r].pc = pc

Goto(r, pc) == req' = [req EXCEPT ![r].pc = pc]

(* Broken variant: the request is over, but its slot is never freed.       *)
MutAnswer(r) ==
    /\ req' = [req EXCEPT ![r] = None]
    /\ UNCHANGED limiterVars

(* The handler answers, whatever it answers.                               *)
Answer(r) ==
    /\ Limiter!Leave(r)
    /\ req' = [req EXCEPT ![r] = None]

(* A Redis call works, or fails for want of Redis.  A command that fails   *)
(* may have been carried out: its answer can be what was lost.             *)
Works == UNCHANGED limiterVars
Fails(r) == /\ Limiter!RedisFault
            /\ Limiter!Pass(r, "outside")
            /\ req' = [req EXCEPT ![r] = None]
            /\ UNCHANGED <<window, aged, blocked>>

(* A client sends a request and passes the first check of the middleware.  *)
(* It may send any token or code it has got, or a guess.                   *)
Arrive(r) ==
    /\ req[r] = None
    /\ arrivals < MaxArrivals
    /\ Limiter!Enter(r)
    /\ \E kind \in Kinds :
          \E arg \in CASE kind = "send" -> 0..sliders
                       [] kind = "slider" -> {0}
                       [] kind = "verify" -> {0} \cup delivered :
             req' = [req EXCEPT ![r] = [pc |-> "gate", kind |-> kind,
                                        arg |-> arg, code |-> 0]]
    /\ arrivals' = arrivals + 1
    /\ UNCHANGED <<storeVars, ghostVars, expiries>>

FirstCall(kind) == CASE kind = "send" -> "incr"
                     [] kind = "slider" -> "solve"
                     [] kind = "verify" -> "compare"

(* The rest of the middleware.                                             *)
PassGate(r) ==
    /\ At(r, "gate")
    /\ \/ Limiter!Add(r) /\ UNCHANGED req
       \/ Limiter!Refuse(r) /\ UNCHANGED req
       \/ Limiter!Admit(r) /\ Goto(r, FirstCall(req[r].kind))
       \/ /\ Limiter!Block(r) \/ Limiter!BlockFails(r)
             \/ Limiter!PipelineFails(r)
          /\ req' = [req EXCEPT ![r] = None]
    /\ UNCHANGED <<arrivals, storeVars, ghostVars, expiries>>

-----------------------------------------------------------------------------
(* SendCaptcha                                                             *)

(* Broken variant: the counter is read first and counts sent codes only.   *)
MutIncrCaptchaCount(r) ==
    /\ At(r, "incr")
    /\ \/ /\ Works
          /\ count' = codes
          /\ codes < MaxDaily
          /\ Goto(r, IF codes + 1 > SliderThreshold THEN "slider" ELSE "store")
       \/ /\ codes >= MaxDaily
          /\ Answer(r)
          /\ UNCHANGED count
       \/ Fails(r) /\ UNCHANGED count
    /\ UNCHANGED <<arrivals, code, slider, codes, sliders, ghostVars, expiries>>

(* INCR is atomic and its answer decides: refused beyond the daily limit,  *)
(* with a slider beyond the threshold.  Refused requests count as well.    *)
IncrCaptchaCount(r) ==
    /\ At(r, "incr")
    /\ \/ /\ count' = count + 1
          /\ IF count' > MaxDaily
             THEN Answer(r)
             ELSE /\ Works
                  /\ Goto(r, IF count' > SliderThreshold THEN "slider"
                                                         ELSE "store")
       \/ Fails(r) /\ count' \in {count, count + 1}
    /\ UNCHANGED <<arrivals, code, slider, codes, sliders, ghostVars, expiries>>

(* ValidateSliderVerificationToken; any failure refuses.  The token is not *)
(* consumed.                                                               *)
CheckSlider(r) ==
    /\ At(r, "slider")
    /\ \/ /\ req[r].arg # 0 /\ req[r].arg = slider
          /\ Works
          /\ Goto(r, "store")
       \/ /\ req[r].arg = 0 \/ req[r].arg # slider
          /\ Answer(r)
       \/ Fails(r)
    /\ UNCHANGED <<arrivals, storeVars, ghostVars, expiries>>

(* SetCaptcha of a fresh code replaces the one before.                     *)
StoreCode(r) ==
    /\ At(r, "store")
    /\ \/ /\ Works
          /\ codes' = codes + 1
          /\ code' = codes'
          /\ req' = [req EXCEPT ![r].pc = "sms", ![r].code = codes']
       \/ /\ Fails(r)
          /\ \/ UNCHANGED <<codes, code>>
             \/ codes' = codes + 1 /\ code' = codes'
    /\ UNCHANGED <<arrivals, count, slider, sliders, ghostVars, expiries>>

(* SendCaptchaSMS: delivered; failed; or delivered although the answer of  *)
(* the provider is an error or never comes.                                *)
SendCaptchaSMS(r) ==
    /\ At(r, "sms")
    /\ \E arrives, reported \in BOOLEAN :
          /\ reported => arrives
          /\ delivered' = IF arrives THEN delivered \cup {req[r].code}
                                     ELSE delivered
          /\ unguarded' = IF arrives /\ req[r].arg = 0 THEN unguarded + 1
                                                       ELSE unguarded
          /\ lost' = (lost \/ ~reported)
          /\ IF reported THEN Answer(r) ELSE Works /\ Goto(r, "undo")
    /\ UNCHANGED <<arrivals, storeVars, accepted, expiries>>

(* DeleteCaptcha takes whatever code is stored by now; its error is        *)
(* ignored, and the answer says success unless this is a development       *)
(* build.                                                                  *)
UndoSend(r) ==
    /\ At(r, "undo")
    /\ \/ code' = 0 /\ Answer(r)
       \/ Fails(r) /\ code' \in {code, 0}
    /\ UNCHANGED <<arrivals, count, slider, codes, sliders, ghostVars, expiries>>

-----------------------------------------------------------------------------
(* VerifySlider                                                            *)

(* The provider judges the slider.                                         *)
SolveSlider(r) ==
    /\ At(r, "solve")
    /\ \/ Works /\ Goto(r, "issue")
       \/ Answer(r)
    /\ UNCHANGED <<arrivals, storeVars, ghostVars, expiries>>

SetSliderVerificationToken(r) ==
    /\ At(r, "issue")
    /\ \/ /\ sliders' = sliders + 1
          /\ slider' = sliders'
          /\ Answer(r)
       \/ Fails(r) /\ UNCHANGED <<slider, sliders>>
    /\ UNCHANGED <<arrivals, count, code, codes, ghostVars, expiries>>

-----------------------------------------------------------------------------
(* VerifyCaptcha                                                           *)

(* Broken variant: a wrong code uses up the stored one.                    *)
MutCompareCode(r) ==
    /\ At(r, "compare")
    /\ Works /\ Goto(r, "delete")
    /\ UNCHANGED <<arrivals, storeVars, ghostVars, expiries>>

(* GetCaptcha: no code, another code, or the right one.                    *)
CompareCode(r) ==
    /\ At(r, "compare")
    /\ \/ /\ req[r].arg # 0 /\ req[r].arg = code
          /\ Works
          /\ Goto(r, "delete")
       \/ /\ req[r].arg = 0 \/ req[r].arg # code
          /\ Answer(r)
       \/ Fails(r)
    /\ UNCHANGED <<arrivals, storeVars, ghostVars, expiries>>

Accept(r) ==
    accepted' = IF req[r].arg = 0 THEN accepted
                ELSE [accepted EXCEPT ![req[r].arg] = @ + 1]

(* Broken variant: an accepted code is left to expire.                     *)
MutDeleteCode(r) ==
    /\ At(r, "delete")
    /\ Answer(r)
    /\ Accept(r)
    /\ UNCHANGED <<arrivals, storeVars, delivered, unguarded, lost, expiries>>

(* DeleteCaptcha, whose error is ignored; then the login goes on (see      *)
(* Account).                                                               *)
DeleteCode(r) ==
    /\ At(r, "delete")
    /\ \/ code' = 0 /\ Answer(r)
       \/ Fails(r) /\ code' \in {code, 0}
    /\ Accept(r)
    /\ UNCHANGED <<arrivals, count, slider, codes, sliders, delivered,
                   unguarded, lost, expiries>>

-----------------------------------------------------------------------------

Expire == expiries < MaxExpiries /\ expiries' = expiries + 1

CodeExpires ==
    /\ code # 0
    /\ Expire
    /\ code' = 0
    /\ UNCHANGED <<limiterVars, req, arrivals, count, slider, codes, sliders,
                   ghostVars>>

SliderExpires ==
    /\ slider # 0
    /\ Expire
    /\ slider' = 0
    /\ UNCHANGED <<limiterVars, req, arrivals, count, code, codes, sliders,
                   ghostVars>>

(* The window slides and the block ends.                                   *)
TimePasses ==
    /\ Limiter!Slide \/ Limiter!Unblock
    /\ UNCHANGED <<req, arrivals, storeVars, ghostVars, expiries>>

Serve(r) ==
    \/ Arrive(r) \/ PassGate(r)
    \/ IncrCaptchaCount(r) \/ CheckSlider(r) \/ StoreCode(r)
    \/ SendCaptchaSMS(r) \/ UndoSend(r)
    \/ SolveSlider(r) \/ SetSliderVerificationToken(r)
    \/ CompareCode(r) \/ DeleteCode(r)

CaptchaNext ==
    \/ \E r \in Requests : Serve(r)
    \/ CodeExpires \/ SliderExpires \/ TimePasses

CaptchaSpec == CaptchaInit /\ [][CaptchaNext]_captchaVars

-----------------------------------------------------------------------------

(* See RateLimiter: the composition keeps what the middleware promises.    *)
LimitHolds == Limiter!LimitHolds

(* However many requests for a number race, at most MaxDaily codes are     *)
(* sent to it on a day, and at most SliderThreshold of them to a client    *)
(* that shows no slider token.                                             *)
DailyLimits ==
    /\ codes <= MaxDaily
    /\ unguarded <= SliderThreshold

(* A code logs in once - but for the requests that have read it when it is *)
(* deleted: at most as many as are served at the same time, and more only  *)
(* while Redis refuses to delete it.                                       *)
OneLoginPerCode ==
    redisFaults = 0 =>
        \A c \in 1..codes : accepted[c] <= Cardinality(Requests)

(* The newest code that arrived on the phone is the one that is stored:    *)
(* wrong guesses, repeated sends and refused requests do not spoil it.     *)
(* (A failed SMS does: its clean-up takes the code of a later send; and a  *)
(* login does, which deletes whatever is stored.)                          *)
Newest == CHOOSE c \in delivered : \A d \in delivered : d <= c

DeliveredCodeWorks ==
    /\ delivered # {} /\ Newest = codes
    /\ ~lost /\ redisFaults = 0 /\ expiries = 0
    /\ \A c \in delivered : accepted[c] = 0
    /\ \A r \in Requests : At(r, "delete") => req[r].arg = 0
    => code = Newest

=============================================================================
