---------------------------- MODULE RateLimiter ----------------------------
(***************************************************************************)
(* RateLimitMiddleware for one key (a client address or a user): a sliding *)
(* window of requests in a Redis sorted set and a block key that is set    *)
(* when the window overflows.                                              *)
(*                                                                         *)
(* Allow sends its four commands in a pipeline, not in a transaction, so   *)
(* the commands of other requests come between its ZADD and its ZCARD; the *)
(* clean-up before the ZADD has no other effect and is one step with it.   *)
(* The block key is looked at before and set after, in calls of their own. *)
(* Time is not counted: entries age one by one (Slide), and the block key  *)
(* expires only after all of them have, because BlockDuration is longer    *)
(* than Window in every configuration.                                     *)
(***************************************************************************)
EXTENDS Integers, Sequences, FiniteSets

CONSTANTS
    Requests,      \* requests of this client that are served concurrently;
                   \* none of them is in Fates
    MaxInWindow,   \* config.MaxRequests
    MaxRedisFaults \* bound on Redis calls that fail

VARIABLES
    window,   \* the sorted set: entries in the order of their scores
    aged,     \* how many of its first entries are older than the window
    blocked,  \* the block key exists
    gate,     \* where each request is in the middleware
    redisFaults

limiterVars == <<window, aged, blocked, gate, redisFaults>>

Stages == {"outside", "adding", "counting", "blocking", "inside"}

(* An entry is its request until that is counted, and then what became of  *)
(* it.                                                                     *)
Fates == {"admitted", "refused"}
Entry == Requests \cup Fates

LimiterTypeOK ==
    /\ window \in Seq(Entry)
    /\ aged \in 0..Len(window)
    /\ blocked \in BOOLEAN
    /\ gate \in [Requests -> Stages]
    /\ redisFaults \in 0..MaxRedisFaults

LimiterInit ==
    /\ window = <<>> /\ aged = 0
    /\ blocked = FALSE
    /\ gate = [r \in Requests |-> "outside"]
    /\ redisFaults = 0

-----------------------------------------------------------------------------

Pass(r, next) == gate' = [gate EXCEPT ![r] = next]

RedisFault ==
    /\ redisFaults < MaxRedisFaults
    /\ redisFaults' = redisFaults + 1

(* IsBlocked says no.  (A blocked request, or one whose check fails, is    *)
(* answered at once and leaves no trace.)                                  *)
Enter(r) ==
    /\ gate[r] = "outside"
    /\ ~blocked
    /\ Pass(r, "adding")
    /\ UNCHANGED <<window, aged, blocked, redisFaults>>

(* ZREMRANGEBYSCORE and ZADD.                                              *)
Add(r) ==
    /\ gate[r] = "adding"
    /\ window' = Append(SubSeq(window, aged + 1, Len(window)), r)
    /\ aged' = 0
    /\ Pass(r, "counting")
    /\ UNCHANGED <<blocked, redisFaults>>

Seal(r, fate) ==
    window' = [i \in DOMAIN window |->
                  IF window[i] = r THEN fate ELSE window[i]]

Fits == Len(window) <= MaxInWindow

(* ZCARD: refused requests stay in the set and count as well.              *)
Admit(r) ==
    /\ gate[r] = "counting"
    /\ Fits
    /\ Seal(r, "admitted")
    /\ Pass(r, "inside")
    /\ UNCHANGED <<aged, blocked, redisFaults>>

Refuse(r) ==
    /\ gate[r] = "counting"
    /\ ~Fits
    /\ Seal(r, "refused")
    /\ Pass(r, "blocking")
    /\ UNCHANGED <<aged, blocked, redisFaults>>

(* A pipeline that fails is answered with 500; its ZADD may have happened. *)
PipelineFails(r) ==
    /\ gate[r] \in {"adding", "counting"}
    /\ RedisFault
    /\ IF gate[r] = "counting" THEN Seal(r, "refused") ELSE UNCHANGED window
    /\ Pass(r, "outside")
    /\ UNCHANGED <<aged, blocked>>

(* Broken variant: the block is set only for those who were counted first. *)
MutBlock(r) ==
    /\ gate[r] = "blocking"
    /\ blocked' = (blocked \/ Len(window) > MaxInWindow + 1)
    /\ Pass(r, "outside")
    /\ UNCHANGED <<window, aged, redisFaults>>

Block(r) ==
    /\ gate[r] = "blocking"
    /\ blocked' = TRUE
    /\ Pass(r, "outside")
    /\ UNCHANGED <<window, aged, redisFaults>>

(* The error is only logged: the request is refused all the same.          *)
BlockFails(r) ==
    /\ gate[r] = "blocking"
    /\ RedisFault
    /\ Pass(r, "outside")
    /\ UNCHANGED <<window, aged, blocked>>

(* The handler behind the middleware has answered.                         *)
Leave(r) ==
    /\ gate[r] = "inside"
    /\ Pass(r, "outside")
    /\ UNCHANGED <<window, aged, blocked, redisFaults>>

(* The oldest entry becomes older than the window.  A pipeline takes much  *)
(* less than a window, so it is never one that is still being counted.     *)
Slide ==
    /\ aged < Len(window)
    /\ window[aged + 1] \in Fates
    /\ aged' = aged + 1
    /\ UNCHANGED <<window, blocked, gate, redisFaults>>

Unblock ==
    /\ blocked
    /\ aged = Len(window)
    /\ blocked' = FALSE
    /\ UNCHANGED <<window, aged, gate, redisFaults>>

Middleware(r) ==
    \/ Enter(r) \/ Add(r) \/ Admit(r) \/ Refuse(r) \/ PipelineFails(r)
    \/ Block(r) \/ BlockFails(r)

LimiterNext ==
    \/ \E r \in Requests : Middleware(r) \/ Leave(r)
    \/ Slide \/ Unblock

LimiterSpec == LimiterInit /\ [][LimiterNext]_limiterVars

-----------------------------------------------------------------------------

Fresh == {i \in DOMAIN window : i > aged}

(* At no time has the window more admitted requests than allowed, although *)
(* the requests that are counted at the same time do not exclude one       *)
(* another: each adds itself before it counts.                             *)
AdmittedInWindow ==
    Cardinality({i \in Fresh : window[i] = "admitted"}) <= MaxInWindow

(* A client with more requests in the window than allowed is blocked, or   *)
(* about to be, or an error of Redis is to blame.                          *)
OverLimitIsBlocked ==
    Cardinality(Fresh) > MaxInWindow =>
        \/ blocked
        \/ \E r \in Requests : gate[r] \in {"counting", "blocking"}
        \/ redisFaults > 0

(* The limit holds in both directions: who is served is within it, and who *)
(* exceeds it is locked out for a while.                                   *)
LimitHolds == AdmittedInWindow /\ OverLimitIsBlocked

=============================================================================
