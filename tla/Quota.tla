------------------------------- MODULE Quota -------------------------------
(***************************************************************************)
(* One SMS wallet (a row of quota_wallets) and its ledger                  *)
(* (quota_transactions), used concurrently by callers of QuotaService.     *)
(*                                                                         *)
(* Every QuotaService method is one database transaction that first reads  *)
(* the row with a plain SELECT, decides, and then writes the row with a    *)
(* relative UPDATE (available_amount = available_amount - ?) and inserts   *)
(* a ledger row.  Under READ COMMITTED the SELECT takes no lock, so other  *)
(* transactions commit between the read and the write: each method is two  *)
(* steps here, the read that decides and the commit.                       *)
(*                                                                         *)
(* The only caller is NotificationService.SendSMS, which always passes     *)
(* the same amount (smsUnitPriceCents), here Price.                        *)
(***************************************************************************)
EXTENDS Integers, FiniteSets

CONSTANTS
    Clients,       \* the goroutines that call QuotaService
    Price,         \* smsUnitPriceCents
    DefaultGrant,  \* what the wallet is created with at the first login
    TopUp,         \* the amount of one GrantQuota call
    MaxTopUps,     \* bound on GrantQuota calls
    MaxHolds       \* bound on PreDeduct calls that succeed

ASSUME ClientsAssumption == IsFiniteSet(Clients) /\ Clients # {}
ASSUME AmountsAssumption == /\ Price \in Nat \ {0}
                            /\ DefaultGrant \in Nat
                            /\ TopUp \in Nat \ {0}
ASSUME BoundsAssumption == MaxTopUps \in Nat /\ MaxHolds \in Nat

VARIABLES
    wallet,        \* the quota_wallets row
    ledger,        \* sum of the ledger amounts, by reason
    balanceAfter,  \* balance_after of the newest ledger row
    stage,         \* where each client is in the hold / release protocol
    seen,          \* available_amount as the client's transaction read it
    leaked         \* holds whose owner is gone: frozen for ever

quotaVars == <<wallet, ledger, balanceAfter, stage, seen, leaked>>

Reasons == {"grant", "refund", "pre_deduct", "confirm_deduct"}

(* "checked", "granting", "confirming" and "refunding" are open            *)
(* transactions; "held" is a client between two of them.                   *)
Stages == {"idle", "checked", "held", "confirming", "refunding", "granting"}

HoldStages == {"held", "confirming", "refunding"}

Holders == {c \in Clients : stage[c] \in HoldStages}

QuotaTypeOK ==
    /\ wallet \in [available : Int, frozen : Int, used : Nat, granted : Nat]
    /\ ledger \in [Reasons -> Nat]
    /\ balanceAfter \in Int
    /\ stage \in [Clients -> Stages]
    /\ seen \in [Clients -> Int]
    /\ leaked \in Nat

QuotaInit ==
    /\ wallet = [available |-> DefaultGrant, frozen |-> 0, used |-> 0,
                 granted |-> DefaultGrant]
    /\ ledger = [r \in Reasons |-> IF r = "grant" THEN DefaultGrant ELSE 0]
    /\ balanceAfter = DefaultGrant
    /\ stage = [c \in Clients |-> "idle"]
    /\ seen = [c \in Clients |-> 0]
    /\ leaked = 0

-----------------------------------------------------------------------------

(* The SELECT at the start of a transaction of client c.                   *)
ReadWallet(c, next) ==
    /\ stage' = [stage EXCEPT ![c] = next]
    /\ seen' = [seen EXCEPT ![c] = wallet.available]
    /\ UNCHANGED <<wallet, ledger, balanceAfter, leaked>>

(* The transaction of client c ends and its local variables are gone.      *)
EndTx(c, next) ==
    /\ stage' = [stage EXCEPT ![c] = next]
    /\ seen' = [seen EXCEPT ![c] = 0]

(* Broken variant: a ledger row overwrites the last one of its reason.     *)
MutAppendLedger(reason, amount, balance) ==
    /\ ledger' = [ledger EXCEPT ![reason] = amount]
    /\ balanceAfter' = balance

(* The INSERT of a ledger row: its balance_after is computed from what     *)
(* the transaction read, not from what the UPDATE produced.                *)
AppendLedger(reason, amount, balance) ==
    /\ ledger' = [ledger EXCEPT ![reason] = @ + amount]
    /\ balanceAfter' = balance

(* Broken variant: the balance check is forgotten.                         *)
MutPreDeductRead(c) ==
    /\ stage[c] = "idle"
    /\ ledger["pre_deduct"] < MaxHolds * Price
    /\ ReadWallet(c, "checked")

(* PreDeduct found enough available quota.  (When it does not, it returns  *)
(* QuotaInsufficient and the transaction rolls back: no state changes.)    *)
PreDeductRead(c) ==
    /\ stage[c] = "idle"
    /\ wallet.available >= Price
    /\ ledger["pre_deduct"] < MaxHolds * Price
    /\ ReadWallet(c, "checked")

(* Broken variant: the caller forgets that it holds quota.                 *)
MutPreDeductCommit(c) ==
    /\ stage[c] = "checked"
    /\ wallet' = [wallet EXCEPT !.available = @ - Price, !.frozen = @ + Price]
    /\ AppendLedger("pre_deduct", Price, seen[c] - Price)
    /\ EndTx(c, "idle")
    /\ UNCHANGED leaked

PreDeductCommit(c) ==
    /\ stage[c] = "checked"
    /\ wallet' = [wallet EXCEPT !.available = @ - Price, !.frozen = @ + Price]
    /\ AppendLedger("pre_deduct", Price, seen[c] - Price)
    /\ EndTx(c, "held")
    /\ UNCHANGED leaked

(* ConfirmDeduction and Refund both refuse when frozen_amount < amount.    *)
ConfirmRead(c) ==
    /\ stage[c] = "held"
    /\ wallet.frozen >= Price
    /\ ReadWallet(c, "confirming")

(* Broken variant: used_amount moves the wrong way.                        *)
MutConfirmCommit(c) ==
    /\ stage[c] = "confirming"
    /\ wallet' = [wallet EXCEPT !.frozen = @ - Price, !.used = @ - Price]
    /\ AppendLedger("confirm_deduct", Price, seen[c])
    /\ EndTx(c, "idle")
    /\ UNCHANGED leaked

ConfirmCommit(c) ==
    /\ stage[c] = "confirming"
    /\ wallet' = [wallet EXCEPT !.frozen = @ - Price, !.used = @ + Price]
    /\ AppendLedger("confirm_deduct", Price, seen[c])
    /\ EndTx(c, "idle")
    /\ UNCHANGED leaked

RefundRead(c) ==
    /\ stage[c] = "held"
    /\ wallet.frozen >= Price
    /\ ReadWallet(c, "refunding")

(* Broken variant: the ledger row of a refund has the balance before it.   *)
MutRefundCommit(c) ==
    /\ stage[c] = "refunding"
    /\ wallet' = [wallet EXCEPT !.available = @ + Price, !.frozen = @ - Price]
    /\ AppendLedger("refund", Price, seen[c])
    /\ EndTx(c, "idle")
    /\ UNCHANGED leaked

RefundCommit(c) ==
    /\ stage[c] = "refunding"
    /\ wallet' = [wallet EXCEPT !.available = @ + Price, !.frozen = @ - Price]
    /\ AppendLedger("refund", Price, seen[c] + Price)
    /\ EndTx(c, "idle")
    /\ UNCHANGED leaked

GrantRead(c) ==
    /\ stage[c] = "idle"
    /\ wallet.granted < DefaultGrant + MaxTopUps * TopUp
    /\ ReadWallet(c, "granting")

GrantCommit(c) ==
    /\ stage[c] = "granting"
    /\ wallet' = [wallet EXCEPT !.available = @ + TopUp, !.granted = @ + TopUp]
    /\ AppendLedger("grant", TopUp, seen[c] + TopUp)
    /\ EndTx(c, "idle")
    /\ UNCHANGED leaked

(* A transaction that has taken nothing yet rolls back (database error or  *)
(* crash of the process).                                                  *)
Rollback(c) ==
    /\ stage[c] \in {"checked", "granting"}
    /\ EndTx(c, "idle")
    /\ UNCHANGED <<wallet, ledger, balanceAfter, leaked>>

(* The owner of a hold never releases it: ConfirmDeduction or Refund       *)
(* failed (SendSMS only logs that) or the process died with the hold.      *)
Abandon(c) ==
    /\ stage[c] \in HoldStages
    /\ EndTx(c, "idle")
    /\ leaked' = leaked + 1
    /\ UNCHANGED <<wallet, ledger, balanceAfter>>

QuotaStep(c) ==
    \/ PreDeductRead(c) \/ PreDeductCommit(c)
    \/ ConfirmRead(c)   \/ ConfirmCommit(c)
    \/ RefundRead(c)    \/ RefundCommit(c)
    \/ GrantRead(c)     \/ GrantCommit(c)
    \/ Rollback(c)      \/ Abandon(c)

QuotaNext == \E c \in Clients : QuotaStep(c)

QuotaSpec == QuotaInit /\ [][QuotaNext]_quotaVars

-----------------------------------------------------------------------------

(* No cent appears or disappears: what was granted is available, frozen or *)
(* used, whatever way the transactions of PreDeduct, ConfirmDeduction,     *)
(* Refund and GrantQuota interleave, fail or are cut off by a crash.       *)
Conservation ==
    wallet.available + wallet.frozen + wallet.used = wallet.granted

(* frozen_amount is exactly one Price per hold that is still owned or was  *)
(* abandoned.  So the "insufficient frozen amount" error of                *)
(* ConfirmDeduction and Refund cannot happen to an owner of a hold, and a  *)
(* hold is released at most once.                                          *)
FrozenIsHeld ==
    wallet.frozen = Price * (Cardinality(Holders) + leaked)

(* The audit trail agrees with the row: summing the ledger by reason gives *)
(* the wallet, although the transactions race.                             *)
LedgerReconciles ==
    /\ wallet.granted = ledger["grant"]
    /\ wallet.used = ledger["confirm_deduct"]
    /\ wallet.available =
         ledger["grant"] + ledger["refund"] - ledger["pre_deduct"]

(* The books of a wallet balance: in the row, and between the row and its  *)
(* ledger, in every state of every interleaving.                           *)
BooksBalance == Conservation /\ LedgerReconciles

(* PreDeduct never takes quota that is not there.  Its comment promises a  *)
(* pessimistic lock; the SELECT takes none, so this needs a single caller. *)
NoOverdraft == wallet.available >= 0

(* What the missing lock can cost at most: each of the other clients can   *)
(* commit one PreDeduct it decided on the same last Price.                 *)
OverdraftBounded ==
    wallet.available >= -(Price * (Cardinality(Clients) - 1))

(* The strengthening of OverdraftBounded that is inductive: even after     *)
(* every PreDeduct that has already decided has committed, the overdraft   *)
(* is within the bound.                                                    *)
Deciders == {c \in Clients : stage[c] = "checked"}

DecidersCovered ==
    wallet.available - Price * Cardinality(Deciders)
        >= -(Price * (Cardinality(Clients) - 1))

(* The balance_after of the newest ledger row is the balance of the wallet  *)
(* if no other transaction committed between the read and the commit of    *)
(* the one that wrote it: when they do, it is not, although model and      *)
(* schema tell readers to take the balance from there.                     *)
BalanceAfterIsExact ==
    [][\A c \in Clients :
          stage'[c] # stage[c] /\ ledger' # ledger
             /\ seen[c] = wallet.available
                => balanceAfter' = wallet'.available]_quotaVars

=============================================================================
