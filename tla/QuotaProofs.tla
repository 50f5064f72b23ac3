---------------------------- MODULE QuotaProofs ----------------------------
(***************************************************************************)
(* Proofs about the wallet, for every set of clients and every price.      *)
(* QuotaInv is the inductive invariant; the safety properties of Quota     *)
(* follow from it.                                                         *)
(***************************************************************************)
EXTENDS Quota, FiniteSetTheorems, TLAPS

QuotaInv ==
    /\ QuotaTypeOK
    /\ Conservation
    /\ FrozenIsHeld
    /\ LedgerReconciles
    /\ DecidersCovered

-----------------------------------------------------------------------------

(* Multiplication by Price distributes over one more and one less: the     *)
(* only facts of arithmetic the steps below need about products.           *)
LEMMA PriceTimes ==
    ASSUME NEW n \in Int
    PROVE  /\ Price * n \in Int
           /\ Price * (n + 1) = Price * n + Price
           /\ Price * (n - 1) = Price * n - Price
BY AmountsAssumption, SMT

(* The clients of a type-correct state form finite sets, whatever their    *)
(* stage, and there is at least one client.                                *)
LEMMA ClientSetsFinite ==
    /\ IsFiniteSet(Holders) /\ Cardinality(Holders) \in Nat
    /\ IsFiniteSet(Deciders) /\ Cardinality(Deciders) \in Nat
    /\ Cardinality(Deciders) <= Cardinality(Clients)
    /\ Cardinality(Clients) \in Nat /\ Cardinality(Clients) >= 1
<1>1. Holders \in SUBSET Clients /\ Deciders \in SUBSET Clients
  BY DEF Holders, Deciders
<1>2. IsFiniteSet(Clients) /\ Clients # {}
  BY ClientsAssumption
<1>3. /\ IsFiniteSet(Holders)
      /\ IsFiniteSet(Deciders)
      /\ Cardinality(Deciders) <= Cardinality(Clients)
  BY <1>1, <1>2, FS_Subset
<1>4. Cardinality(Holders) \in Nat /\ Cardinality(Deciders) \in Nat
  BY <1>3, FS_CardinalityType
<1>5. Cardinality(Clients) \in Nat /\ Cardinality(Clients) # 0
  BY <1>2, FS_CardinalityType, FS_EmptySet
<1>. QED  BY <1>3, <1>4, <1>5

(* How many clients hold quota and how many have decided after a step that *)
(* moves only client c.                                                    *)
LEMMA HoldersAfterMove ==
    ASSUME QuotaTypeOK, NEW c \in Clients, NEW next \in Stages,
           stage' = [stage EXCEPT ![c] = next]
    PROVE  Cardinality(Holders') = Cardinality(Holders)
             + (IF next \in HoldStages THEN 1 ELSE 0)
             - (IF stage[c] \in HoldStages THEN 1 ELSE 0)
<1>1. IsFiniteSet(Holders) /\ Cardinality(Holders) \in Nat
  BY ClientSetsFinite
<1>2. c \in Holders <=> stage[c] \in HoldStages
  BY DEF Holders
<1>3. CASE next \in HoldStages
  <2>1. Holders' = Holders \cup {c}
    BY <1>3 DEF Holders, QuotaTypeOK
  <2>2. Cardinality(Holders \cup {c}) = IF c \in Holders THEN Cardinality(Holders)
                                             ELSE Cardinality(Holders) + 1
    BY <1>1, FS_AddElement
  <2>. QED  BY <1>1, <1>2, <1>3, <2>1, <2>2
<1>4. CASE next \notin HoldStages
  <2>1. Holders' = Holders \ {c}
    BY <1>4 DEF Holders, QuotaTypeOK
  <2>2. Cardinality(Holders \ {c}) = IF c \in Holders THEN Cardinality(Holders) - 1
                                           ELSE Cardinality(Holders)
    BY <1>1, FS_RemoveElement
  <2>. QED  BY <1>1, <1>2, <1>4, <2>1, <2>2
<1>. QED  BY <1>3, <1>4

(* The same for the clients whose PreDeduct has decided.                   *)
LEMMA DecidersAfterMove ==
    ASSUME QuotaTypeOK, NEW c \in Clients, NEW next \in Stages,
           stage' = [stage EXCEPT ![c] = next]
    PROVE  Cardinality(Deciders') = Cardinality(Deciders)
             + (IF next = "checked" THEN 1 ELSE 0)
             - (IF stage[c] = "checked" THEN 1 ELSE 0)
<1>1. IsFiniteSet(Deciders) /\ Cardinality(Deciders) \in Nat
  BY ClientSetsFinite
<1>2. c \in Deciders <=> stage[c] = "checked"
  BY DEF Deciders
<1>3. CASE next = "checked"
  <2>1. Deciders' = Deciders \cup {c}
    BY <1>3 DEF Deciders, QuotaTypeOK
  <2>2. Cardinality(Deciders \cup {c}) = IF c \in Deciders THEN Cardinality(Deciders)
                                             ELSE Cardinality(Deciders) + 1
    BY <1>1, FS_AddElement
  <2>. QED  BY <1>1, <1>2, <1>3, <2>1, <2>2
<1>4. CASE next # "checked"
  <2>1. Deciders' = Deciders \ {c}
    BY <1>4 DEF Deciders, QuotaTypeOK
  <2>2. Cardinality(Deciders \ {c}) = IF c \in Deciders THEN Cardinality(Deciders) - 1
                                           ELSE Cardinality(Deciders)
    BY <1>1, FS_RemoveElement
  <2>. QED  BY <1>1, <1>2, <1>4, <2>1, <2>2
<1>. QED  BY <1>3, <1>4

-----------------------------------------------------------------------------

(* A wallet created with the default grant, with no transaction open,      *)
(* satisfies the inductive invariant.                                      *)
LEMMA InitEstablishes == QuotaInit => QuotaInv
<1>. SUFFICES ASSUME QuotaInit PROVE QuotaInv
  OBVIOUS
<1>1. Holders = {} /\ Deciders = {}
  BY DEF QuotaInit, Holders, Deciders, HoldStages
<1>2. Cardinality(Holders) = 0 /\ Cardinality(Deciders) = 0
  BY <1>1, FS_EmptySet
<1>3. QuotaTypeOK
  BY AmountsAssumption DEF QuotaInit, QuotaTypeOK, Reasons, Stages
<1>4. Conservation /\ LedgerReconciles
  BY AmountsAssumption DEF QuotaInit, Conservation, LedgerReconciles, Reasons
<1>5. FrozenIsHeld
  BY <1>2, AmountsAssumption DEF QuotaInit, FrozenIsHeld
<1>6. DecidersCovered
  <2>. DEFINE spare == Cardinality(Clients) - 1
  <2>1. spare \in Nat
    BY ClientSetsFinite
  <2>2. Price * spare >= 0 /\ Price * spare \in Int /\ Price * 0 = 0
    BY <2>1, AmountsAssumption, SMT
  <2>. QED  BY <1>2, <2>2, AmountsAssumption DEF QuotaInit, DecidersCovered
<1>. QED  BY <1>3, <1>4, <1>5, <1>6 DEF QuotaInv

(* Appending a ledger row of a non-negative amount keeps the ledger typed. *)
LEMMA LedgerStaysTyped ==
    ASSUME QuotaTypeOK, NEW reason \in Reasons, NEW amount \in Nat,
           NEW balance \in Int, AppendLedger(reason, amount, balance)
    PROVE  ledger' \in [Reasons -> Nat] /\ balanceAfter' \in Int
BY DEF QuotaTypeOK, AppendLedger

(* Every read and commit of a QuotaService method keeps the types.         *)
LEMMA StepPreservesType ==
    ASSUME QuotaTypeOK, NEW c \in Clients, QuotaStep(c)
    PROVE  QuotaTypeOK'
<1>. USE AmountsAssumption
     DEF QuotaTypeOK, Stages
<1>1. CASE PreDeductRead(c)
  BY <1>1 DEF PreDeductRead, ReadWallet, EndTx
<1>2. CASE PreDeductCommit(c)
  <2>1. wallet' \in [available : Int, frozen : Int, used : Nat, granted : Nat]
    <3>1. wallet.available - Price \in Int /\ wallet.frozen + Price \in Int
      OBVIOUS
    <3>. QED  BY <3>1, <1>2, Zenon DEF PreDeductCommit
  <2>2. ledger' \in [Reasons -> Nat] /\ balanceAfter' \in Int
    <3>. DEFINE balance == seen[c] - Price
    <3>1. AppendLedger("pre_deduct", Price, balance)
      BY <1>2 DEF PreDeductCommit
    <3>. HIDE DEF balance
    <3>2. balance \in Int
      BY DEF balance
    <3>. QED  BY <3>1, <3>2, LedgerStaysTyped DEF Reasons
  <2>3. stage' \in [Clients -> Stages] /\ seen' \in [Clients -> Int]
        /\ leaked' \in Nat
    BY <1>2 DEF PreDeductCommit, EndTx
  <2>. QED  BY <2>1, <2>2, <2>3
<1>3. CASE ConfirmRead(c)
  BY <1>3 DEF ConfirmRead, ReadWallet, EndTx
<1>4. CASE ConfirmCommit(c)
  <2>1. wallet' \in [available : Int, frozen : Int, used : Nat, granted : Nat]
    <3>1. wallet.frozen - Price \in Int /\ wallet.used + Price \in Nat
      OBVIOUS
    <3>. QED  BY <3>1, <1>4, Zenon DEF ConfirmCommit
  <2>2. ledger' \in [Reasons -> Nat] /\ balanceAfter' \in Int
    <3>. DEFINE balance == seen[c]
    <3>1. AppendLedger("confirm_deduct", Price, balance)
      BY <1>4 DEF ConfirmCommit
    <3>. HIDE DEF balance
    <3>2. balance \in Int
      BY DEF balance
    <3>. QED  BY <3>1, <3>2, LedgerStaysTyped DEF Reasons
  <2>3. stage' \in [Clients -> Stages] /\ seen' \in [Clients -> Int]
        /\ leaked' \in Nat
    BY <1>4 DEF ConfirmCommit, EndTx
  <2>. QED  BY <2>1, <2>2, <2>3
<1>5. CASE RefundRead(c)
  BY <1>5 DEF RefundRead, ReadWallet, EndTx
<1>6. CASE RefundCommit(c)
  <2>1. wallet' \in [available : Int, frozen : Int, used : Nat, granted : Nat]
    <3>1. wallet.available + Price \in Int /\ wallet.frozen - Price \in Int
      OBVIOUS
    <3>. QED  BY <3>1, <1>6, Zenon DEF RefundCommit
  <2>2. ledger' \in [Reasons -> Nat] /\ balanceAfter' \in Int
    <3>. DEFINE balance == seen[c] + Price
    <3>1. AppendLedger("refund", Price, balance)
      BY <1>6 DEF RefundCommit
    <3>. HIDE DEF balance
    <3>2. balance \in Int
      BY DEF balance
    <3>. QED  BY <3>1, <3>2, LedgerStaysTyped DEF Reasons
  <2>3. stage' \in [Clients -> Stages] /\ seen' \in [Clients -> Int]
        /\ leaked' \in Nat
    BY <1>6 DEF RefundCommit, EndTx
  <2>. QED  BY <2>1, <2>2, <2>3
<1>7. CASE GrantRead(c)
  BY <1>7 DEF GrantRead, ReadWallet, EndTx
<1>8. CASE GrantCommit(c)
  <2>1. wallet' \in [available : Int, frozen : Int, used : Nat, granted : Nat]
    <3>1. wallet.available + TopUp \in Int /\ wallet.granted + TopUp \in Nat
      OBVIOUS
    <3>. QED  BY <3>1, <1>8, Zenon DEF GrantCommit
  <2>2. ledger' \in [Reasons -> Nat] /\ balanceAfter' \in Int
    <3>. DEFINE balance == seen[c] + TopUp
    <3>1. AppendLedger("grant", TopUp, balance)
      BY <1>8 DEF GrantCommit
    <3>. HIDE DEF balance
    <3>2. balance \in Int
      BY DEF balance
    <3>. QED  BY <3>1, <3>2, LedgerStaysTyped DEF Reasons
  <2>3. stage' \in [Clients -> Stages] /\ seen' \in [Clients -> Int]
        /\ leaked' \in Nat
    BY <1>8 DEF GrantCommit, EndTx
  <2>. QED  BY <2>1, <2>2, <2>3
<1>9. CASE Rollback(c)
  BY <1>9 DEF Rollback, ReadWallet, EndTx
<1>10. CASE Abandon(c)
  BY <1>10 DEF Abandon, ReadWallet, EndTx
<1>. QED
  BY <1>1, <1>2, <1>3, <1>4, <1>5, <1>6, <1>7, <1>8, <1>9, <1>10 DEF QuotaStep

(* Every commit changes the row and the ledger by the same amounts, so the *)
(* books balance after it whatever the transaction had read.               *)
LEMMA StepPreservesBooks ==
    ASSUME QuotaTypeOK, Conservation, LedgerReconciles,
           NEW c \in Clients, QuotaStep(c)
    PROVE  Conservation' /\ LedgerReconciles'
<1>. USE AmountsAssumption
     DEF QuotaTypeOK, Reasons, Conservation, LedgerReconciles,
         ReadWallet, EndTx, AppendLedger
<1>1. CASE PreDeductRead(c)
  BY <1>1 DEF PreDeductRead
<1>2. CASE PreDeductCommit(c)
  BY <1>2 DEF PreDeductCommit
<1>3. CASE ConfirmRead(c)
  BY <1>3 DEF ConfirmRead
<1>4. CASE ConfirmCommit(c)
  BY <1>4 DEF ConfirmCommit
<1>5. CASE RefundRead(c)
  BY <1>5 DEF RefundRead
<1>6. CASE RefundCommit(c)
  BY <1>6 DEF RefundCommit
<1>7. CASE GrantRead(c)
  BY <1>7 DEF GrantRead
<1>8. CASE GrantCommit(c)
  BY <1>8 DEF GrantCommit
<1>9. CASE Rollback(c)
  BY <1>9 DEF Rollback
<1>10. CASE Abandon(c)
  BY <1>10 DEF Abandon
<1>. QED
  BY <1>1, <1>2, <1>3, <1>4, <1>5, <1>6, <1>7, <1>8, <1>9, <1>10 DEF QuotaStep

(* A step of client c changes the stage of no other client.                *)
LEMMA StepMovesOneClient ==
    ASSUME QuotaTypeOK, NEW c \in Clients, QuotaStep(c)
    PROVE  stage' = [stage EXCEPT ![c] = stage'[c]] /\ stage'[c] \in Stages
<1>. USE DEF QuotaTypeOK, Stages, ReadWallet, EndTx
<1>1. CASE PreDeductRead(c)
  BY <1>1 DEF PreDeductRead
<1>2. CASE PreDeductCommit(c)
  BY <1>2 DEF PreDeductCommit
<1>3. CASE ConfirmRead(c)
  BY <1>3 DEF ConfirmRead
<1>4. CASE ConfirmCommit(c)
  BY <1>4 DEF ConfirmCommit
<1>5. CASE RefundRead(c)
  BY <1>5 DEF RefundRead
<1>6. CASE RefundCommit(c)
  BY <1>6 DEF RefundCommit
<1>7. CASE GrantRead(c)
  BY <1>7 DEF GrantRead
<1>8. CASE GrantCommit(c)
  BY <1>8 DEF GrantCommit
<1>9. CASE Rollback(c)
  BY <1>9 DEF Rollback
<1>10. CASE Abandon(c)
  BY <1>10 DEF Abandon
<1>. QED
  BY <1>1, <1>2, <1>3, <1>4, <1>5, <1>6, <1>7, <1>8, <1>9, <1>10 DEF QuotaStep

(* A hold enters frozen_amount when its owner enters HoldStages, and       *)
(* leaves it when the owner leaves them: or the hold is counted as leaked. *)
LEMMA StepPreservesFrozen ==
    ASSUME QuotaTypeOK, FrozenIsHeld, NEW c \in Clients, QuotaStep(c)
    PROVE  FrozenIsHeld'
<1>. DEFINE n == Cardinality(Holders) + leaked
<1>1. n \in Int /\ Cardinality(Holders) \in Nat /\ leaked \in Nat
  BY ClientSetsFinite DEF QuotaTypeOK
<1>2. /\ Price * (n + 1) = Price * n + Price
      /\ Price * (n - 1) = Price * n - Price
  BY <1>1, PriceTimes
<1>3. Cardinality(Holders') = Cardinality(Holders)
          + (IF stage'[c] \in HoldStages THEN 1 ELSE 0)
          - (IF stage[c] \in HoldStages THEN 1 ELSE 0)
  BY StepMovesOneClient, HoldersAfterMove
<1>. USE DEF FrozenIsHeld, QuotaTypeOK, HoldStages, ReadWallet, EndTx
<1>4. CASE PreDeductRead(c)
  BY <1>1, <1>2, <1>3, <1>4 DEF PreDeductRead
<1>5. CASE PreDeductCommit(c)
  BY <1>1, <1>2, <1>3, <1>5 DEF PreDeductCommit
<1>6. CASE ConfirmRead(c)
  BY <1>1, <1>2, <1>3, <1>6 DEF ConfirmRead
<1>7. CASE ConfirmCommit(c)
  BY <1>1, <1>2, <1>3, <1>7 DEF ConfirmCommit
<1>8. CASE RefundRead(c)
  BY <1>1, <1>2, <1>3, <1>8 DEF RefundRead
<1>9. CASE RefundCommit(c)
  BY <1>1, <1>2, <1>3, <1>9 DEF RefundCommit
<1>10. CASE GrantRead(c)
  BY <1>1, <1>2, <1>3, <1>10 DEF GrantRead
<1>11. CASE GrantCommit(c)
  BY <1>1, <1>2, <1>3, <1>11 DEF GrantCommit
<1>12. CASE Rollback(c)
  BY <1>1, <1>2, <1>3, <1>12 DEF Rollback
<1>13. CASE Abandon(c)
  BY <1>1, <1>2, <1>3, <1>13 DEF Abandon
<1>. QED
  BY <1>4, <1>5, <1>6, <1>7, <1>8, <1>9, <1>10, <1>11, <1>12, <1>13 DEF QuotaStep

(* A client decides only when a whole Price is there, and at most all of   *)
(* them have decided; each other step keeps or widens the margin.          *)
LEMMA StepPreservesDeciders ==
    ASSUME QuotaTypeOK, DecidersCovered, NEW c \in Clients, QuotaStep(c)
    PROVE  DecidersCovered'
<1>. DEFINE d == Cardinality(Deciders)
            m == Cardinality(Clients)
<1>1. d \in Nat /\ m \in Nat /\ d <= m /\ m >= 1
  BY ClientSetsFinite
<1>2. /\ Price * d \in Int /\ Price * (m - 1) \in Int
      /\ Price * (d + 1) = Price * d + Price
      /\ Price * (d - 1) = Price * d - Price
  BY <1>1, PriceTimes
<1>3. Cardinality(Deciders') = d
          + (IF stage'[c] = "checked" THEN 1 ELSE 0)
          - (IF stage[c] = "checked" THEN 1 ELSE 0)
  BY StepMovesOneClient, DecidersAfterMove
<1>. USE AmountsAssumption
     DEF DecidersCovered, QuotaTypeOK, ReadWallet, EndTx
<1>4. CASE PreDeductRead(c)
  <2>1. Cardinality(Deciders') = d + 1
    BY <1>1, <1>3, <1>4 DEF PreDeductRead
  <2>2. Cardinality(Deciders') <= m
    <3>1. Deciders' \in SUBSET Clients
      BY DEF Deciders
    <3>. QED  BY <3>1, ClientsAssumption, FS_Subset
  <2>3. Price * d <= Price * (m - 1)
    BY <1>1, <2>1, <2>2, SMT
  <2>4. wallet.available >= Price /\ wallet' = wallet
    BY <1>4 DEF PreDeductRead
  <2>. QED  BY <1>1, <1>2, <2>1, <2>3, <2>4
<1>5. CASE PreDeductCommit(c)
  BY <1>1, <1>2, <1>3, <1>5 DEF PreDeductCommit
<1>6. CASE ConfirmRead(c)
  BY <1>1, <1>2, <1>3, <1>6 DEF ConfirmRead
<1>7. CASE ConfirmCommit(c)
  BY <1>1, <1>2, <1>3, <1>7 DEF ConfirmCommit
<1>8. CASE RefundRead(c)
  BY <1>1, <1>2, <1>3, <1>8 DEF RefundRead
<1>9. CASE RefundCommit(c)
  BY <1>1, <1>2, <1>3, <1>9 DEF RefundCommit
<1>10. CASE GrantRead(c)
  BY <1>1, <1>2, <1>3, <1>10 DEF GrantRead
<1>11. CASE GrantCommit(c)
  BY <1>1, <1>2, <1>3, <1>11 DEF GrantCommit
<1>12. CASE Rollback(c)
  BY <1>1, <1>2, <1>3, <1>12 DEF Rollback
<1>13. CASE Abandon(c)
  BY <1>1, <1>2, <1>3, <1>13 DEF Abandon
<1>. QED
  BY <1>4, <1>5, <1>6, <1>7, <1>8, <1>9, <1>10, <1>11, <1>12, <1>13 DEF QuotaStep

(* Every step of the specification preserves the inductive invariant.      *)
LEMMA StepPreserves ==
    ASSUME QuotaInv, [QuotaNext]_quotaVars
    PROVE  QuotaInv'
<1>1. ASSUME NEW c \in Clients, QuotaStep(c) PROVE QuotaInv'
  BY <1>1, StepPreservesType, StepPreservesBooks, StepPreservesFrozen,
     StepPreservesDeciders DEF QuotaInv
<1>2. CASE UNCHANGED quotaVars
  BY <1>2 DEF QuotaInv, quotaVars, QuotaTypeOK, Conservation, FrozenIsHeld,
     LedgerReconciles, DecidersCovered, Holders, Deciders
<1>. QED  BY <1>1, <1>2 DEF QuotaNext

(* The wallet's inductive invariant holds in every reachable state.        *)
THEOREM QuotaInvariance == QuotaSpec => []QuotaInv
<1>1. QuotaInit => QuotaInv
  BY InitEstablishes
<1>2. QuotaInv /\ [QuotaNext]_quotaVars => QuotaInv'
  BY StepPreserves
<1>. QED  BY <1>1, <1>2, PTL DEF QuotaSpec

-----------------------------------------------------------------------------

(* PreDeduct, ConfirmDeduction, Refund and GrantQuota keep the types of    *)
(* the row, the ledger and the clients' transactions.                      *)
THEOREM QuotaTypeCorrect == QuotaSpec => []QuotaTypeOK
BY QuotaInvariance, PTL DEF QuotaInv

(* Granted quota is available, frozen or used, for any interleaving.       *)
THEOREM QuotaConserved == QuotaSpec => []Conservation
BY QuotaInvariance, PTL DEF QuotaInv

(* frozen_amount is one Price per hold, owned or abandoned.                *)
THEOREM QuotaFrozenIsHeld == QuotaSpec => []FrozenIsHeld
BY QuotaInvariance, PTL DEF QuotaInv

(* The ledger rows sum to the wallet row.                                  *)
THEOREM QuotaLedgerReconciles == QuotaSpec => []LedgerReconciles
BY QuotaInvariance, PTL DEF QuotaInv

(* The row balances and agrees with its ledger.                            *)
THEOREM QuotaBooksBalance == QuotaSpec => []BooksBalance
<1>1. QuotaInv => BooksBalance
  BY DEF QuotaInv, BooksBalance
<1>. QED  BY <1>1, QuotaInvariance, PTL

(* Without the lock the wallet is overdrawn by at most one Price for each  *)
(* client beyond the first.                                                *)
THEOREM QuotaOverdraftBounded == QuotaSpec => []OverdraftBounded
<1>1. QuotaInv => OverdraftBounded
  <2>. SUFFICES ASSUME QuotaInv PROVE OverdraftBounded
    OBVIOUS
  <2>. DEFINE d == Cardinality(Deciders)
              owed == Price * (Cardinality(Clients) - 1)
  <2>1. d \in Nat /\ Cardinality(Clients) - 1 \in Int
    BY ClientSetsFinite
  <2>2. Price * d >= 0 /\ Price * d \in Int /\ owed \in Int
    BY <2>1, AmountsAssumption, SMT
  <2>. QED
    BY <2>2 DEF QuotaInv, QuotaTypeOK, DecidersCovered, OverdraftBounded
<1>. QED  BY <1>1, QuotaInvariance, PTL

(* With a single client - one worker, whose SMS consumer handles one       *)
(* message at a time - PreDeduct never overdraws the wallet.               *)
THEOREM QuotaNoOverdraft ==
    ASSUME Cardinality(Clients) = 1
    PROVE  QuotaSpec => []NoOverdraft
<1>1. QuotaTypeOK /\ OverdraftBounded => NoOverdraft
  <2>1. Price * 0 = 0
    BY AmountsAssumption, SMT
  <2>. QED  BY <2>1 DEF QuotaTypeOK, OverdraftBounded, NoOverdraft
<1>. QED  BY <1>1, QuotaTypeCorrect, QuotaOverdraftBounded, PTL

(* A commit that nobody overtook records the balance it leaves behind.     *)
LEMMA StepRecordsBalance ==
    ASSUME QuotaTypeOK, NEW c \in Clients, QuotaStep(c),
           ledger' # ledger, seen[c] = wallet.available
    PROVE  balanceAfter' = wallet'.available
<1>. USE AmountsAssumption DEF QuotaTypeOK, AppendLedger
<1>1. CASE PreDeductRead(c) \/ ConfirmRead(c) \/ RefundRead(c) \/ GrantRead(c)
  BY <1>1 DEF PreDeductRead, ConfirmRead, RefundRead, GrantRead, ReadWallet
<1>2. CASE PreDeductCommit(c)
  BY <1>2 DEF PreDeductCommit
<1>3. CASE ConfirmCommit(c)
  BY <1>3 DEF ConfirmCommit
<1>4. CASE RefundCommit(c)
  BY <1>4 DEF RefundCommit
<1>5. CASE GrantCommit(c)
  BY <1>5 DEF GrantCommit
<1>6. CASE Rollback(c) \/ Abandon(c)
  BY <1>6 DEF Rollback, Abandon
<1>. QED  BY <1>1, <1>2, <1>3, <1>4, <1>5, <1>6 DEF QuotaStep

(* The newest ledger row has the wallet's balance when no other            *)
(* transaction came between the SELECT and the UPDATE of its own.          *)
THEOREM QuotaBalanceAfterExact == QuotaSpec => BalanceAfterIsExact
<1>. DEFINE Exact(c) == stage'[c] # stage[c] /\ ledger' # ledger
                           /\ seen[c] = wallet.available
                        => balanceAfter' = wallet'.available
<1>1. ASSUME QuotaTypeOK, [QuotaNext]_quotaVars, NEW c \in Clients
      PROVE  Exact(c)
  <2>1. ASSUME NEW d \in Clients, QuotaStep(d) PROVE Exact(c)
    <3>1. CASE d = c
      BY <1>1, <2>1, <3>1, StepRecordsBalance
    <3>2. CASE d # c
      <4>1. stage' = [stage EXCEPT ![d] = stage'[d]]
        BY <1>1, <2>1, StepMovesOneClient
      <4>2. stage'[c] = stage[c]
        BY <1>1, <3>2, <4>1 DEF QuotaTypeOK
      <4>. QED  BY <4>2
    <3>. QED  BY <3>1, <3>2
  <2>2. CASE UNCHANGED quotaVars
    BY <2>2 DEF quotaVars
  <2>. QED  BY <1>1, <2>1, <2>2 DEF QuotaNext
<1>2. QuotaTypeOK /\ [QuotaNext]_quotaVars
        => [\A c \in Clients : Exact(c)]_quotaVars
  BY <1>1
<1>. QED  BY <1>2, QuotaTypeCorrect, PTL DEF QuotaSpec, BalanceAfterIsExact

=============================================================================
