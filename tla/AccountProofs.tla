--------------------------- MODULE AccountProofs ---------------------------
(***************************************************************************)
(* Proofs about the users table, for every number of users, requests and   *)
(* failures: type correctness, that deleted users are never changed, how   *)
(* far logins overshoot the capacity, that a refresh token dies with its   *)
(* user, that contacts, activation and bonus belong together, whom a       *)
(* snapshot can send ahead, and that logins and refreshes of one user do   *)
(* not lock each other out.                                                *)
(*                                                                         *)
(* AccountInv, CapacityInv, GoneInv, UserInv, NamesOK and TokenInv are the *)
(* inductive invariants.  All actions but the two counts and the two       *)
(* inserts are alike for the capacity: Calm says how, and each of their    *)
(* lemmas shows it.  UserInv rests on Progress: what a user has got and    *)
(* where he has come to no step takes away, so that what a request has     *)
(* read is still true, as far as it matters, when it writes.               *)
(***************************************************************************)
EXTENDS Account, FiniteSetTheorems, SequenceTheorems, TLAPS

(* The request works on a row that exists.                                 *)
Known(r) ==
    \/ r.kind \notin LoginKinds \cup {"waitlist"}
    \/ r.pc \in {"bind", "generate", "store", "answer", "snap"}

(* What a request relies on: the open id it is for, its row, and that the  *)
(* token it is about to store or hand out was generated.                   *)
RequestOK(r) ==
    /\ r.kind \in LoginKinds \cup {"waitlist"} => r.openid \in OpenIDs
    /\ Known(r) => r.id # 0
    /\ r.pc \in {"store", "answer"} => r.token \in 1..issued[r.id]

RequestsOK == \A s \in Slots : req[s] # None => RequestOK(req[s])

(* The part of the type invariant that a change of a slot is about.        *)
RequestType ==
    /\ req \in [Slots -> Request \cup {None}]
    /\ \A s \in Slots : req[s].id \in 0..Len(rows)

(* Only users that exist have been answered with tokens.                   *)
HoldersExist == \A i \in IDs : held[i] # {} => i <= Len(rows)

(* The inductive invariant of type correctness.                            *)
AccountInv == AccountTypeOK /\ RequestsOK /\ HoldersExist

(* Goto changes nothing of a request but where it is.                      *)
LEMMA GotoTyped ==
    ASSUME RequestType, NEW s \in Slots, req[s] # None, NEW pc \in PCs,
           Goto(s, pc)
    PROVE  /\ req' \in [Slots -> Request \cup {None}]
           /\ req'[s] = [req[s] EXCEPT !.pc = pc]
           /\ req'[s] \in Request
           /\ \A t \in Slots : req'[t].id = req[t].id
           /\ \A t \in Slots \ {s} : req'[t] = req[t]
BY DEF RequestType, Goto, Request, None

(* The primary keys in use, and the rows they name.                        *)
LEMMA RowAt ==
    ASSUME rows \in Seq(Row), Len(rows) <= MaxRows
    PROVE  /\ Len(rows) \in Nat /\ DOMAIN rows = 1..Len(rows)
           /\ DOMAIN rows \subseteq IDs
           /\ \A i \in DOMAIN rows : rows[i] \in Row
<1>1. Len(rows) \in Nat /\ DOMAIN rows = 1..Len(rows)
  BY LenProperties
<1>2. \A i \in 1..Len(rows) : rows[i] \in Row
  BY ElementOfSeq
<1>3. 1..Len(rows) \subseteq IDs
  BY <1>1, AccountAssumption DEF IDs
<1>. QED  BY <1>1, <1>2, <1>3

(* Take leaves a request for the same user in the same slot, now about the *)
(* row that was read.                                                      *)
LEMMA TakeTyped ==
    ASSUME RequestType, rows \in Seq(Row), Len(rows) <= MaxRows,
           NEW s \in Slots, req[s] # None, NEW pc \in PCs,
           NEW i \in DOMAIN rows, Take(s, i, pc)
    PROVE  /\ req' \in [Slots -> Request \cup {None}]
           /\ req'[s] \in Request
           /\ req'[s].id = i /\ req'[s].pc = pc
           /\ req'[s].kind = req[s].kind /\ req'[s].openid = req[s].openid
           /\ \A t \in Slots \ {s} : req'[t] = req[t]
<1>1. req[s] \in Request
  BY DEF RequestType
<1>2. rows[i] \in Row /\ i \in IDs
  BY RowAt
<1>3. i \in 0..MaxRows
  BY <1>2, AccountAssumption DEF IDs
<1>. DEFINE bound == rows[i].phone # NoPhone
            r == [req[s] EXCEPT !.pc = pc, !.id = i,
                                !.status = rows[i].status, !.bound = bound,
                                !.contacts = rows[i].contacts]
<1>4. req' = [req EXCEPT ![s] = r]
  BY DEF Take, RequestType
<1>5. rows[i].status \in Statuses /\ rows[i].contacts \in SUBSET Priorities
  BY <1>2 DEF Row
<1>6. bound \in BOOLEAN
  OBVIOUS
<1>. HIDE DEF bound
<1>7. r \in Request /\ r.id = i /\ r.pc = pc /\ r.kind = req[s].kind
      /\ r.openid = req[s].openid
  BY <1>1, <1>3, <1>5, <1>6 DEF Request
<1>. HIDE DEF r
<1>. QED BY <1>4, <1>7 DEF RequestType

(* A step that moves one request soundly, while rows are only added and    *)
(* tokens only generated, leaves all requests sound.                       *)
LEMMA SlotMoves ==
    ASSUME AccountInv, NEW s \in Slots,
           req' \in [Slots -> Request \cup {None}],
           \A t \in Slots \ {s} : req'[t] = req[t],
           req'[s] = None \/ /\ req'[s].id \in 0..Len(rows')
                             /\ RequestOK(req[s])',
           Len(rows') \in Nat, Len(rows) <= Len(rows'),
           issued' \in [IDs -> 0..MaxTokens],
           \A i \in IDs : issued[i] <= issued'[i]
    PROVE  RequestType' /\ RequestsOK'
<1>1. Len(rows) \in Nat /\ Len(rows) <= MaxRows
  BY LenProperties DEF AccountInv, AccountTypeOK
<1>2. \A t \in Slots : req'[t].id \in 0..Len(rows')
  <2>1. ASSUME NEW t \in Slots, t # s PROVE req'[t].id \in 0..Len(rows')
    <3>1. req'[t] = req[t] /\ req[t].id \in 0..Len(rows)
      BY <2>1 DEF AccountInv, AccountTypeOK
    <3>. QED  BY <3>1, <1>1
  <2>2. req'[s].id \in 0..Len(rows')
    BY DEF None
  <2>. QED  BY <2>1, <2>2
<1>3. ASSUME NEW t \in Slots, t # s, req'[t] # None PROVE RequestOK(req[t])'
  <2>1. req'[t] = req[t] /\ RequestOK(req[t]) /\ req[t].id \in 0..Len(rows)
    BY <1>3 DEF AccountInv, AccountTypeOK, RequestsOK
  <2>2. req[t].id # 0 => issued[req[t].id] <= issued'[req[t].id]
                         /\ issued[req[t].id] \in Nat /\ issued'[req[t].id] \in Nat
    BY <1>1, <2>1, AccountAssumption, SMTT(30) DEF IDs, AccountInv, AccountTypeOK
  <2>3. req[t].pc \in {"store", "answer"} => req[t].id # 0
    BY <2>1 DEF RequestOK, Known
  <2>4. req[t] \in Request
    BY <2>1, <1>3 DEF AccountInv, AccountTypeOK
  <2>5. req[t].token \in Nat
    BY <2>4, AccountAssumption DEF Request
  <2>. QED  BY <2>1, <2>2, <2>3, <2>5 DEF RequestOK, Known
<1>. QED  BY <1>2, <1>3 DEF RequestType, RequestsOK

(* One row is written; of a deleted one, at most the wallet.               *)
Rewrites(i, row) ==
    /\ i \in DOMAIN rows /\ row \in Row
    /\ rows' = [rows EXCEPT ![i] = row]
    /\ rows[i].deleted => row = [rows[i] EXCEPT !.grants = row.grants]

(* Writing a row neither adds nor removes any.                             *)
LEMMA RewritesKeeps ==
    ASSUME rows \in Seq(Row), NEW i, NEW row, Rewrites(i, row)
    PROVE  rows' \in Seq(Row) /\ Len(rows') = Len(rows)
           /\ DOMAIN rows' = DOMAIN rows
BY ExceptSeq, LenProperties DEF Rewrites

(* A user is inserted.                                                     *)
Adds(row) ==
    /\ row \in Row /\ ~row.deleted
    /\ Len(rows) < MaxRows
    /\ rows' = Append(rows, row)

(* An insert uses the next primary key and stays within the bound.         *)
LEMMA AddsKeeps ==
    ASSUME rows \in Seq(Row), NEW row, Adds(row)
    PROVE  /\ rows' \in Seq(Row) /\ Len(rows') = Len(rows) + 1
           /\ Len(rows') <= MaxRows
           /\ DOMAIN rows \subseteq DOMAIN rows'
<1>1. rows' \in Seq(Row) /\ Len(rows') = Len(rows) + 1
  BY AppendProperties DEF Adds
<1>2. DOMAIN rows = 1..Len(rows) /\ DOMAIN rows' = 1..(Len(rows) + 1)
      /\ Len(rows) \in Nat
  BY <1>1, LenProperties
<1>. QED  BY <1>1, <1>2, AccountAssumption DEF Adds

(* Insert is such a step; it invites whom it does not put on the waitlist. *)
LEMMA InsertAdds ==
    ASSUME NEW o \in OpenIDs, NEW p \in Phones \cup {NoPhone},
           NEW status \in Statuses, NEW grants \in Nat,
           Insert(o, p, status, grants)
    PROVE  /\ \E row \in Row : Adds(row)
           /\ reverted' = reverted
           /\ invited' = IF status = "waitlisted" THEN invited
                         ELSE invited \cup {Len(rows) + 1}
<1>. DEFINE row == [openid |-> o, phone |-> p, status |-> status,
                    contacts |-> {}, deleted |-> FALSE, grants |-> grants]
<1>1. row \in Row /\ ~row.deleted
  BY DEF Row
<1>2. Adds(row)
  BY <1>1 DEF Insert, Adds
<1>. HIDE DEF row
<1>. QED  BY <1>1, <1>2 DEF Insert

(* What any step does to the table.                                        *)
RowsMove ==
    \/ rows' = rows
    \/ \E i \in DOMAIN rows, row \in Row : Rewrites(i, row)
    \/ \E row \in Row : Adds(row)

(* No request moves but the one in slot s.                                 *)
Moves(s) == \A t \in Slots \ {s} : req'[t] = req[t]

(* A step of the request in slot s that invites nobody and does not bring  *)
(* the request to an insert.                                               *)
Calm(s) ==
    /\ Moves(s)
    /\ req'[s] = None \/ req'[s].pc # "create"
    /\ invited' = invited
    /\ rows' = rows \/ \E i \in DOMAIN rows, row \in Row : Rewrites(i, row)

(* A step that writes nothing but its own request keeps the invariant.     *)
LEMMA OnlyReadsKeeps ==
    ASSUME AccountInv, OnlyReads, faults' \in 0..MaxFaults,
           NEW s \in Slots,
           req' \in [Slots -> Request \cup {None}],
           \A t \in Slots \ {s} : req'[t] = req[t],
           req'[s] = None \/ /\ req'[s].id \in 0..Len(rows)
                             /\ RequestOK(req[s])'
    PROVE  AccountInv'
<1>1. UNCHANGED <<rows, refresh, issued, held, snapshot, requests, invited,
                  reverted>>
  BY DEF OnlyReads, tokenVars, ghostVars
<1>2. /\ issued' \in [IDs -> 0..MaxTokens]
      /\ \A i \in IDs : issued[i] <= issued'[i]
      /\ Len(rows') \in Nat /\ Len(rows) <= Len(rows')
  BY <1>1, LenProperties, AccountAssumption DEF AccountInv, AccountTypeOK
<1>3. RequestType' /\ RequestsOK'
  BY <1>1, <1>2, SlotMoves
<1>. QED  BY <1>1, <1>3 DEF AccountInv, AccountTypeOK, RequestType, HoldersExist

(* Failures are counted up to their bound.                                 *)
LEMMA FaultsTyped ==
    ASSUME AccountInv, NoFault \/ Fault
    PROVE  faults' \in 0..MaxFaults
BY AccountAssumption DEF AccountInv, AccountTypeOK, NoFault, Fault

(* A request that is answered without having written anything.             *)
LEMMA ReadAndDone ==
    ASSUME AccountInv, OnlyReads, NoFault \/ Fault, NEW s \in Slots, Done(s)
    PROVE  AccountInv' /\ Calm(s)
<1>1. /\ req' \in [Slots -> Request \cup {None}]
      /\ req'[s] = None
      /\ \A t \in Slots \ {s} : req'[t] = req[t]
  BY DEF Done, AccountInv, AccountTypeOK
<1>. QED  BY <1>1, FaultsTyped, OnlyReadsKeeps
          DEF Calm, Moves, OnlyReads, ghostVars

(* A request that goes on without having written anything.                 *)
LEMMA ReadAndGoto ==
    ASSUME AccountInv, OnlyReads, NoFault \/ Fault, NEW s \in Slots,
           req[s] # None, NEW pc \in PCs \ {"create", "store", "answer"}, Goto(s, pc),
           pc \in {"bind", "generate", "snap"} => req[s].id # 0
    PROVE  AccountInv' /\ Calm(s)
<1>1. RequestType
  BY DEF AccountInv, AccountTypeOK, RequestType
<1>2. /\ req' \in [Slots -> Request \cup {None}]
      /\ req'[s] = [req[s] EXCEPT !.pc = pc]
      /\ \A t \in Slots \ {s} : req'[t] = req[t]
  BY <1>1, GotoTyped
<1>3. req[s] \in Request /\ RequestOK(req[s]) /\ req[s].id \in 0..Len(rows)
  BY DEF AccountInv, AccountTypeOK, RequestsOK
<1>4. /\ req'[s].id = req[s].id /\ req'[s].kind = req[s].kind
      /\ req'[s].openid = req[s].openid /\ req'[s].pc = pc
  BY <1>2, <1>3 DEF Request
<1>5. RequestOK(req[s])'
  BY <1>3, <1>4 DEF RequestOK, Known
<1>. QED  BY <1>2, <1>3, <1>4, <1>5, FaultsTyped, OnlyReadsKeeps
          DEF Calm, Moves, OnlyReads, ghostVars

(* A request that goes on with a row it has read.                          *)
LEMMA ReadAndTake ==
    ASSUME AccountInv, OnlyReads, NoFault \/ Fault, NEW s \in Slots,
           req[s] # None, NEW pc \in PCs \ {"create", "store", "answer"},
           NEW i \in DOMAIN rows, Take(s, i, pc)
    PROVE  AccountInv' /\ Calm(s)
<1>1. RequestType /\ rows \in Seq(Row) /\ Len(rows) <= MaxRows
  BY DEF AccountInv, AccountTypeOK, RequestType
<1>2. /\ req' \in [Slots -> Request \cup {None}]
      /\ req'[s].id = i /\ req'[s].pc = pc
      /\ req'[s].kind = req[s].kind /\ req'[s].openid = req[s].openid
      /\ \A t \in Slots \ {s} : req'[t] = req[t]
  BY <1>1, TakeTyped
<1>3. RequestOK(req[s])
  BY DEF AccountInv, RequestsOK
<1>4. i \in 0..Len(rows) /\ i # 0
  BY <1>1, RowAt
<1>5. RequestOK(req[s])'
  BY <1>2, <1>3, <1>4 DEF RequestOK, Known
<1>. QED  BY <1>2, <1>4, <1>5, FaultsTyped, OnlyReadsKeeps
          DEF Calm, Moves, OnlyReads, ghostVars

(* The steps that only read keep the invariant, and are calm.              *)
LEMMA ReadsKeep ==
    ASSUME AccountInv, NEW s \in Slots,
           \/ Lookup(s) \/ ExchangePhone(s) \/ VerifyPhone(s)
           \/ VerifyFallback(s)
           \/ ValidateRefreshToken(s) \/ RefreshLookup(s)
           \/ ReadSnapshot(s) \/ WaitlistLookup(s)
           \/ ReadUser(s) \/ Abort(s)
    PROVE  AccountInv' /\ Calm(s)
<1>. DEFINE Read(pc) == Goto(s, pc)
                          /\ (pc \in {"bind", "generate", "snap"} => req[s].id # 0)
            Move == \/ Done(s)
                    \/ \E pc \in PCs \ {"create", "store", "answer"} : Read(pc)
                    \/ \E pc \in PCs \ {"create", "store", "answer"}, i \in DOMAIN rows :
                          Take(s, i, pc)
<1>1. ASSUME req[s] # None, OnlyReads, NoFault \/ Fault, Move
      PROVE  AccountInv' /\ Calm(s)
  BY <1>1, ReadAndDone, ReadAndGoto, ReadAndTake
<1>2. CASE Lookup(s)
  <2>1. Move
    BY <1>2 DEF Lookup, LiveByOpenID, Live, PCs
  <2>. QED  BY <1>1, <1>2, <2>1 DEF Lookup, At
<1>3. CASE ExchangePhone(s)
  <2>1. Move
    <3>. DEFINE next == IF req[s].id = 0 THEN "count" ELSE "bind"
    <3>1. Goto(s, next) \/ Done(s)
      BY <1>3 DEF ExchangePhone
    <3>2. next \in PCs \ {"create", "store", "answer"}
          /\ (next \in {"bind", "generate", "snap"} => req[s].id # 0)
      BY DEF PCs
    <3>. QED  BY <3>1, <3>2
  <2>. QED  BY <1>1, <1>3, <2>1 DEF ExchangePhone, At
<1>4. CASE VerifyPhone(s)
  <2>1. Move
    BY <1>4 DEF VerifyPhone, PCs
  <2>2. NoFault \/ Fault
    BY <1>4 DEF VerifyPhone
  <2>. QED  BY <1>1, <1>4, <2>1, <2>2 DEF VerifyPhone, At
<1>5. CASE VerifyFallback(s)
  <2>1. Move
    BY <1>5 DEF VerifyFallback, AnyByPhone, PCs
  <2>. QED  BY <1>1, <1>5, <2>1 DEF VerifyFallback, At
<1>7. CASE ValidateRefreshToken(s)
  <2>1. Move
    BY <1>7 DEF ValidateRefreshToken, PCs
  <2>. QED  BY <1>1, <1>7, <2>1 DEF ValidateRefreshToken, At
<1>8. CASE RefreshLookup(s)
  <2>1. req[s].id # 0
    BY <1>8 DEF RefreshLookup, At, AccountInv, RequestsOK, RequestOK, Known,
                LoginKinds
  <2>2. Move
    BY <1>8, <2>1 DEF RefreshLookup, PCs
  <2>. QED  BY <1>1, <1>8, <2>2 DEF RefreshLookup, At
<1>9. CASE ReadSnapshot(s)
  <2>1. Move
    BY <1>9 DEF ReadSnapshot, PCs
  <2>2. NoFault \/ Fault
    BY <1>9 DEF ReadSnapshot
  <2>. QED  BY <1>1, <1>9, <2>1, <2>2 DEF ReadSnapshot, At
<1>10. CASE WaitlistLookup(s)
  <2>1. Move
    BY <1>10 DEF WaitlistLookup, LiveByOpenID, Live, PCs
  <2>. QED  BY <1>1, <1>10, <2>1 DEF WaitlistLookup, At
<1>11. CASE ReadUser(s)
  <2>1. req[s].id \in DOMAIN rows
    <3>1. req[s].id # 0 /\ req[s].id \in 0..Len(rows)
      BY <1>11 DEF ReadUser, At, AccountInv, AccountTypeOK, RequestsOK,
                   RequestOK, Known, LoginKinds, ContactKinds
    <3>. QED  BY <3>1, RowAt DEF AccountInv, AccountTypeOK
  <2>2. Move
    BY <1>11, <2>1 DEF ReadUser, PCs
  <2>. QED  BY <1>1, <1>11, <2>2 DEF ReadUser, At
<1>12. CASE Abort(s)
  BY <1>1, <1>12 DEF Abort
<1>. QED
  BY <1>2, <1>3, <1>4, <1>5, <1>7, <1>8, <1>9, <1>10, <1>11, <1>12

(* A request that begins with a user who exists, or with an open id.       *)
LEMMA BeginKeeps ==
    ASSUME AccountInv, NEW s \in Slots, NEW kind \in AllKinds,
           NEW pc \in {"cache", "phone", "lookup", "check", "read"},
           NEW o \in OpenIDs \cup {NoPhone}, NEW p \in Phones \cup {NoPhone},
           NEW i \in 0..Len(rows), NEW list \in SUBSET Priorities,
           NEW token \in 0..MaxTokens,
           IF kind \in LoginKinds \cup {"waitlist"} THEN o \in OpenIDs
                                                   ELSE i # 0,
           Begin(s, kind, pc, o, p, i, list, token)
    PROVE  AccountInv' /\ Calm(s)
<1>. DEFINE gone == IF kind \in LoginKinds \cup {"refresh"}
                    THEN DOMAIN rows \ Live ELSE {}
            r == [pc |-> pc, kind |-> kind, openid |-> o, phone |-> p,
                  list |-> list, id |-> i, status |-> "waitlisted",
                  bound |-> FALSE, contacts |-> {}, token |-> token,
                  gone |-> gone]
<1>1. req' = [req EXCEPT ![s] = r]
  BY DEF Begin
<1>2. DOMAIN rows \subseteq IDs /\ Len(rows) \in Nat /\ Len(rows) <= MaxRows
  BY RowAt DEF AccountInv, AccountTypeOK
<1>3. gone \in SUBSET IDs /\ i \in 0..MaxRows
  BY <1>2, AccountAssumption
<1>. HIDE DEF gone
<1>4. r \in Request
  BY <1>3 DEF Request, PCs, Statuses
<1>5. r.pc = pc /\ r.kind = kind /\ r.openid = o /\ r.id = i
  OBVIOUS
<1>. HIDE DEF r
<1>6. /\ req' \in [Slots -> Request \cup {None}] /\ req'[s] = r
      /\ \A t \in Slots \ {s} : req'[t] = req[t]
  BY <1>1, <1>4 DEF AccountInv, AccountTypeOK
<1>7. RequestOK(req[s])'
  BY <1>5, <1>6 DEF RequestOK, Known
<1>8. UNCHANGED <<rows, refresh, issued, held, snapshot, faults, invited,
                  reverted>>
  BY DEF Begin, tokenVars, ghostVars
<1>9. /\ issued' \in [IDs -> 0..MaxTokens]
      /\ \A j \in IDs : issued[j] <= issued'[j]
      /\ Len(rows') \in Nat /\ Len(rows) <= Len(rows')
  BY <1>2, <1>8, AccountAssumption DEF AccountInv, AccountTypeOK
<1>10. RequestType' /\ RequestsOK'
  BY <1>5, <1>6, <1>7, <1>8, <1>9, SlotMoves
<1>11. requests' \in 0..MaxRequests
  BY AccountAssumption DEF Begin, AccountInv, AccountTypeOK
<1>12. Calm(s)
  BY <1>5, <1>6, <1>8 DEF Calm, Moves
<1>. QED  BY <1>8, <1>10, <1>11, <1>12
          DEF AccountInv, AccountTypeOK, RequestType, HoldersExist

(* All requests begin like that: an access token names its user.           *)
LEMMA BeginsKeep ==
    ASSUME AccountInv, NEW s \in Slots,
           \/ BeginExchange(s) \/ BeginVerify(s) \/ BeginWaitlist(s)
           \/ BeginRefresh(s) \/ BeginContact(s) \/ BeginDelete(s)
    PROVE  AccountInv' /\ Calm(s)
<1>1. /\ 0 \in 0..Len(rows) /\ 0 \in 0..MaxTokens
      /\ {} \in SUBSET Priorities
  BY LenProperties, AccountAssumption DEF AccountInv, AccountTypeOK
<1>2. SignedIn \subseteq 0..Len(rows)
        /\ \A i \in SignedIn : i # 0 /\ held[i] \subseteq 0..MaxTokens
  BY LenProperties, AccountAssumption
     DEF SignedIn, IDs, AccountInv, AccountTypeOK, HoldersExist
<1>3. CASE BeginExchange(s)
  BY <1>1, <1>3, BeginKeeps DEF BeginExchange, LoginKinds, AllKinds
<1>4. CASE BeginVerify(s)
  BY <1>1, <1>4, BeginKeeps DEF BeginVerify, LoginKinds, AllKinds
<1>5. CASE BeginWaitlist(s)
  BY <1>1, <1>5, BeginKeeps DEF BeginWaitlist, AllKinds
<1>6. CASE BeginRefresh(s)
  <2>1. PICK i \in SignedIn : \E k \in held[i] :
           Begin(s, "refresh", "check", NoPhone, NoPhone, i, {}, k)
    BY <1>6 DEF BeginRefresh
  <2>3. PICK k \in held[i] :
           Begin(s, "refresh", "check", NoPhone, NoPhone, i, {}, k)
    BY <2>1
  <2>2. /\ i \in 0..Len(rows) /\ i # 0 /\ k \in 0..MaxTokens
        /\ "refresh" \in AllKinds /\ "refresh" \notin LoginKinds \cup {"waitlist"}
    BY <1>2 DEF LoginKinds, AllKinds
  <2>. QED  BY <1>1, <2>2, <2>3, BeginKeeps
<1>7. CASE BeginContact(s)
  <2>1. PICK i \in SignedIn, list \in Lists, kind \in ContactKinds :
           Begin(s, kind, "read", NoPhone, NoPhone, i, list, 0)
    BY <1>7 DEF BeginContact
  <2>2. /\ i \in 0..Len(rows) /\ i # 0 /\ list \in SUBSET Priorities
        /\ kind \in AllKinds /\ kind \notin LoginKinds \cup {"waitlist"}
    BY <1>2, AccountAssumption DEF LoginKinds, ContactKinds, AllKinds, Priorities
  <2>. QED  BY <1>1, <2>1, <2>2, BeginKeeps
<1>8. CASE BeginDelete(s)
  <2>1. PICK i \in SignedIn :
           Begin(s, "delete", "read", NoPhone, NoPhone, i, {}, 0)
    BY <1>8 DEF BeginDelete
  <2>2. /\ i \in 0..Len(rows) /\ i # 0
        /\ "delete" \in AllKinds /\ "delete" \notin LoginKinds \cup {"waitlist"}
    BY <1>2 DEF LoginKinds, AllKinds
  <2>. QED  BY <1>1, <2>1, <2>2, BeginKeeps
<1>. QED  BY <1>3, <1>4, <1>5, <1>6, <1>7, <1>8

(* The table stays well typed, and no primary key is ever lost.            *)
LEMMA RowsMoveKeeps ==
    ASSUME AccountInv, RowsMove
    PROVE  /\ rows' \in Seq(Row) /\ Len(rows') <= MaxRows
           /\ Len(rows') \in Nat /\ Len(rows) <= Len(rows')
           /\ DOMAIN rows \subseteq DOMAIN rows'
<1>1. rows \in Seq(Row) /\ Len(rows) <= MaxRows /\ Len(rows) \in Nat
  BY LenProperties DEF AccountInv, AccountTypeOK
<1>2. CASE rows' = rows
  BY <1>1, <1>2
<1>3. ASSUME NEW i \in DOMAIN rows, NEW row \in Row, Rewrites(i, row)
      PROVE  /\ rows' \in Seq(Row) /\ Len(rows') = Len(rows)
             /\ DOMAIN rows' = DOMAIN rows
  BY <1>1, <1>3, RewritesKeeps
<1>4. ASSUME NEW row \in Row, Adds(row)
      PROVE  /\ rows' \in Seq(Row) /\ Len(rows') = Len(rows) + 1
             /\ Len(rows') <= MaxRows /\ DOMAIN rows \subseteq DOMAIN rows'
  BY <1>1, <1>4, AddsKeeps
<1>. QED  BY <1>1, <1>2, <1>3, <1>4 DEF RowsMove

(* A step that writes the table, and no token or snapshot, keeps the       *)
(* invariant.                                                              *)
LEMMA WriteKeeps ==
    ASSUME AccountInv, NEW s \in Slots, NoFault \/ Fault, RowsMove,
           UNCHANGED <<tokenVars, snapshot, requests>>,
           invited' \subseteq DOMAIN rows', reverted' \subseteq DOMAIN rows',
           req' \in [Slots -> Request \cup {None}], Moves(s),
           req'[s] = None \/ /\ req'[s].id \in 0..Len(rows')
                             /\ RequestOK(req[s])'
    PROVE  AccountInv'
<1>1. UNCHANGED <<refresh, issued, held, snapshot, requests>>
  BY DEF tokenVars
<1>2. /\ rows' \in Seq(Row) /\ Len(rows') <= MaxRows
      /\ Len(rows') \in Nat /\ Len(rows) <= Len(rows')
  BY RowsMoveKeeps
<1>3. /\ issued' \in [IDs -> 0..MaxTokens]
      /\ \A i \in IDs : issued[i] <= issued'[i]
  BY <1>1, AccountAssumption DEF AccountInv, AccountTypeOK
<1>4. RequestType' /\ RequestsOK'
  BY <1>2, <1>3, SlotMoves DEF Moves
<1>5. faults' \in 0..MaxFaults
  BY FaultsTyped
<1>6. HoldersExist'
  <2>1. ASSUME NEW i \in IDs, held[i] # {} PROVE i <= Len(rows')
    <3>1. i \in Nat /\ Len(rows) \in Nat /\ i <= Len(rows)
      BY <2>1, RowAt, AccountAssumption
         DEF AccountInv, AccountTypeOK, HoldersExist, IDs
    <3>. QED  BY <1>2, <3>1
  <2>. QED  BY <1>1, <2>1 DEF HoldersExist
<1>. QED  BY <1>1, <1>2, <1>4, <1>5, <1>6
          DEF AccountInv, AccountTypeOK, RequestType

(* The row a request works on is there.                                    *)
LEMMA KnownRow ==
    ASSUME AccountInv, NEW s \in Slots, req[s] # None, Known(req[s])
    PROVE  /\ req[s] \in Request /\ req[s].id \in DOMAIN rows
           /\ req[s].id \in IDs /\ rows[req[s].id] \in Row
<1>1. req[s].id # 0 /\ req[s].id \in 0..Len(rows) /\ req[s] \in Request
  BY DEF AccountInv, AccountTypeOK, RequestsOK, RequestOK
<1>. QED  BY <1>1, RowAt DEF AccountInv, AccountTypeOK

(* Soft deletion rewrites one row.                                         *)
LEMMA DeleteUserKeeps ==
    ASSUME AccountInv, NEW s \in Slots, DeleteUser(s)
    PROVE  AccountInv' /\ Calm(s)
<1>. DEFINE i == req[s].id
            row == [rows[i] EXCEPT !.deleted = TRUE]
<1>1. req[s] # None /\ Known(req[s])
  BY DEF DeleteUser, At, Known, LoginKinds
<1>2. i \in DOMAIN rows /\ rows[i] \in Row
  BY <1>1, KnownRow
<1>3. row \in Row /\ (rows[i].deleted => row = [rows[i] EXCEPT !.grants = row.grants])
  BY <1>2 DEF Row
<1>4. rows' = [rows EXCEPT ![i] = row]
  BY DEF DeleteUser
<1>. HIDE DEF i, row
<1>5. Rewrites(i, row)
  BY <1>2, <1>3, <1>4 DEF Rewrites
<1>6. req' \in [Slots -> Request \cup {None}] /\ req'[s] = None /\ Moves(s)
  BY DEF DeleteUser, Done, Moves, AccountInv, AccountTypeOK
<1>7. RowsMove /\ NoFault
  BY <1>2, <1>3, <1>5 DEF RowsMove, DeleteUser
<1>8. UNCHANGED <<tokenVars, snapshot, requests, invited, reverted>>
  BY DEF DeleteUser, ghostVars
<1>9. invited' \subseteq DOMAIN rows' /\ reverted' \subseteq DOMAIN rows'
  BY <1>7, <1>8, RowsMoveKeeps DEF AccountInv, AccountTypeOK
<1>. QED  BY <1>2, <1>3, <1>5, <1>6, <1>7, <1>8, <1>9, WriteKeeps DEF Calm

(* Renumbering what a deletion leaves stays within the priorities: of at   *)
(* most three contacts at most two are left.                               *)
LEMMA NewListTyped ==
    ASSUME NEW s \in Slots, req[s] \in Request
    PROVE  NewList(s) \in SUBSET Priorities
<1>1. req[s].contacts \in SUBSET (1..3) /\ req[s].list \in SUBSET (1..3)
  BY DEF Request, Priorities
<1>2. Cardinality(req[s].contacts) \in Nat /\ Cardinality(req[s].contacts) <= 3
  <2>1. /\ IsFiniteSet(1..3)
        /\ Cardinality(1..3) = IF 1 > 3 THEN 0 ELSE 3 - 1 + 1
    BY FS_Interval, 1 \in Int, 3 \in Int
  <2>. QED  BY <1>1, <2>1, FS_Subset, FS_CardinalityType
<1>3. 1..(Cardinality(req[s].contacts) - 1) \subseteq 1..3
  BY <1>2
<1>. QED  BY <1>1, <1>3 DEF NewList, Priorities

(* The list of contacts and the activation rewrite the row of a user who   *)
(* exists, or nothing.                                                     *)
LEMMA WriteContactsKeeps ==
    ASSUME AccountInv, NEW s \in Slots, WriteContacts(s)
    PROVE  AccountInv' /\ Calm(s)
<1>. DEFINE i == req[s].id
            list == NewList(s)
            status == IF Activates(s) THEN "active" ELSE rows[i].status
            row == [rows[i] EXCEPT !.contacts = list, !.status = status]
<1>1. req[s] # None /\ Known(req[s])
  BY DEF WriteContacts, At, Known, ContactKinds, LoginKinds
<1>2. req[s] \in Request /\ i \in DOMAIN rows /\ rows[i] \in Row
  BY <1>1, KnownRow
<1>3. list \in SUBSET Priorities
  BY <1>2, NewListTyped
<1>4. status \in Statuses
  BY <1>2 DEF Row, Statuses
<1>. HIDE DEF list, status
<1>5. row \in Row
  BY <1>2, <1>3, <1>4 DEF Row
<1>6. ASSUME ~rows[i].deleted
      PROVE  Rewrites(i, row)
  <2>1. rows \in [DOMAIN rows -> Row]
    BY LenProperties DEF AccountInv, AccountTypeOK
  <2>2. rows' = [rows EXCEPT ![i] = row]
    BY <1>2, <1>6, <2>1 DEF WriteContacts, Writable, Live, list, status, Row
  <2>. QED  BY <1>2, <1>5, <1>6, <2>2 DEF Rewrites
<1>7. ASSUME rows[i].deleted
      PROVE  rows' = rows
  BY <1>7 DEF WriteContacts, Writable, Live
<1>8. rows' = rows \/ \E j \in DOMAIN rows, r \in Row : Rewrites(j, r)
  BY <1>2, <1>5, <1>6, <1>7
<1>. HIDE DEF i, row
<1>9. req' \in [Slots -> Request \cup {None}] /\ req'[s] = None /\ Moves(s)
  BY DEF WriteContacts, Done, Moves, AccountInv, AccountTypeOK
<1>10. RowsMove /\ NoFault
  BY <1>8 DEF RowsMove, WriteContacts
<1>11. UNCHANGED <<tokenVars, snapshot, requests, invited, reverted>>
  BY DEF WriteContacts, ghostVars
<1>12. invited' \subseteq DOMAIN rows' /\ reverted' \subseteq DOMAIN rows'
  BY <1>10, <1>11, RowsMoveKeeps DEF AccountInv, AccountTypeOK
<1>. QED  BY <1>8, <1>9, <1>10, <1>11, <1>12, WriteKeeps DEF Calm

(* Binding a phone rewrites one row; if it has been deleted in the         *)
(* meantime, only the wallet changes.                                      *)
LEMMA LoginBindKeeps ==
    ASSUME AccountInv, NEW s \in Slots, LoginBind(s)
    PROVE  AccountInv' /\ Calm(s)
<1>. DEFINE i == req[s].id
            bound == BoundRow(s, rows[i])
            row == IF req[s].bound THEN bound ELSE InitWallet(bound)
<1>1. req[s] # None /\ Known(req[s]) /\ i # 0
  BY DEF LoginBind, At, Known, AccountInv, RequestsOK, RequestOK
<1>2. req[s] \in Request /\ i \in DOMAIN rows /\ rows[i] \in Row
  BY <1>1, KnownRow
<1>3. bound \in Row /\ (rows[i].deleted => bound = rows[i])
  BY <1>2 DEF BoundRow, NewStatus, Row, Request, Statuses
<1>4. row \in Row /\ (rows[i].deleted => row = [rows[i] EXCEPT !.grants = row.grants])
  <2>. HIDE DEF bound
  <2>. QED  BY <1>2, <1>3 DEF InitWallet, Row
<1>6. rows' = rows \/ Rewrites(i, row)
  <2>1. CASE Done(s) /\ rows' = rows
    BY <2>1
  <2>2. CASE rows' = [rows EXCEPT ![i] = row]
    BY <1>2, <1>4, <2>2 DEF Rewrites
  <2>. QED  BY <2>1, <2>2 DEF LoginBind
<1>7. rows' = rows \/ \E j \in DOMAIN rows, r \in Row : Rewrites(j, r)
  BY <1>2, <1>4, <1>6
<1>8. reverted' \subseteq reverted \cup {i}
  BY DEF LoginBind
<1>9. Done(s) \/ Goto(s, "generate")
  BY DEF LoginBind
<1>. HIDE DEF row, bound
<1>10. /\ req' \in [Slots -> Request \cup {None}] /\ Moves(s)
       /\ req'[s] = None \/ /\ req'[s].id \in 0..Len(rows)
                             /\ req'[s].pc # "create" /\ RequestOK(req[s])'
  <2>1. CASE Done(s)
    BY <2>1 DEF Done, Moves, AccountInv, AccountTypeOK
  <2>2. CASE Goto(s, "generate")
    <3>1. RequestType /\ "generate" \in PCs
      BY DEF AccountInv, AccountTypeOK, RequestType, PCs
    <3>2. /\ req' \in [Slots -> Request \cup {None}] /\ Moves(s)
          /\ req'[s] = [req[s] EXCEPT !.pc = "generate"]
      BY <1>1, <2>2, <3>1, GotoTyped DEF Moves
    <3>3. /\ req'[s].pc = "generate" /\ req'[s].id = i
          /\ req'[s].kind = req[s].kind /\ req'[s].openid = req[s].openid
      BY <1>2, <3>2 DEF Request
    <3>4. RequestOK(req[s]) /\ i \in 0..Len(rows)
      BY <1>1 DEF AccountInv, AccountTypeOK, RequestsOK
    <3>5. RequestOK(req[s])'
      BY <1>1, <3>3, <3>4 DEF RequestOK, Known
    <3>. QED  BY <3>2, <3>3, <3>4, <3>5
  <2>. QED  BY <1>9, <2>1, <2>2
<1>. HIDE DEF i
<1>11. RowsMove /\ NoFault
  BY <1>7 DEF RowsMove, LoginBind
<1>12. UNCHANGED <<tokenVars, snapshot, requests, invited>>
  BY DEF LoginBind
<1>13. invited' \subseteq DOMAIN rows' /\ reverted' \subseteq DOMAIN rows'
  BY <1>2, <1>8, <1>11, <1>12, RowsMoveKeeps DEF AccountInv, AccountTypeOK
<1>14. req'[s] # None => req'[s].id \in 0..Len(rows')
  BY <1>10, <1>11, RowsMoveKeeps, LenProperties DEF AccountInv, AccountTypeOK
<1>. QED  BY <1>7, <1>10, <1>11, <1>12, <1>13, <1>14, WriteKeeps DEF Calm

(* A request that has inserted its user goes on with the new row.          *)
LEMMA CreatedKeeps ==
    ASSUME AccountInv, NEW s \in Slots, req[s] \in Request, NoFault,
           req[s].openid \in OpenIDs,
           \E row \in Row : Adds(row),
           UNCHANGED <<tokenVars, snapshot, requests, reverted>>,
           invited' \subseteq invited \cup {Len(rows) + 1},
           NEW pc \in {"generate", "snap"},
           req' = [req EXCEPT ![s] = [@ EXCEPT !.pc = pc,
                                               !.id = Len(rows) + 1]]
    PROVE  AccountInv' /\ RowsMove
<1>. DEFINE n == Len(rows) + 1
            r == [req[s] EXCEPT !.pc = pc, !.id = n]
<1>1. RowsMove
  BY DEF RowsMove
<1>2. rows \in Seq(Row) /\ Len(rows) \in Nat
  BY LenProperties DEF AccountInv, AccountTypeOK
<1>3. /\ rows' \in Seq(Row) /\ Len(rows') = n /\ Len(rows') <= MaxRows
      /\ DOMAIN rows \subseteq DOMAIN rows' /\ DOMAIN rows' = 1..n
  BY <1>2, AddsKeeps, LenProperties
<1>4. n \in 0..MaxRows /\ n \in 0..Len(rows') /\ n # 0 /\ n \in DOMAIN rows'
  BY <1>2, <1>3, AccountAssumption
<1>5. req' = [req EXCEPT ![s] = r]
  BY DEF AccountInv, AccountTypeOK
<1>. HIDE DEF n
<1>6. /\ r \in Request /\ r.pc = pc /\ r.id = n
      /\ r.kind = req[s].kind /\ r.openid = req[s].openid
  BY <1>4 DEF Request, PCs
<1>. HIDE DEF r
<1>7. req' \in [Slots -> Request \cup {None}] /\ req'[s] = r /\ Moves(s)
  BY <1>5, <1>6 DEF Moves, AccountInv, AccountTypeOK
<1>8. req'[s].id \in 0..Len(rows') /\ RequestOK(req[s])'
  BY <1>4, <1>6, <1>7 DEF RequestOK, Known
<1>9. invited' \subseteq DOMAIN rows' /\ reverted' \subseteq DOMAIN rows'
  BY <1>3, <1>4 DEF AccountInv, AccountTypeOK, n
<1>. QED  BY <1>1, <1>7, <1>8, <1>9, WriteKeeps

(* The insert of a login keeps the invariant, also when another request    *)
(* has taken the open id or the phone.                                     *)
LEMMA LoginCreateKeeps ==
    ASSUME AccountInv, NEW s \in Slots, LoginCreate(s)
    PROVE  AccountInv' /\ RowsMove
<1>1. req[s] \in Request /\ RequestOK(req[s]) /\ req[s].openid \in OpenIDs
      /\ req[s].phone \in Phones \cup {NoPhone}
  BY DEF LoginCreate, At, AccountInv, AccountTypeOK, RequestsOK, RequestOK,
         Request
<1>2. UNCHANGED <<tokenVars, snapshot, requests>> /\ NoFault
  BY DEF LoginCreate
<1>3. CASE Done(s) /\ UNCHANGED <<rows, ghostVars>>
  <2>1. req' \in [Slots -> Request \cup {None}] /\ req'[s] = None /\ Moves(s)
    BY <1>3 DEF Done, Moves, AccountInv, AccountTypeOK
  <2>2. RowsMove /\ invited' \subseteq DOMAIN rows' /\ reverted' \subseteq DOMAIN rows'
    BY <1>3 DEF RowsMove, ghostVars, AccountInv, AccountTypeOK
  <2>. QED  BY <1>2, <2>1, <2>2, WriteKeeps
<1>4. CASE /\ Insert(req[s].openid, req[s].phone, "contact", 1)
           /\ req' = [req EXCEPT ![s] = [@ EXCEPT !.pc = "generate",
                                                   !.id = Len(rows) + 1]]
  <2>1. /\ \E row \in Row : Adds(row)
        /\ reverted' = reverted /\ invited' = invited \cup {Len(rows) + 1}
    BY <1>1, <1>4, InsertAdds DEF Statuses
  <2>. QED  BY <1>1, <1>2, <1>4, <2>1, CreatedKeeps, "generate" \in {"generate", "snap"}
<1>. QED  BY <1>3, <1>4 DEF LoginCreate

(* The insert of a newcomer to the waitlist keeps the invariant.           *)
LEMMA WaitlistCreateKeeps ==
    ASSUME AccountInv, NEW s \in Slots, WaitlistCreate(s)
    PROVE  AccountInv' /\ RowsMove
<1>1. req[s] \in Request /\ RequestOK(req[s]) /\ req[s].openid \in OpenIDs
      /\ req[s].status \in Statuses
  BY DEF WaitlistCreate, At, AccountInv, AccountTypeOK, RequestsOK, RequestOK,
         Request
<1>2. UNCHANGED <<tokenVars, snapshot, requests>> /\ NoFault
  BY DEF WaitlistCreate
<1>3. CASE Done(s) /\ UNCHANGED <<rows, ghostVars>>
  <2>1. req' \in [Slots -> Request \cup {None}] /\ req'[s] = None /\ Moves(s)
    BY <1>3 DEF Done, Moves, AccountInv, AccountTypeOK
  <2>2. RowsMove /\ invited' \subseteq DOMAIN rows' /\ reverted' \subseteq DOMAIN rows'
    BY <1>3 DEF RowsMove, ghostVars, AccountInv, AccountTypeOK
  <2>. QED  BY <1>2, <2>1, <2>2, WriteKeeps
<1>4. CASE /\ Insert(req[s].openid, NoPhone, req[s].status, 0)
           /\ req' = [req EXCEPT ![s] = [@ EXCEPT !.pc = "snap",
                                                   !.id = Len(rows) + 1]]
  <2>1. /\ \E row \in Row : Adds(row)
        /\ reverted' = reverted
        /\ invited' = IF req[s].status = "waitlisted" THEN invited
                      ELSE invited \cup {Len(rows) + 1}
    BY <1>1, <1>4, InsertAdds
  <2>. QED  BY <1>1, <1>2, <1>4, <2>1, CreatedKeeps, "snap" \in {"generate", "snap"}
<1>. QED  BY <1>3, <1>4 DEF WaitlistCreate

(* Counting the users changes nothing but the request that counts.         *)
LEMMA CountKeeps ==
    ASSUME AccountInv, NEW s \in Slots, LoginCount(s) \/ WaitlistCount(s)
    PROVE  AccountInv' /\ Moves(s) /\ UNCHANGED <<rows, invited>>
<1>1. req[s] # None /\ req[s] \in Request /\ RequestOK(req[s])
      /\ req[s].id \in 0..Len(rows)
  BY DEF LoginCount, WaitlistCount, At, AccountInv, AccountTypeOK, RequestsOK
<1>2. OnlyReads /\ NoFault
  BY DEF LoginCount, WaitlistCount
<1>3. CASE Done(s)
  <2>1. AccountInv' /\ Calm(s)
    BY <1>2, <1>3, ReadAndDone
  <2>. QED  BY <1>2, <2>1 DEF Calm, OnlyReads
<1>4. ASSUME NEW r \in Request, r.pc = "create", r.id = req[s].id,
             r.kind = req[s].kind, r.openid = req[s].openid,
             req' = [req EXCEPT ![s] = r]
      PROVE  AccountInv' /\ Moves(s) /\ UNCHANGED <<rows, invited>>
  <2>1. /\ req' \in [Slots -> Request \cup {None}] /\ req'[s] = r
        /\ \A t \in Slots \ {s} : req'[t] = req[t]
    BY <1>4 DEF AccountInv, AccountTypeOK
  <2>2. RequestOK(req[s])'
    BY <1>1, <1>4, <2>1 DEF RequestOK, Known
  <2>3. AccountInv'
    BY <1>1, <1>2, <1>4, <2>1, <2>2, FaultsTyped, OnlyReadsKeeps
  <2>. QED  BY <1>2, <2>1, <2>3 DEF Moves, OnlyReads, ghostVars
<1>5. CASE Goto(s, "create")
  <2>. DEFINE r == [req[s] EXCEPT !.pc = "create"]
  <2>1. /\ r \in Request /\ r.pc = "create" /\ r.id = req[s].id
        /\ r.kind = req[s].kind /\ r.openid = req[s].openid
    BY <1>1 DEF Request, PCs
  <2>2. req' = [req EXCEPT ![s] = r]
    BY <1>5 DEF Goto
  <2>. HIDE DEF r
  <2>. QED  BY <1>4, <2>1, <2>2
<1>6. CASE WaitlistCount(s)
  <2>. DEFINE status == IF Cardinality(Live) + 1 > MaxUsers
                        THEN "waitlisted" ELSE "onboarding"
              r == [req[s] EXCEPT !.pc = "create", !.status = status]
  <2>1. status \in Statuses
    BY DEF Statuses
  <2>2. req' = [req EXCEPT ![s] = r]
    BY <1>6 DEF WaitlistCount
  <2>. HIDE DEF status
  <2>3. /\ r \in Request /\ r.pc = "create" /\ r.id = req[s].id
        /\ r.kind = req[s].kind /\ r.openid = req[s].openid
    BY <1>1, <2>1 DEF Request, PCs
  <2>. HIDE DEF r
  <2>. QED  BY <1>4, <2>2, <2>3
<1>. QED  BY <1>3, <1>5, <1>6 DEF LoginCount

(* Tokens are generated in order, and only generated ones are stored or    *)
(* handed out, to users that exist.                                        *)
TokensMove ==
    /\ refresh' \in [IDs -> 0..MaxTokens]
    /\ issued' \in [IDs -> 0..MaxTokens]
    /\ held' \in [IDs -> SUBSET (1..MaxTokens)]
    /\ \A i \in IDs : /\ issued[i] <= issued'[i]
                      /\ refresh'[i] <= issued'[i]
                      /\ held'[i] \subseteq 1..issued'[i]
                      /\ held'[i] # {} => i <= Len(rows)

(* A step that changes tokens like that keeps the invariant.               *)
LEMMA TokenKeeps ==
    ASSUME AccountInv, NEW s \in Slots, NoFault \/ Fault, TokensMove,
           UNCHANGED <<rows, snapshot, requests, ghostVars>>,
           req' \in [Slots -> Request \cup {None}], Moves(s),
           req'[s] = None \/ /\ req'[s].id \in 0..Len(rows)
                             /\ req'[s].pc # "create"
                             /\ RequestOK(req[s])'
    PROVE  AccountInv' /\ Calm(s)
<1>1. UNCHANGED <<rows, snapshot, requests, invited, reverted>>
  BY DEF ghostVars
<1>2. Len(rows) \in Nat /\ Len(rows') = Len(rows)
  BY <1>1, LenProperties DEF AccountInv, AccountTypeOK
<1>3. RequestType' /\ RequestsOK'
  <2>1. /\ issued' \in [IDs -> 0..MaxTokens]
        /\ \A i \in IDs : issued[i] <= issued'[i]
    BY DEF TokensMove
  <2>2. Len(rows') \in Nat /\ Len(rows) <= Len(rows')
    BY <1>2
  <2>3. req'[s] = None \/ /\ req'[s].id \in 0..Len(rows')
                          /\ RequestOK(req[s])'
    BY <1>2
  <2>. QED  BY <2>1, <2>2, <2>3, SlotMoves DEF Moves
<1>4. faults' \in 0..MaxFaults
  BY FaultsTyped
<1>5. Calm(s)
  BY <1>1 DEF Calm
<1>. QED  BY <1>1, <1>2, <1>3, <1>4, <1>5
          DEF AccountInv, AccountTypeOK, RequestType, HoldersExist, TokensMove

(* A generated pair is the last one or the next one.                       *)
LEMMA GenerateTokenPairKeeps ==
    ASSUME AccountInv, NEW s \in Slots, GenerateTokenPair(s)
    PROVE  AccountInv' /\ Calm(s)
<1>. DEFINE i == req[s].id
<1>1. req[s] # None /\ RequestOK(req[s]) /\ Known(req[s])
  BY DEF GenerateTokenPair, At, TokenKinds, LoginKinds, Known, AccountInv,
         RequestsOK
<1>2. req[s] \in Request /\ i \in IDs /\ i \in 0..Len(rows) /\ i # 0
  BY <1>1, KnownRow DEF AccountInv, AccountTypeOK, RequestOK
<1>3. PICK k \in {issued[i], issued[i] + 1} \cap 1..MaxTokens :
         /\ issued' = [issued EXCEPT ![i] = k]
         /\ req' = [req EXCEPT ![s] = [@ EXCEPT !.pc = "store", !.token = k]]
  BY DEF GenerateTokenPair
<1>. DEFINE r == [req[s] EXCEPT !.pc = "store", !.token = k]
<1>4. req' = [req EXCEPT ![s] = r]
  BY <1>3 DEF AccountInv, AccountTypeOK
<1>5. UNCHANGED <<rows, refresh, held, snapshot, requests, ghostVars>> /\ NoFault
  BY DEF GenerateTokenPair
<1>. HIDE DEF i
<1>6. k \in 1..MaxTokens /\ k \in Nat /\ issued[i] \in Nat /\ issued[i] <= k
  BY <1>2, AccountAssumption DEF AccountInv, AccountTypeOK
<1>7. /\ r \in Request /\ r.pc = "store" /\ r.id = req[s].id /\ r.token = k
      /\ r.kind = req[s].kind /\ r.openid = req[s].openid
  <2>1. k \in 0..MaxTokens /\ "store" \in PCs
    BY <1>6 DEF PCs
  <2>. QED  BY <1>2, <2>1 DEF Request
<1>. HIDE DEF r
<1>8. req' \in [Slots -> Request \cup {None}] /\ req'[s] = r /\ Moves(s)
  BY <1>4, <1>7 DEF Moves, AccountInv, AccountTypeOK
<1>9. issued' \in [IDs -> 0..MaxTokens] /\ issued'[i] = k
  BY <1>2, <1>3, <1>6, AccountAssumption DEF AccountInv, AccountTypeOK
<1>10. \A j \in IDs : /\ issued[j] \in Nat /\ issued'[j] \in Nat
                      /\ issued[j] <= issued'[j] /\ refresh[j] \in Nat
  BY <1>2, <1>3, <1>6, <1>9, AccountAssumption DEF AccountInv, AccountTypeOK
<1>11. \A j \in IDs : /\ refresh[j] <= issued'[j]
                      /\ held[j] \subseteq 1..issued'[j]
                      /\ held[j] # {} => j <= Len(rows)
  BY <1>10 DEF AccountInv, AccountTypeOK, HoldersExist
<1>12. RequestOK(req[s])'
  BY <1>1, <1>6, <1>7, <1>8, <1>9 DEF RequestOK, Known, i
<1>13. TokensMove
  BY <1>5, <1>9, <1>10, <1>11 DEF AccountInv, AccountTypeOK, TokensMove
<1>14. req'[s].id \in 0..Len(rows) /\ req'[s].pc # "create"
  BY <1>2, <1>7, <1>8 DEF i
<1>. QED  BY <1>5, <1>8, <1>12, <1>13, <1>14, TokenKeeps

(* The stored token was generated before.                                  *)
LEMMA SetRefreshTokenKeeps ==
    ASSUME AccountInv, NEW s \in Slots, SetRefreshToken(s)
    PROVE  AccountInv' /\ Calm(s)
<1>. DEFINE i == req[s].id
<1>1. req[s] # None /\ RequestOK(req[s]) /\ Known(req[s])
      /\ req[s].token \in 1..issued[i]
  BY DEF SetRefreshToken, At, TokenKinds, LoginKinds, Known, AccountInv,
         RequestsOK, RequestOK
<1>2. req[s] \in Request /\ i \in IDs /\ i \in 0..Len(rows) /\ i # 0
  BY <1>1, KnownRow DEF AccountInv, AccountTypeOK, RequestOK
<1>3. UNCHANGED <<rows, issued, held, snapshot, requests, ghostVars>>
  BY DEF SetRefreshToken
<1>4. NoFault \/ Fault
  BY DEF SetRefreshToken
<1>5. /\ refresh' \in [IDs -> 0..MaxTokens]
      /\ \A j \in IDs : refresh'[j] <= issued[j]
  <2>1. req[s].token \in 0..MaxTokens /\ req[s].token <= issued[i]
    BY <1>1, <1>2, AccountAssumption DEF AccountInv, AccountTypeOK, Request
  <2>2. CASE refresh' = refresh
    BY <2>2 DEF AccountInv, AccountTypeOK
  <2>3. CASE refresh' = [refresh EXCEPT ![i] = req[s].token]
    BY <1>2, <2>1, <2>3 DEF AccountInv, AccountTypeOK
  <2>. QED  BY <2>2, <2>3 DEF SetRefreshToken
<1>6. /\ req' \in [Slots -> Request \cup {None}] /\ Moves(s)
      /\ req'[s] = [req[s] EXCEPT !.pc = "answer"]
  <2>1. RequestType /\ "answer" \in PCs /\ Goto(s, "answer")
    BY DEF AccountInv, AccountTypeOK, RequestType, PCs, SetRefreshToken
  <2>. QED  BY <1>1, <2>1, GotoTyped DEF Moves
<1>7. /\ req'[s].pc = "answer" /\ req'[s].id = i
      /\ req'[s].kind = req[s].kind /\ req'[s].openid = req[s].openid
      /\ req'[s].token = req[s].token
  BY <1>2, <1>6 DEF Request
<1>8. RequestOK(req[s])'
  BY <1>1, <1>2, <1>3, <1>7 DEF RequestOK, Known
<1>9. TokensMove
  BY <1>3, <1>5, AccountAssumption
     DEF AccountInv, AccountTypeOK, HoldersExist, TokensMove
<1>10. req'[s].id \in 0..Len(rows) /\ req'[s].pc # "create"
  BY <1>2, <1>7
<1>. QED  BY <1>3, <1>4, <1>6, <1>8, <1>9, <1>10, TokenKeeps

(* The token a client is answered with was generated before, for a user    *)
(* that exists.                                                            *)
LEMMA AnswerTokenKeeps ==
    ASSUME AccountInv, NEW s \in Slots, AnswerToken(s)
    PROVE  AccountInv' /\ Calm(s)
<1>. DEFINE i == req[s].id
<1>1. req[s] # None /\ Known(req[s]) /\ req[s].token \in 1..issued[i]
  BY DEF AnswerToken, At, TokenKinds, LoginKinds, Known, AccountInv,
         RequestsOK, RequestOK
<1>2. req[s] \in Request /\ i \in IDs /\ i \in DOMAIN rows
  BY <1>1, KnownRow
<1>3. UNCHANGED <<rows, refresh, issued, snapshot, requests, ghostVars>> /\ NoFault
  BY DEF AnswerToken
<1>4. held' = [held EXCEPT ![i] = held[i] \cup {req[s].token}]
  BY DEF AnswerToken
<1>5. i <= Len(rows)
  BY <1>2, RowAt DEF AccountInv, AccountTypeOK
<1>6. req[s].token \in 1..MaxTokens
  BY <1>1, <1>2, AccountAssumption DEF AccountInv, AccountTypeOK, Request
<1>7. held' \in [IDs -> SUBSET (1..MaxTokens)]
  BY <1>2, <1>4, <1>6 DEF AccountInv, AccountTypeOK
<1>8. \A j \in IDs : /\ held'[j] \subseteq 1..issued[j]
                     /\ held'[j] # {} => j <= Len(rows)
  BY <1>1, <1>2, <1>4, <1>5 DEF AccountInv, AccountTypeOK, HoldersExist
<1>9. req' \in [Slots -> Request \cup {None}] /\ req'[s] = None /\ Moves(s)
  BY DEF AnswerToken, Done, Moves, AccountInv, AccountTypeOK
<1>10. TokensMove
  BY <1>3, <1>7, <1>8, AccountAssumption DEF AccountInv, AccountTypeOK, TokensMove
<1>. QED  BY <1>3, <1>9, <1>10, TokenKeeps

(* The cached answer names a user that exists.                             *)
LEMMA SaveSnapshotKeeps ==
    ASSUME AccountInv, NEW s \in Slots, SaveSnapshot(s)
    PROVE  AccountInv' /\ Calm(s)
<1>1. req[s] # None /\ RequestOK(req[s]) /\ Known(req[s])
  BY DEF SaveSnapshot, At, Known, AccountInv, RequestsOK
<1>2. req[s] \in Request /\ req[s].id \in IDs /\ req[s].openid \in OpenIDs
  BY <1>1, KnownRow DEF SaveSnapshot, At, RequestOK
<1>3. SnapshotOf(s) \in Snapshot
  BY <1>2 DEF SnapshotOf, Snapshot, NextStep, Steps, Request, Statuses
<1>4. snapshot' \in [OpenIDs -> Snapshot \cup {None}]
  BY <1>2, <1>3 DEF SaveSnapshot, AccountInv, AccountTypeOK
<1>5. req' \in [Slots -> Request \cup {None}] /\ req'[s] = None /\ Moves(s)
  BY DEF SaveSnapshot, Done, Moves, AccountInv, AccountTypeOK
<1>6. UNCHANGED <<rows, refresh, issued, held, requests, invited, reverted>>
  BY DEF SaveSnapshot, tokenVars, ghostVars
<1>7. NoFault \/ Fault
  BY DEF SaveSnapshot
<1>8. faults' \in 0..MaxFaults
  BY <1>7, FaultsTyped
<1>9. /\ issued' \in [IDs -> 0..MaxTokens]
      /\ \A i \in IDs : issued[i] <= issued'[i]
      /\ Len(rows') \in Nat /\ Len(rows) <= Len(rows')
  BY <1>6, LenProperties, AccountAssumption DEF AccountInv, AccountTypeOK
<1>10. RequestType' /\ RequestsOK'
  BY <1>5, <1>9, SlotMoves DEF Moves
<1>11. Calm(s)
  BY <1>5, <1>6 DEF Calm
<1>. QED  BY <1>4, <1>6, <1>8, <1>10, <1>11
          DEF AccountInv, AccountTypeOK, RequestType, HoldersExist

(* Expiry of a cached answer touches neither users nor requests.           *)
LEMMA SnapshotExpiresKeeps ==
    ASSUME AccountInv, NEW o \in OpenIDs, SnapshotExpires(o)
    PROVE  AccountInv' /\ UNCHANGED <<rows, req, invited>>
BY DEF SnapshotExpires, AccountInv, AccountTypeOK, RequestsOK, RequestOK,
       Known, HoldersExist, tokenVars, ghostVars

-----------------------------------------------------------------------------

(* Every step keeps the invariant, and writes or adds at most one row.     *)
LEMMA NextKeeps ==
    ASSUME AccountInv, [AccountNext]_accountVars
    PROVE  AccountInv' /\ RowsMove
<1>1. ASSUME NEW s \in Slots, Calm(s)
      PROVE  RowsMove
  BY <1>1 DEF Calm, RowsMove
<1>2. ASSUME NEW s \in Slots, Serve(s)
      PROVE  AccountInv' /\ RowsMove
  <2>1. CASE \/ BeginExchange(s) \/ BeginVerify(s) \/ BeginWaitlist(s)
             \/ BeginRefresh(s) \/ BeginContact(s) \/ BeginDelete(s)
    BY <1>1, <2>1, BeginsKeep
  <2>2. CASE \/ Lookup(s) \/ ExchangePhone(s) \/ VerifyPhone(s)
             \/ VerifyFallback(s)
             \/ ValidateRefreshToken(s) \/ RefreshLookup(s)
             \/ ReadSnapshot(s) \/ WaitlistLookup(s)
             \/ ReadUser(s) \/ Abort(s)
    BY <1>1, <2>2, ReadsKeep
  <2>3. CASE LoginCount(s) \/ WaitlistCount(s)
    BY <2>3, CountKeeps DEF RowsMove
  <2>4. CASE LoginCreate(s)
    BY <2>4, LoginCreateKeeps
  <2>5. CASE WaitlistCreate(s)
    BY <2>5, WaitlistCreateKeeps
  <2>6. CASE LoginBind(s)
    BY <1>1, <2>6, LoginBindKeeps
  <2>7. CASE GenerateTokenPair(s)
    BY <1>1, <2>7, GenerateTokenPairKeeps
  <2>8. CASE SetRefreshToken(s)
    BY <1>1, <2>8, SetRefreshTokenKeeps
  <2>9. CASE AnswerToken(s)
    BY <1>1, <2>9, AnswerTokenKeeps
  <2>10. CASE SaveSnapshot(s)
    BY <1>1, <2>10, SaveSnapshotKeeps
  <2>11. CASE WriteContacts(s)
    BY <1>1, <2>11, WriteContactsKeeps
  <2>12. CASE DeleteUser(s)
    BY <1>1, <2>12, DeleteUserKeeps
  <2>. QED  BY <1>2, <2>1, <2>2, <2>3, <2>4, <2>5, <2>6, <2>7, <2>8, <2>9,
                <2>10, <2>11, <2>12 DEF Serve
<1>3. ASSUME NEW o \in OpenIDs, SnapshotExpires(o)
      PROVE  AccountInv' /\ RowsMove
  BY <1>3, SnapshotExpiresKeeps DEF RowsMove
<1>4. ASSUME UNCHANGED accountVars
      PROVE  AccountInv' /\ RowsMove
  BY <1>4 DEF accountVars, tokenVars, ghostVars, AccountInv, AccountTypeOK,
              RequestsOK, RequestOK, Known, HoldersExist, RowsMove
<1>. QED  BY <1>2, <1>3, <1>4 DEF AccountNext

(* The invariant holds in the initial state.                               *)
LEMMA AccountInitInv == AccountInit => AccountInv
<1>. SUFFICES ASSUME AccountInit PROVE AccountInv
  OBVIOUS
<1>1. rows \in Seq(Row) /\ Len(rows) = 0
  BY EmptySeq DEF AccountInit
<1>. QED  BY <1>1, AccountAssumption
          DEF AccountInit, AccountInv, AccountTypeOK, RequestsOK, HoldersExist,
              None

(* In every reachable state requests work on rows that exist and tokens    *)
(* were generated for users that exist.                                    *)
THEOREM AccountInvariant == AccountSpec => []AccountInv
<1>1. AccountInv /\ [AccountNext]_accountVars => AccountInv'
  BY NextKeeps
<1>. QED  BY AccountInitInv, <1>1, PTL DEF AccountSpec

(* Every reachable state is well typed: among others a request never works *)
(* on a primary key that was not assigned, and the stored refresh token    *)
(* and those that clients hold are generated ones.                         *)
THEOREM AccountTypeCorrect == AccountSpec => []AccountTypeOK
<1>1. AccountInv => AccountTypeOK
  BY DEF AccountInv
<1>. QED  BY AccountInvariant, <1>1, PTL

(* What a step of the table leaves of a deleted row: all but the wallet.   *)
LEMMA RowsMoveFreezes ==
    ASSUME AccountInv, RowsMove, NEW i \in DOMAIN rows, rows[i].deleted
    PROVE  rows'[i] = [rows[i] EXCEPT !.grants = rows'[i].grants]
<1>1. rows \in Seq(Row) /\ rows[i] \in Row /\ i \in 1..Len(rows)
  BY RowAt DEF AccountInv, AccountTypeOK
<1>2. CASE rows' = rows
  BY <1>1, <1>2 DEF Row
<1>3. ASSUME NEW j \in DOMAIN rows, NEW row \in Row, Rewrites(j, row)
      PROVE  rows'[i] = [rows[i] EXCEPT !.grants = rows'[i].grants]
  <2>1. CASE i = j
    <3>1. rows'[i] = row /\ row = [rows[i] EXCEPT !.grants = row.grants]
      BY <1>1, <1>3, <2>1 DEF Rewrites
    <3>. QED  BY <3>1
  <2>2. CASE i # j
    <3>1. rows'[i] = rows[i]
      BY <1>1, <1>3, <2>2 DEF Rewrites
    <3>. QED  BY <1>1, <3>1 DEF Row
  <2>. QED  BY <2>1, <2>2
<1>4. ASSUME NEW row \in Row, Adds(row)
      PROVE  rows'[i] = [rows[i] EXCEPT !.grants = rows'[i].grants]
  <2>1. rows'[i] = rows[i]
    BY <1>1, <1>4, AppendProperties DEF Adds
  <2>. QED  BY <1>1, <2>1 DEF Row
<1>. QED  BY <1>2, <1>3, <1>4 DEF RowsMove

(* However requests of one user interleave with DeleteUser, and whatever   *)
(* calls fail, a deleted user is never changed again, except that a login  *)
(* on its way may still create the wallet.                                 *)
THEOREM DeletedStaysFrozen == AccountSpec => DeletedIsFrozen
<1>1. AccountInv /\ [AccountNext]_accountVars =>
          [\A i \in DOMAIN rows :
              rows[i].deleted =>
                  rows'[i] = [rows[i] EXCEPT !.grants = rows'[i].grants]]_accountVars
  BY NextKeeps, RowsMoveFreezes
<1>. QED  BY AccountInvariant, <1>1, PTL DEF AccountSpec, DeletedIsFrozen

-----------------------------------------------------------------------------

(* The requests that have counted, and will insert a user who is invited.  *)
Pending == {s \in Slots : /\ req[s] # None /\ req[s].pc = "create"
                          /\ req[s].kind = "waitlist" =>
                                req[s].status # "waitlisted"}

(* The users who count for the capacity.                                   *)
Invited == invited \cap Live

(* A request that has counted holds a place in the overshoot until its     *)
(* insert is done or has failed: what has been invited and what still may  *)
(* be never exceeds the capacity by more than the other requests.          *)
CapacityInv ==
    Cardinality(Invited) + Cardinality(Pending)
        <= MaxUsers + Cardinality(Slots) - 1

(* The sets that are counted are finite.                                   *)
LEMMA CapacityFinite ==
    ASSUME rows \in Seq(Row)
    PROVE  /\ IsFiniteSet(Invited) /\ IsFiniteSet(Pending) /\ IsFiniteSet(Live)
           /\ Cardinality(Invited) \in Nat /\ Cardinality(Pending) \in Nat
           /\ Cardinality(Live) \in Nat /\ Cardinality(Slots) \in Nat
           /\ Cardinality(Pending) <= Cardinality(Slots)
           /\ Cardinality(Invited) <= Cardinality(Live)
<1>1. Live \subseteq 1..Len(rows) /\ Len(rows) \in Nat
  BY LenProperties DEF Live
<1>2. IsFiniteSet(1..Len(rows))
  BY <1>1, FS_Interval
<1>3. IsFiniteSet(Live)
  BY <1>1, <1>2, FS_Subset
<1>4. Invited \subseteq Live /\ Pending \subseteq Slots
  BY DEF Invited, Pending
<1>. QED  BY <1>3, <1>4, AccountAssumption, FS_Subset, FS_CardinalityType

(* Nobody more is invited or pending.                                      *)
LEMMA CapacityShrinks ==
    ASSUME rows \in Seq(Row), CapacityInv,
           Pending' \subseteq Pending, Invited' \subseteq Invited
    PROVE  CapacityInv'
<1>1. /\ Cardinality(Pending') \in Nat /\ Cardinality(Invited') \in Nat
      /\ Cardinality(Pending') <= Cardinality(Pending)
      /\ Cardinality(Invited') <= Cardinality(Invited)
  BY CapacityFinite, FS_Subset, FS_CardinalityType
<1>. QED  BY <1>1, CapacityFinite, AccountAssumption DEF CapacityInv

(* A pending request becomes an invited user.                              *)
LEMMA CapacityExchanges ==
    ASSUME rows \in Seq(Row), CapacityInv, NEW s \in Pending, NEW n,
           Pending' \subseteq Pending \ {s},
           Invited' \subseteq Invited \cup {n}
    PROVE  CapacityInv'
<1>1. /\ IsFiniteSet(Pending \ {s})
      /\ Cardinality(Pending \ {s}) = Cardinality(Pending) - 1
  BY CapacityFinite, FS_RemoveElement
<1>2. /\ IsFiniteSet(Invited \cup {n})
      /\ Cardinality(Invited \cup {n}) <= Cardinality(Invited) + 1
  <2>1. IsFiniteSet(Invited) /\ Cardinality(Invited) \in Nat
    BY CapacityFinite
  <2>2. /\ IsFiniteSet(Invited \cup {n})
        /\ Cardinality(Invited \cup {n}) =
              IF n \in Invited THEN Cardinality(Invited)
              ELSE Cardinality(Invited) + 1
    BY <2>1, FS_AddElement
  <2>. QED  BY <2>1, <2>2
<1>3. /\ Cardinality(Pending') \in Nat
      /\ Cardinality(Pending') <= Cardinality(Pending \ {s})
  BY <1>1, FS_Subset, FS_CardinalityType
<1>4. /\ Cardinality(Invited') \in Nat
      /\ Cardinality(Invited') <= Cardinality(Invited \cup {n})
      /\ Cardinality(Invited \cup {n}) \in Nat
  BY <1>2, FS_Subset, FS_CardinalityType
<1>. QED  BY <1>1, <1>2, <1>3, <1>4, CapacityFinite, AccountAssumption
          DEF CapacityInv

(* After a count that found room, whoever else is pending fits in.         *)
LEMMA CapacityFresh ==
    ASSUME rows \in Seq(Row), UNCHANGED <<rows, invited>>,
           Cardinality(Live) < MaxUsers
    PROVE  CapacityInv'
<1>1. Invited' = Invited
  BY DEF Invited, Live
<1>2. Pending' \subseteq Slots
  BY DEF Pending
<1>3. /\ Cardinality(Pending') \in Nat
      /\ Cardinality(Pending') <= Cardinality(Slots)
  BY <1>2, AccountAssumption, FS_Subset, FS_CardinalityType
<1>. QED  BY <1>1, <1>3, CapacityFinite, AccountAssumption DEF CapacityInv

(* Calm steps keep the bound: none of them brings a deleted user back.     *)
LEMMA CalmCapacity ==
    ASSUME AccountInv, CapacityInv, NEW s \in Slots, Calm(s)
    PROVE  CapacityInv'
<1>1. rows \in Seq(Row)
  BY DEF AccountInv, AccountTypeOK
<1>2. Pending' \subseteq Pending
  BY DEF Pending, Calm, Moves
<1>3. Live' \subseteq Live
  <2>1. CASE rows' = rows
    BY <2>1 DEF Live
  <2>2. ASSUME NEW i \in DOMAIN rows, NEW row \in Row, Rewrites(i, row)
        PROVE  Live' \subseteq Live
    <3>1. DOMAIN rows' = DOMAIN rows
      BY <1>1, <2>2, RewritesKeeps
    <3>2. \A j \in DOMAIN rows : rows[j].deleted => rows'[j].deleted
      <4>1. rows[i].deleted => row.deleted
        BY <1>1, <2>2, RowAt DEF Rewrites, Row, AccountInv, AccountTypeOK
      <4>2. rows \in [DOMAIN rows -> Row]
        BY <1>1, LenProperties
      <4>. QED  BY <2>2, <4>1, <4>2 DEF Rewrites
    <3>. QED  BY <3>1, <3>2 DEF Live
  <2>. QED  BY <2>1, <2>2 DEF Calm
<1>4. Invited' \subseteq Invited
  BY <1>3 DEF Calm, Invited
<1>. QED  BY <1>1, <1>2, <1>4, CapacityShrinks

(* An insert adds one live user, who had not been invited.                 *)
LEMMA InsertLive ==
    ASSUME AccountInv, NEW row \in Row, Adds(row)
    PROVE  Live' \subseteq Live \cup {Len(rows) + 1} /\ Len(rows) + 1 \notin invited
<1>1. rows \in Seq(Row) /\ DOMAIN rows = 1..Len(rows) /\ Len(rows) \in Nat
  BY RowAt DEF AccountInv, AccountTypeOK
<1>2. /\ DOMAIN rows' = 1..(Len(rows) + 1)
      /\ \A i \in DOMAIN rows : rows'[i] = rows[i]
  BY <1>1, AppendProperties, LenProperties DEF Adds
<1>3. Live' \subseteq Live \cup {Len(rows) + 1}
  BY <1>1, <1>2 DEF Live
<1>. QED  BY <1>1, <1>3 DEF AccountInv, AccountTypeOK

(* A count keeps the bound: it finds room, or the request does not become  *)
(* a pending one.                                                          *)
LEMMA CountCapacity ==
    ASSUME AccountInv, CapacityInv, NEW s \in Slots,
           LoginCount(s) \/ WaitlistCount(s)
    PROVE  CapacityInv'
<1>1. rows \in Seq(Row) /\ Moves(s) /\ UNCHANGED <<rows, invited>>
  BY CountKeeps DEF AccountInv, AccountTypeOK
<1>2. Invited' = Invited
  BY <1>1 DEF Invited, Live
<1>3. CASE Cardinality(Live) < MaxUsers
  BY <1>1, <1>3, CapacityFresh
<1>4. CASE ~(Cardinality(Live) < MaxUsers)
  <2>1. s \notin Pending'
    <3>1. CASE LoginCount(s)
      BY <1>4, <3>1 DEF LoginCount, HasCapacity, Done, Pending, AccountInv,
                        AccountTypeOK
    <3>2. CASE WaitlistCount(s)
      <4>1. Cardinality(Live) + 1 > MaxUsers
        BY <1>1, <1>4, CapacityFinite, AccountAssumption
      <4>2. /\ req[s] \in Request /\ req[s].kind = "waitlist"
            /\ req' = [req EXCEPT ![s] = [req[s] EXCEPT !.pc = "create",
                                             !.status = "waitlisted"]]
        BY <3>2, <4>1 DEF WaitlistCount, At, AccountInv, AccountTypeOK
      <4>3. req'[s].kind = "waitlist" /\ req'[s].status = "waitlisted"
        BY <4>2 DEF Request, AccountInv, AccountTypeOK
      <4>. QED  BY <4>3 DEF Pending
    <3>. QED  BY <3>1, <3>2
  <2>2. Pending' \subseteq Pending
    BY <1>1, <2>1 DEF Pending, Moves
  <2>. QED  BY <1>1, <1>2, <2>2, CapacityShrinks
<1>. QED  BY <1>3, <1>4

(* An insert keeps the bound: the request that inserts was pending, unless *)
(* it inserts into the waitlist.                                           *)
LEMMA CreateCapacity ==
    ASSUME AccountInv, CapacityInv, NEW s \in Slots,
           LoginCreate(s) \/ WaitlistCreate(s)
    PROVE  CapacityInv'
<1>. DEFINE n == Len(rows) + 1
<1>1. rows \in Seq(Row) /\ req[s] # None /\ req[s] \in Request
      /\ req[s].pc = "create" /\ req[s].openid \in OpenIDs
      /\ (LoginCreate(s) => req[s].kind # "waitlist")
  BY DEF LoginCreate, WaitlistCreate, At, LoginKinds, AccountInv,
         AccountTypeOK, RequestsOK, RequestOK
<1>2. Moves(s) /\ s \notin Pending'
  <2>1. CASE Done(s)
    BY <2>1 DEF Done, Moves, Pending, AccountInv, AccountTypeOK
  <2>2. ASSUME NEW pc \in {"generate", "snap"},
               req' = [req EXCEPT ![s] = [req[s] EXCEPT !.pc = pc, !.id = n]]
        PROVE  Moves(s) /\ s \notin Pending'
    <3>1. req'[s].pc = pc /\ Moves(s)
      BY <1>1, <2>2 DEF Request, Moves, AccountInv, AccountTypeOK
    <3>. QED  BY <3>1 DEF Pending
  <2>3. Done(s) \/ \E pc \in {"generate", "snap"} :
           req' = [req EXCEPT ![s] = [req[s] EXCEPT !.pc = pc, !.id = n]]
    BY DEF LoginCreate, WaitlistCreate
  <2>. QED  BY <2>1, <2>2, <2>3
<1>3. Pending' \subseteq Pending \ {s}
  BY <1>2 DEF Pending, Moves
<1>4. CASE UNCHANGED <<rows, ghostVars>>
  <2>1. Invited' = Invited
    BY <1>4 DEF Invited, Live, ghostVars
  <2>. QED  BY <1>1, <1>3, <2>1, CapacityShrinks
<1>5. ASSUME NEW row \in Row, Adds(row), s \in Pending,
             invited' \subseteq invited \cup {n}
      PROVE  CapacityInv'
  <2>1. Invited' \subseteq Invited \cup {n}
    BY <1>5, InsertLive DEF Invited
  <2>. QED  BY <1>1, <1>3, <1>5, <2>1, CapacityExchanges
<1>6. ASSUME NEW row \in Row, Adds(row), invited' = invited
      PROVE  CapacityInv'
  <2>1. Invited' \subseteq Invited
    BY <1>6, InsertLive DEF Invited
  <2>. QED  BY <1>1, <1>3, <2>1, CapacityShrinks
<1>7. CASE Insert(req[s].openid, req[s].phone, "contact", 1) /\ LoginCreate(s)
  <2>1. (\E row \in Row : Adds(row)) /\ invited' = invited \cup {n}
    BY <1>1, <1>7, InsertAdds DEF Request, Statuses
  <2>2. s \in Pending
    BY <1>1, <1>7 DEF Pending
  <2>. QED  BY <1>5, <2>1, <2>2
<1>8. CASE Insert(req[s].openid, NoPhone, req[s].status, 0) /\ WaitlistCreate(s)
  <2>1. /\ \E row \in Row : Adds(row)
        /\ invited' = IF req[s].status = "waitlisted" THEN invited
                      ELSE invited \cup {n}
    BY <1>1, <1>8, InsertAdds DEF Request
  <2>2. req[s].status # "waitlisted" => s \in Pending
    BY <1>1 DEF Pending
  <2>. QED  BY <1>5, <1>6, <2>1, <2>2
<1>. QED  BY <1>4, <1>7, <1>8 DEF LoginCreate, WaitlistCreate

(* Every step keeps the bound.                                             *)
LEMMA NextCapacity ==
    ASSUME AccountInv, CapacityInv, [AccountNext]_accountVars
    PROVE  CapacityInv'
<1>1. ASSUME UNCHANGED <<rows, req, invited>>
      PROVE  CapacityInv'
  BY <1>1 DEF CapacityInv, Pending, Invited, Live
<1>2. ASSUME NEW s \in Slots, Serve(s)
      PROVE  CapacityInv'
  <2>1. CASE LoginCount(s) \/ WaitlistCount(s)
    BY <2>1, CountCapacity
  <2>2. CASE LoginCreate(s) \/ WaitlistCreate(s)
    BY <2>2, CreateCapacity
  <2>3. CASE \/ BeginExchange(s) \/ BeginVerify(s) \/ BeginWaitlist(s)
             \/ BeginRefresh(s) \/ BeginContact(s) \/ BeginDelete(s)
    BY <2>3, BeginsKeep, CalmCapacity
  <2>4. CASE \/ Lookup(s) \/ ExchangePhone(s) \/ VerifyPhone(s)
             \/ VerifyFallback(s)
             \/ ValidateRefreshToken(s) \/ RefreshLookup(s)
             \/ ReadSnapshot(s) \/ WaitlistLookup(s)
             \/ ReadUser(s) \/ Abort(s)
    BY <2>4, ReadsKeep, CalmCapacity
  <2>5. CASE \/ LoginBind(s) \/ GenerateTokenPair(s) \/ SetRefreshToken(s)
             \/ AnswerToken(s) \/ SaveSnapshot(s) \/ WriteContacts(s)
             \/ DeleteUser(s)
    BY <2>5, LoginBindKeeps, GenerateTokenPairKeeps, SetRefreshTokenKeeps,
       AnswerTokenKeeps, SaveSnapshotKeeps, WriteContactsKeeps,
       DeleteUserKeeps, CalmCapacity
  <2>. QED  BY <1>2, <2>1, <2>2, <2>3, <2>4, <2>5 DEF Serve
<1>3. ASSUME NEW o \in OpenIDs, SnapshotExpires(o)
      PROVE  CapacityInv'
  BY <1>1, <1>3, SnapshotExpiresKeeps
<1>4. ASSUME UNCHANGED accountVars
      PROVE  CapacityInv'
  BY <1>1, <1>4 DEF accountVars, ghostVars
<1>. QED  BY <1>2, <1>3, <1>4 DEF AccountNext

(* The capacity of the waitlist, a count before an insert in AuthService   *)
(* and UserService, is exceeded by at most one user for every other        *)
(* request in flight, however many users there are.                        *)
THEOREM CapacityBounded == AccountSpec => []CapacityOvershootBounded
<1>1. AccountInit => CapacityInv
  <2>. SUFFICES ASSUME AccountInit PROVE CapacityInv
    OBVIOUS
  <2>1. Pending = {} /\ Invited = {}
    BY DEF AccountInit, Pending, Invited
  <2>2. Cardinality(Slots) \in Nat /\ Cardinality(Slots) # 0
    BY AccountAssumption, FS_CardinalityType, FS_EmptySet
  <2>. QED  BY <2>1, <2>2, AccountAssumption, FS_EmptySet DEF CapacityInv
<1>2. AccountInv /\ CapacityInv /\ [AccountNext]_accountVars => CapacityInv'
  BY NextCapacity
<1>3. AccountInv /\ CapacityInv => CapacityOvershootBounded
  BY CapacityFinite, AccountAssumption
     DEF AccountInv, AccountTypeOK, CapacityInv, CapacityOvershootBounded,
         Invited
<1>. QED  BY AccountInvariant, <1>1, <1>2, <1>3, PTL DEF AccountSpec

-----------------------------------------------------------------------------

(* The users that are soft-deleted.                                        *)
Deleted == DOMAIN rows \ Live

(* What a request knows of the users who were gone when it began: they are *)
(* deleted still, and only the login by code may work on one - or a        *)
(* refresh that has not looked its user up yet.                            *)
GoneOK(r) ==
    /\ r.gone \subseteq Deleted
    /\ r.kind \notin TokenKinds => r.gone = {}
    /\ r.kind = "exchange" => r.id \notin r.gone
    /\ r.kind = "refresh" /\ r.pc \in {"generate", "store", "answer"}
          => r.id \notin r.gone

GoneInv == \A s \in Slots : req[s] # None => GoneOK(req[s])

(* Deletion is for good.                                                   *)
LEMMA DeletedGrows ==
    ASSUME AccountInv, RowsMove
    PROVE  Deleted \subseteq Deleted'
<1>1. DOMAIN rows \subseteq DOMAIN rows'
  BY RowsMoveKeeps
<1>2. ASSUME NEW i \in DOMAIN rows, rows[i].deleted
      PROVE  rows'[i].deleted
  <2>1. rows'[i] = [rows[i] EXCEPT !.grants = rows'[i].grants]
    BY <1>2, RowsMoveFreezes
  <2>2. rows[i] \in Row
    BY RowAt DEF AccountInv, AccountTypeOK
  <2>. QED  BY <1>2, <2>1, <2>2 DEF Row
<1>. QED  BY <1>1, <1>2 DEF Deleted, Live

(* A step that leaves its own request in order leaves all in order.        *)
LEMMA GoneKeeps ==
    ASSUME AccountInv, GoneInv, RowsMove, NEW s \in Slots, Moves(s),
           req'[s] = None \/ GoneOK(req[s])'
    PROVE  GoneInv'
<1>1. Deleted \subseteq Deleted'
  BY DeletedGrows
<1>2. ASSUME NEW t \in Slots \ {s}, req'[t] # None
      PROVE  GoneOK(req[t])'
  <2>1. req'[t] = req[t] /\ GoneOK(req[t])
    BY <1>2 DEF Moves, GoneInv
  <2>. QED  BY <1>1, <2>1 DEF GoneOK
<1>. QED  BY <1>2 DEF GoneInv

(* A request that goes on with the same row; a refresh that goes on to the *)
(* tokens has found its user alive.                                        *)
LEMMA GoneGoto ==
    ASSUME AccountInv, GoneInv, NEW s \in Slots, req[s] # None, RowsMove,
           NEW pc \in PCs, Goto(s, pc),
           req[s].kind = "refresh" /\ pc \in {"generate", "store", "answer"}
              => req[s].id \notin req[s].gone
    PROVE  GoneInv'
<1>1. RequestType /\ req[s] \in Request /\ GoneOK(req[s])
  BY DEF AccountInv, AccountTypeOK, RequestType, GoneInv
<1>2. Moves(s) /\ req'[s] = [req[s] EXCEPT !.pc = pc]
  BY <1>1, GotoTyped DEF Moves
<1>3. /\ req'[s].pc = pc /\ req'[s].id = req[s].id
      /\ req'[s].kind = req[s].kind /\ req'[s].gone = req[s].gone
  BY <1>1, <1>2 DEF Request
<1>4. Deleted \subseteq Deleted'
  BY DeletedGrows
<1>5. GoneOK(req[s])'
  BY <1>1, <1>3, <1>4 DEF GoneOK
<1>. QED  BY <1>2, <1>5, GoneKeeps

(* A request that goes on with a row it has read; Exchange reads live rows *)
(* only.                                                                   *)
LEMMA GoneTake ==
    ASSUME AccountInv, GoneInv, NEW s \in Slots, req[s] # None,
           UNCHANGED rows, NEW pc \in PCs \ {"generate", "store", "answer"},
           NEW i \in DOMAIN rows, Take(s, i, pc),
           req[s].kind = "exchange" => i \in Live
    PROVE  GoneInv'
<1>1. RequestType /\ req[s] \in Request /\ GoneOK(req[s])
      /\ rows \in Seq(Row) /\ Len(rows) <= MaxRows
  BY DEF AccountInv, AccountTypeOK, RequestType, GoneInv
<1>2. Moves(s) /\ req'[s].id = i /\ req'[s].pc = pc
      /\ req'[s].kind = req[s].kind
  BY <1>1, TakeTyped DEF Moves
<1>3. req'[s].gone = req[s].gone
  BY <1>1 DEF Take, RequestType, Request
<1>4. GoneOK(req[s])'
  BY <1>1, <1>2, <1>3 DEF GoneOK, Deleted, Live
<1>. QED  BY <1>2, <1>4, GoneKeeps DEF RowsMove

(* A request that is answered.                                             *)
LEMMA GoneDone ==
    ASSUME AccountInv, GoneInv, NEW s \in Slots, RowsMove, Done(s)
    PROVE  GoneInv'
<1>1. Moves(s) /\ req'[s] = None
  BY DEF Done, Moves, AccountInv, AccountTypeOK
<1>. QED  BY <1>1, GoneKeeps

(* A request that begins.                                                  *)
LEMMA GoneBegin ==
    ASSUME AccountInv, GoneInv, RowsMove, NEW s \in Slots, NEW kind, NEW pc,
           NEW o, NEW p, NEW i, NEW list, NEW token,
           Begin(s, kind, pc, o, p, i, list, token),
           pc \notin {"generate", "store", "answer"},
           kind = "exchange" => i = 0
    PROVE  GoneInv'
<1>. DEFINE gone == IF kind \in LoginKinds \cup {"refresh"}
                    THEN DOMAIN rows \ Live ELSE {}
            r == [pc |-> pc, kind |-> kind, openid |-> o, phone |-> p,
                  list |-> list, id |-> i, status |-> "waitlisted",
                  bound |-> FALSE, contacts |-> {}, token |-> token,
                  gone |-> gone]
<1>1. req'[s] = r /\ Moves(s)
  BY DEF Begin, Moves, AccountInv, AccountTypeOK
<1>2. r.pc = pc /\ r.kind = kind /\ r.id = i /\ r.gone = gone
  OBVIOUS
<1>. HIDE DEF r
<1>3. 0 \notin Deleted
  BY RowAt DEF Deleted, AccountInv, AccountTypeOK
<1>4. gone \subseteq Deleted /\ (kind \notin TokenKinds => gone = {})
      /\ (kind = "exchange" => i \notin gone)
  BY <1>3 DEF Deleted, TokenKinds
<1>5. GoneOK(req[s])'
  BY <1>1, <1>2, <1>4, DeletedGrows DEF GoneOK
<1>. QED  BY <1>1, <1>5, GoneKeeps

(* A user that has just been inserted was not gone before.                 *)
LEMMA GoneCreate ==
    ASSUME AccountInv, GoneInv, RowsMove, NEW s \in Slots,
           req[s] # None, req[s].kind # "refresh",
           NEW pc \in {"generate", "snap"},
           req' = [req EXCEPT ![s] = [req[s] EXCEPT !.pc = pc,
                                                    !.id = Len(rows) + 1]]
    PROVE  GoneInv'
<1>1. req[s] \in Request /\ GoneOK(req[s])
  BY DEF AccountInv, AccountTypeOK, GoneInv
<1>2. Moves(s) /\ req'[s] = [req[s] EXCEPT !.pc = pc, !.id = Len(rows) + 1]
  BY DEF Moves, AccountInv, AccountTypeOK
<1>3. /\ req'[s].id = Len(rows) + 1 /\ req'[s].kind = req[s].kind
      /\ req'[s].gone = req[s].gone
  BY <1>1, <1>2 DEF Request
<1>4. Len(rows) + 1 \notin Deleted
  BY RowAt DEF Deleted, AccountInv, AccountTypeOK
<1>5. GoneOK(req[s])'
  BY <1>1, <1>3, <1>4, DeletedGrows DEF GoneOK
<1>. QED  BY <1>2, <1>5, GoneKeeps

(* Every step keeps the invariant.                                         *)
LEMMA NextGone ==
    ASSUME AccountInv, GoneInv, [AccountNext]_accountVars
    PROVE  GoneInv'
<1>1. RowsMove
  BY NextKeeps
<1>2. ASSUME UNCHANGED <<rows, req>>
      PROVE  GoneInv'
  BY <1>2 DEF GoneInv, GoneOK, Deleted, Live
<1>3. ASSUME NEW s \in Slots, Serve(s)
      PROVE  GoneInv'
  <2>1. CASE Done(s)
    BY <1>1, <2>1, GoneDone
  <2>2. CASE \/ BeginExchange(s) \/ BeginVerify(s) \/ BeginWaitlist(s)
             \/ BeginRefresh(s) \/ BeginContact(s) \/ BeginDelete(s)
    <3>1. PICK kind, pc, o, p, i, list, token :
             /\ Begin(s, kind, pc, o, p, i, list, token)
             /\ pc \notin {"generate", "store", "answer"}
             /\ kind = "exchange" => i = 0
      BY <2>2 DEF BeginExchange, BeginVerify, BeginWaitlist, BeginRefresh,
                  BeginContact, BeginDelete, ContactKinds
    <3>. QED  BY <1>1, <3>1, GoneBegin
  <2>3. ASSUME req[s] # None,
               NEW pc \in PCs, Goto(s, pc),
               req[s].kind = "refresh" /\ pc \in {"generate", "store", "answer"}
                  => req[s].id \notin req[s].gone
        PROVE  GoneInv'
    BY <1>1, <2>3, GoneGoto
  <2>4. ASSUME req[s] # None, OnlyReads,
               NEW pc \in PCs \ {"generate", "store", "answer"},
               NEW i \in DOMAIN rows, Take(s, i, pc),
               req[s].kind = "exchange" => i \in Live
        PROVE  GoneInv'
    BY <2>4, GoneTake DEF OnlyReads
  <2>5. CASE Lookup(s)
    <3>1. req[s] # None /\ req[s].kind # "refresh" /\ OnlyReads
      BY <2>5 DEF Lookup, At, LoginKinds
    <3>2. \/ \E i \in Live : Take(s, i, "phone") \/ Take(s, i, "bind")
          \/ Goto(s, "phone") \/ Goto(s, "fallback")
      BY <2>5 DEF Lookup, LiveByOpenID
    <3>3. Live \subseteq DOMAIN rows
      BY DEF Live
    <3>. QED  BY <2>3, <2>4, <3>1, <3>2, <3>3 DEF PCs
  <2>6. CASE ExchangePhone(s) \/ VerifyPhone(s) \/ LoginCount(s)
    <3>1. req[s] # None /\ req[s].kind # "refresh"
      BY <2>6 DEF ExchangePhone, VerifyPhone, LoginCount, At, LoginKinds
    <3>2. Done(s) \/ \E pc \in {"count", "bind", "lookup", "create"} : Goto(s, pc)
      BY <2>6 DEF ExchangePhone, VerifyPhone, LoginCount
    <3>. QED  BY <2>1, <2>3, <3>1, <3>2 DEF PCs
  <2>7. CASE VerifyFallback(s) \/ WaitlistLookup(s) \/ ReadUser(s)
    <3>1. req[s] # None /\ req[s].kind \notin {"refresh", "exchange"} /\ OnlyReads
      BY <2>7 DEF VerifyFallback, WaitlistLookup, ReadUser, At, ContactKinds
    <3>2. ReadUser(s) => req[s].id \in DOMAIN rows
      BY KnownRow DEF ReadUser, At, Known, ContactKinds, LoginKinds
    <3>3. \/ Done(s) \/ Goto(s, "count")
          \/ \E i \in DOMAIN rows, pc \in {"bind", "snap", "write"} : Take(s, i, pc)
      BY <2>7, <3>2 DEF VerifyFallback, WaitlistLookup, ReadUser, AnyByPhone,
                        LiveByOpenID, Live
    <3>. QED  BY <2>1, <2>3, <2>4, <3>1, <3>3 DEF PCs
  <2>8. CASE LoginCreate(s) \/ WaitlistCreate(s)
    <3>1. req[s] # None /\ req[s].kind # "refresh"
      BY <2>8 DEF LoginCreate, WaitlistCreate, At, LoginKinds
    <3>2. Done(s) \/ \E pc \in {"generate", "snap"} :
             req' = [req EXCEPT ![s] = [req[s] EXCEPT !.pc = pc,
                                                      !.id = Len(rows) + 1]]
      BY <2>8 DEF LoginCreate, WaitlistCreate
    <3>. QED  BY <1>1, <2>1, <3>1, <3>2, GoneCreate
  <2>9. CASE LoginBind(s)
    <3>1. req[s] # None /\ req[s].kind # "refresh"
          /\ (Done(s) \/ Goto(s, "generate"))
      BY <2>9 DEF LoginBind, At, LoginKinds
    <3>. QED  BY <2>1, <2>3, <3>1 DEF PCs
  <2>10. CASE GenerateTokenPair(s)
    <3>1. req[s] \in Request /\ req[s].pc = "generate" /\ GoneOK(req[s])
      BY <2>10 DEF GenerateTokenPair, At, AccountInv, AccountTypeOK, GoneInv
    <3>2. PICK k : req' = [req EXCEPT ![s] = [req[s] EXCEPT !.pc = "store",
                                                           !.token = k]]
      BY <2>10 DEF GenerateTokenPair
    <3>3. Moves(s) /\ req'[s] = [req[s] EXCEPT !.pc = "store", !.token = k]
      BY <3>2 DEF Moves, AccountInv, AccountTypeOK
    <3>4. /\ req'[s].id = req[s].id /\ req'[s].kind = req[s].kind
          /\ req'[s].gone = req[s].gone
      BY <3>1, <3>3 DEF Request
    <3>5. GoneOK(req[s])'
      BY <1>1, <3>1, <3>4, DeletedGrows DEF GoneOK
    <3>. QED  BY <1>1, <3>3, <3>5, GoneKeeps
  <2>11. CASE SetRefreshToken(s)
    <3>1. req[s] # None /\ Goto(s, "answer") /\ req[s].pc = "store"
          /\ GoneOK(req[s])
      BY <2>11 DEF SetRefreshToken, At, GoneInv
    <3>. QED  BY <2>3, <3>1 DEF GoneOK, PCs
  <2>12. CASE RefreshLookup(s)
    <3>1. req[s] # None /\ GoneOK(req[s])
      BY <2>12 DEF RefreshLookup, At, GoneInv
    <3>2. Done(s) \/ (Goto(s, "generate") /\ req[s].id \in Live)
      BY <2>12 DEF RefreshLookup
    <3>. QED  BY <2>1, <2>3, <3>1, <3>2 DEF GoneOK, Deleted, PCs
  <2>13. CASE ValidateRefreshToken(s) \/ ReadSnapshot(s)
    <3>1. req[s] # None /\ (Done(s) \/ Goto(s, "lookup"))
      BY <2>13 DEF ValidateRefreshToken, ReadSnapshot, At
    <3>. QED  BY <2>1, <2>3, <3>1 DEF PCs
  <2>14. CASE WaitlistCount(s)
    <3>1. req[s] \in Request /\ GoneOK(req[s])
      BY <2>14 DEF WaitlistCount, At, AccountInv, AccountTypeOK, GoneInv
    <3>2. PICK status : req' = [req EXCEPT ![s] =
             [req[s] EXCEPT !.pc = "create", !.status = status]]
      BY <2>14 DEF WaitlistCount
    <3>3. Moves(s)
          /\ req'[s] = [req[s] EXCEPT !.pc = "create", !.status = status]
      BY <3>2 DEF Moves, AccountInv, AccountTypeOK
    <3>4. /\ req'[s].id = req[s].id /\ req'[s].kind = req[s].kind
          /\ req'[s].gone = req[s].gone /\ req'[s].pc = "create"
      BY <3>1, <3>3 DEF Request
    <3>5. GoneOK(req[s])'
      BY <1>1, <3>1, <3>4, DeletedGrows DEF GoneOK
    <3>. QED  BY <1>1, <3>3, <3>5, GoneKeeps
  <2>15. CASE \/ AnswerToken(s) \/ SaveSnapshot(s) \/ WriteContacts(s)
              \/ DeleteUser(s) \/ Abort(s)
    BY <2>1, <2>15 DEF AnswerToken, SaveSnapshot, WriteContacts, DeleteUser,
                       Abort
  <2>. QED  BY <1>3, <2>2, <2>5, <2>6, <2>7, <2>8, <2>9, <2>10, <2>11, <2>12,
                <2>13, <2>14, <2>15 DEF Serve
<1>4. ASSUME NEW o \in OpenIDs, SnapshotExpires(o)
      PROVE  GoneInv'
  BY <1>2, <1>4, SnapshotExpiresKeeps
<1>5. ASSUME UNCHANGED accountVars
      PROVE  GoneInv'
  BY <1>2, <1>5 DEF accountVars
<1>. QED  BY <1>3, <1>4, <1>5 DEF AccountNext

(* However refreshes, logins and DeleteUser interleave,                    *)
(* ValidateRefreshToken and the lookup after it never lead to a token for  *)
(* a user who was deleted before the request began; only                   *)
(* VerifyPhoneCaptcha's lookup by phone can.                               *)
THEOREM RefreshDiesWithUser == AccountSpec => []OnlyCodesRevive
<1>1. AccountInit => GoneInv
  BY DEF AccountInit, GoneInv
<1>2. AccountInv /\ GoneInv /\ [AccountNext]_accountVars => GoneInv'
  BY NextGone
<1>3. AccountInv /\ GoneInv => OnlyCodesRevive
  BY DEF GoneInv, GoneOK, OnlyCodesRevive, TokenKinds, LoginKinds
<1>. QED  BY AccountInvariant, <1>1, <1>2, <1>3, PTL DEF AccountSpec
-----------------------------------------------------------------------------

(* The user has left the waitlist and the onboarding, or the table.        *)
Settled(i) == rows[i].deleted \/ rows[i].status \in {"contact", "active"}

(* Contacts, activation and bonus of one row belong together.              *)
RowOK(i) ==
    /\ rows[i].status = "active" => rows[i].contacts # {}
    /\ rows[i].contacts # {} => rows[i].status = "active" \/ i \in reverted
    /\ rows[i].grants <= 1
    /\ ~rows[i].deleted /\ rows[i].phone # NoPhone => rows[i].grants = 1

(* What is still true of what a contact change has read when it writes.    *)
ListOK(r) ==
    /\ r.kind = "remove" => Cardinality(r.contacts) > 1
    /\ r.contacts # {} => rows[r.id].contacts # {}
    /\ r.contacts = {} => rows[r.id].deleted \/ r.status = "contact"

(* The request has a token, or is about to get one: it began with an       *)
(* access token or a refresh token, or its login has bound its user.       *)
Trusted(r) == \/ r.kind \in ContactKinds \cup {"delete", "refresh"}
              \/ r.pc \in {"generate", "store", "answer"}

(* What is still true of what a request has read, however late it uses it. *)
ReadOK(r) ==
    /\ r.kind \in ContactKinds => r.list # {}
    /\ r.kind \in LoginKinds => r.phone # NoPhone
    /\ Trusted(r) => Settled(r.id)
    /\ r.id # 0 /\ r.status \in {"contact", "active"} => Settled(r.id)
    /\ r.bound => r.id # 0 /\ (rows[r.id].deleted \/ rows[r.id].grants = 1)
    /\ r.kind = "waitlist" /\ r.pc # "snap" => ~r.bound
    /\ r.kind = "waitlist" /\ r.pc = "create"
          => r.status \in {"waitlisted", "onboarding"}
    /\ r.pc = "snap" => Reached(NextStep(r.status, r.bound), r.id)
    /\ r.kind \in ContactKinds /\ r.pc = "write" => ListOK(r)

RowsOK == \A i \in DOMAIN rows : RowOK(i)

HoldersOK == \A i \in IDs : held[i] # {} => Settled(i)

SnapshotsOK ==
    \A o \in OpenIDs :
        snapshot[o] # None =>
            /\ snapshot[o].id \in DOMAIN rows
            /\ Reached(snapshot[o].step, snapshot[o].id)

ReadsOK == \A s \in Slots : req[s] # None => ReadOK(req[s])

(* The inductive invariant of what users are told and are worth.           *)
UserInv == RowsOK /\ HoldersOK /\ SnapshotsOK /\ ReadsOK

(* The ranks of what StepOf says.                                          *)
LEMMA RankOfStep ==
    ASSUME NEW status \in Statuses, NEW b \in BOOLEAN
    PROVE  /\ Rank(NextStep(status, b)) \in 0..3
           /\ status = "waitlisted" => Rank(NextStep(status, b)) = 0
           /\ status \in {"onboarding", "contact"}
                 => Rank(NextStep(status, b)) = IF b THEN 2 ELSE 1
           /\ status = "active" => Rank(NextStep(status, b)) = 3
BY DEF Rank, NextStep, Statuses

(* The same of a row of the table.                                         *)
LEMMA RankOfRow ==
    ASSUME NEW row \in Row
    PROVE  /\ Rank(StepOf(row)) \in 0..3
           /\ row.status = "waitlisted" => Rank(StepOf(row)) = 0
           /\ row.status \in {"onboarding", "contact"}
                 => Rank(StepOf(row)) = IF row.phone # NoPhone THEN 2 ELSE 1
           /\ row.status = "active" => Rank(StepOf(row)) = 3
<1>1. row.status \in Statuses /\ (row.phone # NoPhone) \in BOOLEAN
  BY DEF Row
<1>. QED  BY <1>1, RankOfStep DEF StepOf

(* The ranks of the steps a snapshot can have.                             *)
LEMMA RankOfSnapshot ==
    ASSUME NEW step \in Steps
    PROVE  Rank(step) \in 0..3
BY DEF Rank, Steps

(* What a user has got and where he has come to, no step takes away - but  *)
(* for the logins that throw an active user back.                          *)
Advances(i) ==
    /\ rows[i].deleted => rows'[i].deleted
    /\ rows[i].contacts # {} => rows'[i].contacts # {}
    /\ rows[i].grants = 1 => rows'[i].grants = 1
    /\ Settled(i) => Settled(i)'
    /\ \/ Rank(StepOf(rows[i])) <= Rank(StepOf(rows'[i]))
       \/ i \in reverted'

Progress ==
    /\ DOMAIN rows \subseteq DOMAIN rows'
    /\ reverted \subseteq reverted'
    /\ \A i \in DOMAIN rows : Advances(i)

(* So whoever has reached a step has reached it for good.                  *)
LEMMA ReachedStays ==
    ASSUME AccountInv, AccountInv', Progress, NEW i \in DOMAIN rows,
           NEW step, Rank(step) \in 0..3, Reached(step, i)
    PROVE  Reached(step, i)'
<1>1. rows[i] \in Row /\ rows'[i] \in Row
  <2>1. rows[i] \in Row
    BY RowAt DEF AccountInv, AccountTypeOK
  <2>2. rows' \in Seq(Row) /\ i \in DOMAIN rows'
    BY DEF AccountInv, AccountTypeOK, Progress
  <2>3. rows'[i] \in Row
    BY <2>2, LenProperties, ElementOfSeq
  <2>. QED  BY <2>1, <2>3
<1>2. Rank(StepOf(rows[i])) \in Nat /\ Rank(StepOf(rows'[i])) \in Nat
  BY <1>1, RankOfRow
<1>3. Advances(i) /\ reverted \subseteq reverted'
  BY DEF Progress
<1>. QED  BY <1>2, <1>3 DEF Reached, Advances

(* The requests that are sure of their row.                                *)
LEMMA TrustedRow ==
    ASSUME AccountInv, NEW s \in Slots, req[s] # None
    PROVE  /\ req[s] \in Request
           /\ req[s].id # 0 => req[s].id \in DOMAIN rows
           /\ Trusted(req[s]) \/ Known(req[s]) => req[s].id \in DOMAIN rows
<1>1. /\ req[s] \in Request /\ RequestOK(req[s])
      /\ req[s].id \in 0..Len(rows)
  BY DEF AccountInv, AccountTypeOK, RequestsOK
<1>2. req[s].id # 0 => req[s].id \in DOMAIN rows
  BY <1>1, RowAt DEF AccountInv, AccountTypeOK
<1>3. Trusted(req[s]) => Known(req[s])
  BY DEF Trusted, Known, ContactKinds, LoginKinds
<1>. QED  BY <1>1, <1>2, <1>3 DEF RequestOK

(* What a request has read stays as true as it was while others move.      *)
LEMMA ReadStays ==
    ASSUME AccountInv, AccountInv', Progress, NEW s \in Slots,
           req[s] # None, req'[s] = req[s], ReadOK(req[s])
    PROVE  ReadOK(req[s])'
<1>. DEFINE r == req[s]
<1>1. /\ r \in Request
      /\ r.id # 0 => r.id \in DOMAIN rows
      /\ Trusted(r) \/ Known(r) => r.id \in DOMAIN rows
  BY TrustedRow
<1>2. \A i \in DOMAIN rows : Advances(i)
  BY DEF Progress
<1>3. Trusted(r) => Settled(r.id)'
  BY <1>1, <1>2 DEF Advances, ReadOK
<1>4. r.id # 0 /\ r.status \in {"contact", "active"} => Settled(r.id)'
  BY <1>1, <1>2 DEF Advances, ReadOK
<1>5. r.bound => r.id # 0 /\ (rows'[r.id].deleted \/ rows'[r.id].grants = 1)
  BY <1>1, <1>2 DEF Advances, ReadOK
<1>6. r.pc = "snap" => Reached(NextStep(r.status, r.bound), r.id)'
  <2>1. Rank(NextStep(r.status, r.bound)) \in 0..3
    BY <1>1, RankOfStep DEF Request
  <2>2. r.pc = "snap" => r.id \in DOMAIN rows
    BY <1>1 DEF Known
  <2>. QED  BY <2>1, <2>2, ReachedStays DEF ReadOK
<1>7. r.kind \in ContactKinds /\ r.pc = "write" => ListOK(r)'
  BY <1>1, <1>2 DEF Advances, ReadOK, ListOK, Trusted
<1>. QED  BY <1>3, <1>4, <1>5, <1>6, <1>7 DEF ReadOK, Trusted, ListOK, Settled, Reached

(* A step that leaves its own request and the table in order, and tells    *)
(* clients nothing but the truth, leaves all in order.                     *)
LEMMA UserKeeps ==
    ASSUME AccountInv, AccountInv', UserInv, Progress, RowsOK',
           NEW s \in Slots, Moves(s), req'[s] = None \/ ReadOK(req[s])',
           held' = held \/ HoldersOK', snapshot' = snapshot \/ SnapshotsOK'
    PROVE  UserInv'
<1>1. HoldersOK'
  <2>1. ASSUME held' = held, NEW i \in IDs, held[i] # {}
        PROVE  Settled(i)'
    <3>1. i \in DOMAIN rows
      BY <2>1, RowAt, AccountAssumption
         DEF AccountInv, AccountTypeOK, HoldersExist, IDs
    <3>2. Settled(i) /\ Advances(i)
      BY <2>1, <3>1 DEF UserInv, HoldersOK, Progress
    <3>. QED  BY <3>2 DEF Advances
  <2>. QED  BY <2>1 DEF HoldersOK
<1>2. SnapshotsOK'
  <2>1. ASSUME snapshot' = snapshot, NEW o \in OpenIDs, snapshot[o] # None
        PROVE  /\ snapshot[o].id \in DOMAIN rows'
               /\ Reached(snapshot[o].step, snapshot[o].id)'
    <3>1. /\ snapshot[o].id \in DOMAIN rows
          /\ Reached(snapshot[o].step, snapshot[o].id)
          /\ DOMAIN rows \subseteq DOMAIN rows'
      BY <2>1 DEF UserInv, SnapshotsOK, Progress
    <3>2. snapshot[o].step \in Steps
      BY <2>1 DEF AccountInv, AccountTypeOK, Snapshot
    <3>3. Rank(snapshot[o].step) \in 0..3
      BY <3>2, RankOfSnapshot
    <3>4. Reached(snapshot[o].step, snapshot[o].id)'
      BY <2>1, <3>1, <3>3, ReachedStays DEF Reached
    <3>. QED  BY <3>1, <3>4
  <2>. QED  BY <2>1 DEF SnapshotsOK, Reached
<1>3. ReadsOK'
  <2>1. ASSUME NEW t \in Slots, t # s, req'[t] # None
        PROVE  ReadOK(req[t])'
    BY <2>1, ReadStays DEF Moves, UserInv, ReadsOK
  <2>. QED  BY <2>1 DEF ReadsOK
<1>. QED  BY <1>1, <1>2, <1>3 DEF UserInv

(* A step that does not touch the table.                                   *)
LEMMA TableRests ==
    ASSUME AccountInv, RowsOK, UNCHANGED <<rows, reverted>>
    PROVE  Progress /\ RowsOK'
<1>1. \A i \in DOMAIN rows : rows[i] \in Row
  BY RowAt DEF AccountInv, AccountTypeOK
<1>2. \A i \in DOMAIN rows : Rank(StepOf(rows[i])) <= Rank(StepOf(rows'[i]))
  BY <1>1, RankOfRow
<1>. QED  BY <1>2 DEF Progress, Advances, Settled, RowsOK, RowOK

(* A step that writes a row: the new row is in order, and not behind the   *)
(* old one.                                                                *)
LEMMA RowAdvances ==
    ASSUME AccountInv, RowsOK, NEW i \in DOMAIN rows, NEW row \in Row,
           rows' = [rows EXCEPT ![i] = row], reverted \subseteq reverted',
           rows[i].deleted => row.deleted,
           rows[i].contacts # {} => row.contacts # {},
           rows[i].grants = 1 => row.grants = 1,
           Settled(i) => row.deleted \/ row.status \in {"contact", "active"},
           \/ Rank(StepOf(rows[i])) <= Rank(StepOf(row))
           \/ i \in reverted',
           row.status = "active" => row.contacts # {},
           row.contacts # {} => row.status = "active" \/ i \in reverted',
           row.grants <= 1,
           ~row.deleted /\ row.phone # NoPhone => row.grants = 1
    PROVE  Progress /\ RowsOK'
<1>1. /\ rows \in Seq(Row)
      /\ \A j \in DOMAIN rows : rows[j] \in Row
  BY RowAt DEF AccountInv, AccountTypeOK
<1>2. /\ DOMAIN rows' = DOMAIN rows /\ rows'[i] = row
      /\ \A j \in DOMAIN rows \ {i} : rows'[j] = rows[j]
  BY <1>1
<1>3. Advances(i) /\ RowOK(i)'
  BY <1>2 DEF Advances, Settled, RowOK
<1>4. ASSUME NEW j \in DOMAIN rows, j # i
      PROVE  Advances(j) /\ RowOK(j)'
  <2>1. rows'[j] = rows[j] /\ RowOK(j)
    BY <1>2, <1>4 DEF RowsOK
  <2>2. Rank(StepOf(rows[j])) <= Rank(StepOf(rows'[j]))
    BY <1>1, <2>1, RankOfRow
  <2>. QED  BY <2>1, <2>2 DEF Advances, Settled, RowOK
<1>. QED  BY <1>2, <1>3, <1>4 DEF Progress, RowsOK

(* A step that adds a row.                                                 *)
LEMMA RowAdded ==
    ASSUME AccountInv, RowsOK, NEW row \in Row, Adds(row),
           reverted \subseteq reverted', row.contacts = {},
           row.status # "active", row.grants <= 1,
           row.phone # NoPhone => row.grants = 1
    PROVE  Progress /\ RowsOK' /\ rows'[Len(rows) + 1] = row
           /\ Len(rows) + 1 \in DOMAIN rows'
<1>1. /\ rows \in Seq(Row) /\ Len(rows) \in Nat /\ DOMAIN rows = 1..Len(rows)
      /\ \A j \in DOMAIN rows : rows[j] \in Row
  BY RowAt DEF AccountInv, AccountTypeOK
<1>0. PICK n : n = Len(rows) + 1
  OBVIOUS
<1>2. /\ DOMAIN rows' = 1..n /\ rows'[n] = row
      /\ \A j \in DOMAIN rows : rows'[j] = rows[j]
  BY <1>0, <1>1, AppendProperties DEF Adds
<1>3. \A j \in DOMAIN rows' : j = n \/ j \in DOMAIN rows
  BY <1>0, <1>1, <1>2
<1>4. n \in DOMAIN rows' /\ DOMAIN rows \subseteq DOMAIN rows'
  BY <1>0, <1>1, <1>2
<1>5. RowOK(n)'
  BY <1>2 DEF RowOK
<1>6. ASSUME NEW j \in DOMAIN rows
      PROVE  Advances(j) /\ RowOK(j)'
  <2>1. rows'[j] = rows[j] /\ RowOK(j)
    BY <1>2, <1>6 DEF RowsOK
  <2>2. Rank(StepOf(rows[j])) <= Rank(StepOf(rows'[j]))
    BY <1>1, <2>1, RankOfRow
  <2>. QED  BY <2>1, <2>2 DEF Advances, Settled, RowOK
<1>7. Progress /\ RowsOK'
  BY <1>3, <1>4, <1>5, <1>6 DEF Progress, RowsOK
<1>8. rows'[n] = row /\ n \in DOMAIN rows'
  BY <1>2, <1>4
<1>. QED  BY <1>0, <1>7, <1>8

(* A request that is answered.                                             *)
LEMMA UserDone ==
    ASSUME AccountInv, AccountInv', UserInv, Progress, RowsOK',
           NEW s \in Slots, Done(s),
           held' = held \/ HoldersOK', snapshot' = snapshot \/ SnapshotsOK'
    PROVE  UserInv'
<1>1. Moves(s) /\ req'[s] = None
  BY DEF Done, Moves, AccountInv, AccountTypeOK
<1>. QED  BY <1>1, UserKeeps

(* A request that goes on with the same row; to the tokens, if its user is *)
(* settled.                                                                *)
LEMMA UserGoto ==
    ASSUME AccountInv, AccountInv', UserInv, Progress, RowsOK',
           NEW s \in Slots, req[s] # None, UNCHANGED <<held, snapshot>>,
           NEW pc \in PCs \ {"snap", "write"}, Goto(s, pc),
           pc = "create" => req[s].kind # "waitlist",
           req[s].pc # "snap",
           pc \in {"generate", "store", "answer"} => Settled(req[s].id)'
    PROVE  UserInv'
<1>1. RequestType /\ ReadOK(req[s])
  BY DEF AccountInv, AccountTypeOK, RequestType, UserInv, ReadsOK
<1>2. /\ req[s] \in Request
      /\ req[s].id # 0 => req[s].id \in DOMAIN rows
      /\ Trusted(req[s]) => req[s].id \in DOMAIN rows
  BY TrustedRow
<1>3. Moves(s) /\ req'[s] = [req[s] EXCEPT !.pc = pc]
  BY <1>1, GotoTyped DEF Moves
<1>4. /\ req'[s].pc = pc /\ req'[s].id = req[s].id
      /\ req'[s].kind = req[s].kind /\ req'[s].list = req[s].list
      /\ req'[s].phone = req[s].phone
      /\ req'[s].status = req[s].status /\ req'[s].bound = req[s].bound
  BY <1>2, <1>3 DEF Request
<1>5. req[s].id # 0 => Advances(req[s].id)
  BY <1>2 DEF Progress
<1>6. Trusted(req[s])' => Settled(req[s].id)'
  <2>1. CASE pc \in {"generate", "store", "answer"}
    BY <2>1
  <2>2. CASE pc \notin {"generate", "store", "answer"}
    <3>1. Trusted(req[s])' => Trusted(req[s])
      BY <1>4, <2>2 DEF Trusted
    <3>2. Trusted(req[s]) => Settled(req[s].id) /\ Advances(req[s].id)
      BY <1>1, <1>2 DEF ReadOK, Progress
    <3>. QED  BY <1>4, <3>1, <3>2 DEF Advances, Settled
  <2>. QED  BY <2>1, <2>2
<1>7. req'[s].id # 0 /\ req'[s].status \in {"contact", "active"}
        => Settled(req[s].id)'
  BY <1>1, <1>4, <1>5 DEF ReadOK, Advances, Settled
<1>8. req'[s].bound
        => req'[s].id # 0 /\ (rows'[req'[s].id].deleted \/ rows'[req'[s].id].grants = 1)
  BY <1>1, <1>4, <1>5 DEF ReadOK, Advances
<1>9. req'[s].kind = "waitlist" /\ req'[s].pc # "snap" => ~req'[s].bound
  BY <1>1, <1>4 DEF ReadOK
<1>10. ReadOK(req[s])'
  BY <1>1, <1>4, <1>6, <1>7, <1>8, <1>9 DEF ReadOK
<1>. QED  BY <1>3, <1>10, UserKeeps

(* A request that goes on with a row it reads now.                         *)
LEMMA UserTake ==
    ASSUME AccountInv, AccountInv', UserInv,
           UNCHANGED <<rows, reverted, held, snapshot>>,
           NEW s \in Slots, req[s] # None, NEW i \in DOMAIN rows,
           NEW pc \in PCs \ {"create", "generate", "store", "answer"},
           Take(s, i, pc),
           req[s].kind = "waitlist" => pc = "snap",
           req[s].kind \in ContactKinds \cup {"delete", "refresh"}
              => i = req[s].id,
           req[s].kind = "remove" => Cardinality(rows[i].contacts) > 1
    PROVE  UserInv'
<1>1. /\ RequestType /\ rows \in Seq(Row) /\ Len(rows) <= MaxRows
      /\ ReadOK(req[s]) /\ RowOK(i)
  BY DEF AccountInv, AccountTypeOK, RequestType, UserInv, ReadsOK, RowsOK
<1>2. rows[i] \in Row /\ i # 0 /\ i \in IDs
  BY <1>1, RowAt
<1>3. /\ Moves(s) /\ req'[s].id = i /\ req'[s].pc = pc
      /\ req'[s].kind = req[s].kind
  BY <1>1, TakeTyped DEF Moves
<1>4. /\ req'[s].list = req[s].list /\ req'[s].phone = req[s].phone
      /\ req'[s].status = rows[i].status
      /\ req'[s].bound = (rows[i].phone # NoPhone)
      /\ req'[s].contacts = rows[i].contacts
  BY <1>1 DEF Take, RequestType, Request
<1>5. Trusted(req[s])' => Settled(i)
  BY <1>1, <1>3 DEF Trusted, ReadOK
<1>6. Reached(NextStep(rows[i].status, rows[i].phone # NoPhone), i)'
  BY <1>2, RankOfRow DEF Reached, StepOf
<1>7. req[s].kind \in ContactKinds => ListOK(req[s])'
  <2>1. req[s].kind \in ContactKinds => Settled(i)
    BY <1>1 DEF ReadOK, Trusted
  <2>. QED  BY <1>1, <1>3, <1>4, <2>1 DEF ListOK, Settled, RowOK
<1>8. ReadOK(req[s])'
  <2>1. Trusted(req[s])' => Settled(req[s].id)'
    BY <1>3, <1>5 DEF Settled
  <2>2. req'[s].status \in {"contact", "active"} => Settled(req[s].id)'
    BY <1>3, <1>4 DEF Settled
  <2>3. req'[s].bound => rows'[i].deleted \/ rows'[i].grants = 1
    BY <1>1, <1>4 DEF RowOK
  <2>4. req'[s].pc = "snap"
          => Reached(NextStep(req[s].status, req[s].bound), req[s].id)'
    BY <1>3, <1>4, <1>6 DEF Reached
  <2>. QED  BY <1>1, <1>2, <1>3, <1>4, <1>7, <2>1, <2>2, <2>3, <2>4 DEF ReadOK
<1>9. Progress /\ RowsOK'
  BY TableRests DEF UserInv
<1>. QED  BY <1>3, <1>8, <1>9, UserKeeps

(* A request that begins: with an open id, or with a user who has been     *)
(* answered with a token.                                                  *)
LEMMA UserBegin ==
    ASSUME AccountInv, AccountInv', UserInv, NEW s \in Slots,
           NEW kind, NEW pc \in {"cache", "phone", "lookup", "check", "read"},
           NEW o, NEW p, NEW i, NEW list, NEW token,
           Begin(s, kind, pc, o, p, i, list, token),
           kind \in ContactKinds => list # {},
           kind \in LoginKinds => p # NoPhone,
           kind \in ContactKinds \cup {"delete", "refresh"} => Settled(i)
    PROVE  UserInv'
<1>. DEFINE gone == IF kind \in LoginKinds \cup {"refresh"}
                    THEN DOMAIN rows \ Live ELSE {}
            r == [pc |-> pc, kind |-> kind, openid |-> o, phone |-> p,
                  list |-> list, id |-> i, status |-> "waitlisted",
                  bound |-> FALSE, contacts |-> {}, token |-> token,
                  gone |-> gone]
<1>1. req'[s] = r /\ Moves(s)
  BY DEF Begin, Moves, AccountInv, AccountTypeOK
<1>2. /\ r.pc = pc /\ r.kind = kind /\ r.id = i /\ r.list = list
      /\ r.phone = p
      /\ r.status = "waitlisted" /\ r.bound = FALSE
  OBVIOUS
<1>. HIDE DEF r
<1>3. UNCHANGED <<rows, reverted, held, snapshot>>
  BY DEF Begin, tokenVars, ghostVars
<1>4. Trusted(req[s])' => Settled(req[s].id)'
  BY <1>1, <1>2, <1>3 DEF Trusted, Settled
<1>5. ReadOK(req[s])'
  BY <1>1, <1>2, <1>4 DEF ReadOK
<1>6. Progress /\ RowsOK'
  BY <1>3, TableRests DEF UserInv
<1>. QED  BY <1>1, <1>3, <1>5, <1>6, UserKeeps

(* The steps that only read, and the answers without a write.              *)
LEMMA ReadsKeepUser ==
    ASSUME AccountInv, AccountInv', UserInv, NEW s \in Slots,
           \/ Lookup(s) \/ ExchangePhone(s) \/ VerifyPhone(s)
           \/ VerifyFallback(s) \/ LoginCount(s)
           \/ ValidateRefreshToken(s) \/ RefreshLookup(s)
           \/ ReadSnapshot(s) \/ WaitlistLookup(s)
           \/ ReadUser(s) \/ Abort(s)
    PROVE  UserInv'
<1>1. OnlyReads /\ req[s] # None
  BY DEF Lookup, ExchangePhone, VerifyPhone, VerifyFallback, LoginCount,
         ValidateRefreshToken, RefreshLookup, ReadSnapshot, WaitlistLookup,
         ReadUser, Abort, At
<1>2. UNCHANGED <<rows, reverted, held, snapshot>>
  BY <1>1 DEF OnlyReads, tokenVars, ghostVars
<1>3. Progress /\ RowsOK'
  BY <1>2, TableRests DEF UserInv
<1>4. ASSUME Done(s)
      PROVE  UserInv'
  BY <1>2, <1>3, <1>4, UserDone
<1>5. ASSUME req[s].pc # "snap",
             NEW pc \in {"phone", "lookup", "fallback", "count", "bind"},
             Goto(s, pc)
      PROVE  UserInv'
  BY <1>1, <1>2, <1>3, <1>5, UserGoto DEF PCs
<1>6. ASSUME NEW i \in DOMAIN rows, NEW pc \in {"phone", "bind", "snap", "write"},
             Take(s, i, pc),
             req[s].kind = "waitlist" => pc = "snap",
             req[s].kind \in ContactKinds \cup {"delete", "refresh"}
                => i = req[s].id,
             req[s].kind = "remove" => Cardinality(rows[i].contacts) > 1
      PROVE  UserInv'
  BY <1>1, <1>2, <1>6, UserTake DEF PCs
<1>7. Live \subseteq DOMAIN rows
  BY DEF Live
<1>8. CASE Lookup(s)
  <2>1. req[s].kind \in LoginKinds /\ req[s].pc = "lookup"
    BY <1>8 DEF Lookup, At
  <2>2. \/ \E i \in Live : Take(s, i, "phone") \/ Take(s, i, "bind")
        \/ Goto(s, "phone") \/ Goto(s, "fallback")
    BY <1>8 DEF Lookup, LiveByOpenID
  <2>. QED  BY <1>5, <1>6, <1>7, <2>1, <2>2 DEF LoginKinds, ContactKinds
<1>9. CASE \/ ExchangePhone(s) \/ VerifyPhone(s) \/ ValidateRefreshToken(s)
           \/ ReadSnapshot(s)
  <2>1. req[s].pc # "snap"
    BY <1>9 DEF ExchangePhone, VerifyPhone, ValidateRefreshToken,
                ReadSnapshot, At
  <2>2. Done(s) \/ \E pc \in {"count", "bind", "lookup"} : Goto(s, pc)
    BY <1>9 DEF ExchangePhone, VerifyPhone, ValidateRefreshToken, ReadSnapshot
  <2>. QED  BY <1>4, <1>5, <2>1, <2>2
<1>10. CASE VerifyFallback(s)
  <2>1. req[s].kind = "verify" /\ req[s].pc = "fallback"
    BY <1>10 DEF VerifyFallback, At
  <2>2. Goto(s, "count") \/ \E i \in DOMAIN rows : Take(s, i, "bind")
    BY <1>10 DEF VerifyFallback, AnyByPhone
  <2>. QED  BY <1>5, <1>6, <2>1, <2>2 DEF ContactKinds
<1>11. CASE LoginCount(s)
  <2>1. req[s].kind \in LoginKinds /\ req[s].pc = "count"
    BY <1>11 DEF LoginCount, At
  <2>2. CASE Goto(s, "create")
    BY <1>1, <1>2, <1>3, <2>1, <2>2, UserGoto DEF PCs, LoginKinds
  <2>. QED  BY <1>4, <1>11, <2>2 DEF LoginCount
<1>12. CASE RefreshLookup(s)
  <2>1. req[s].kind = "refresh" /\ req[s].pc = "lookup"
    BY <1>12 DEF RefreshLookup, At
  <2>2. CASE Goto(s, "generate")
    <3>1. Settled(req[s].id)
      BY <1>1, <2>1 DEF UserInv, ReadsOK, ReadOK, Trusted
    <3>2. req'[s].id = req[s].id
      BY <1>1, <2>2, GotoTyped
         DEF AccountInv, AccountTypeOK, RequestType, PCs
    <3>3. Settled(req[s].id)'
      BY <1>2, <3>1, <3>2 DEF Settled
    <3>. QED  BY <1>1, <1>2, <1>3, <2>1, <2>2, <3>3, UserGoto DEF PCs
  <2>. QED  BY <1>4, <1>12, <2>2 DEF RefreshLookup
<1>13. CASE WaitlistLookup(s)
  <2>1. req[s].kind = "waitlist" /\ req[s].pc = "lookup"
    BY <1>13 DEF WaitlistLookup, At
  <2>2. Goto(s, "count") \/ \E i \in Live : Take(s, i, "snap")
    BY <1>13 DEF WaitlistLookup, LiveByOpenID
  <2>. QED  BY <1>5, <1>6, <1>7, <2>1, <2>2 DEF ContactKinds
<1>14. CASE ReadUser(s)
  <2>1. req[s].kind \in ContactKinds \cup {"delete"}
    BY <1>14 DEF ReadUser, At
  <2>2. req[s].id \in DOMAIN rows
    BY <1>1, <2>1, TrustedRow DEF Trusted
  <2>3. CASE Take(s, req[s].id, "write") /\ ListAllows(s, rows[req[s].id].contacts)
    <3>1. req[s].kind = "remove" => Cardinality(rows[req[s].id].contacts) > 1
      BY <2>3 DEF ListAllows
    <3>. QED  BY <1>6, <2>1, <2>2, <2>3, <3>1 DEF ContactKinds
  <2>. QED  BY <1>4, <1>14, <2>3 DEF ReadUser
<1>15. CASE Abort(s)
  BY <1>4, <1>15 DEF Abort
<1>. QED  BY <1>8, <1>9, <1>10, <1>11, <1>12, <1>13, <1>14, <1>15

(* Whoever begins with a token is settled.                                 *)
LEMMA BeginsKeepUser ==
    ASSUME AccountInv, AccountInv', UserInv, NEW s \in Slots,
           \/ BeginExchange(s) \/ BeginVerify(s) \/ BeginWaitlist(s)
           \/ BeginRefresh(s) \/ BeginContact(s) \/ BeginDelete(s)
    PROVE  UserInv'
<1>1. \A i \in SignedIn : Settled(i)
  BY DEF SignedIn, UserInv, HoldersOK
<1>2. (\A list \in Lists : list # {}) /\ NoPhone \notin Phones
  BY AccountAssumption
<1>3. PICK kind, pc, o, p, i, list, token :
         /\ Begin(s, kind, pc, o, p, i, list, token)
         /\ pc \in {"cache", "phone", "lookup", "check", "read"}
         /\ kind \in ContactKinds => list # {}
         /\ kind \in LoginKinds => p # NoPhone
         /\ kind \in ContactKinds \cup {"delete", "refresh"} => Settled(i)
  BY <1>1, <1>2 DEF BeginExchange, BeginVerify, BeginWaitlist, BeginRefresh,
                    BeginContact, BeginDelete, ContactKinds, LoginKinds
<1>. QED  BY <1>3, UserBegin

(* The count of the waitlist decides how a newcomer starts.                *)
LEMMA WaitlistCountKeepsUser ==
    ASSUME AccountInv, AccountInv', UserInv, NEW s \in Slots,
           WaitlistCount(s)
    PROVE  UserInv'
<1>1. /\ req[s] \in Request /\ ReadOK(req[s])
      /\ req[s].kind = "waitlist" /\ req[s].pc = "count"
  BY DEF WaitlistCount, At, AccountInv, AccountTypeOK, UserInv, ReadsOK
<1>2. UNCHANGED <<rows, reverted, held, snapshot>>
  BY DEF WaitlistCount, OnlyReads, tokenVars, ghostVars
<1>3. PICK status \in {"waitlisted", "onboarding"} :
         req' = [req EXCEPT ![s] = [req[s] EXCEPT !.pc = "create",
                                                  !.status = status]]
  BY DEF WaitlistCount
<1>4. /\ Moves(s)
      /\ req'[s] = [req[s] EXCEPT !.pc = "create", !.status = status]
  BY <1>3 DEF Moves, AccountInv, AccountTypeOK
<1>5. /\ req'[s].pc = "create" /\ req'[s].kind = "waitlist"
      /\ req'[s].status = status /\ req'[s].bound = req[s].bound
  BY <1>1, <1>4 DEF Request
<1>6. ReadOK(req[s])'
  BY <1>1, <1>5 DEF ReadOK, Trusted, ContactKinds, LoginKinds
<1>7. Progress /\ RowsOK'
  BY <1>2, TableRests DEF UserInv
<1>. QED  BY <1>2, <1>4, <1>6, <1>7, UserKeeps

(* Generating, storing and answering a token touch neither the table nor   *)
(* the snapshots; the answer goes to a user who is settled.                *)
LEMMA TokensKeepUser ==
    ASSUME AccountInv, AccountInv', UserInv, NEW s \in Slots,
           GenerateTokenPair(s) \/ SetRefreshToken(s) \/ AnswerToken(s)
    PROVE  UserInv'
<1>1. /\ req[s] # None /\ req[s] \in Request /\ ReadOK(req[s])
      /\ req[s].kind \in TokenKinds
      /\ req[s].pc \in {"generate", "store", "answer"}
  BY DEF GenerateTokenPair, SetRefreshToken, AnswerToken, At, AccountInv,
         AccountTypeOK, UserInv, ReadsOK
<1>2. Settled(req[s].id) /\ req[s].id \in DOMAIN rows
  BY <1>1, TrustedRow DEF ReadOK, Trusted
<1>3. UNCHANGED <<rows, reverted, snapshot>>
  BY DEF GenerateTokenPair, SetRefreshToken, AnswerToken, ghostVars
<1>4. Progress /\ RowsOK'
  BY <1>3, TableRests DEF UserInv
<1>5. CASE GenerateTokenPair(s)
  <2>1. PICK k : req' = [req EXCEPT ![s] = [req[s] EXCEPT !.pc = "store",
                                                         !.token = k]]
    BY <1>5 DEF GenerateTokenPair
  <2>2. /\ Moves(s)
        /\ req'[s] = [req[s] EXCEPT !.pc = "store", !.token = k]
    BY <2>1 DEF Moves, AccountInv, AccountTypeOK
  <2>3. /\ req'[s].pc = "store" /\ req'[s].kind = req[s].kind
        /\ req'[s].id = req[s].id /\ req'[s].status = req[s].status
        /\ req'[s].bound = req[s].bound /\ req'[s].list = req[s].list
        /\ req'[s].phone = req[s].phone
    BY <1>1, <2>2 DEF Request
  <2>4. ReadOK(req[s])'
    BY <1>1, <1>2, <1>3, <2>3
       DEF ReadOK, Settled, TokenKinds, LoginKinds, ContactKinds
  <2>. QED  BY <1>3, <1>4, <1>5, <2>2, <2>4, UserKeeps DEF GenerateTokenPair
<1>6. CASE SetRefreshToken(s)
  <2>1. Goto(s, "answer") /\ held' = held /\ req[s].pc = "store"
    BY <1>6 DEF SetRefreshToken, At
  <2>2. req'[s].id = req[s].id
    BY <1>1, <2>1, GotoTyped DEF AccountInv, AccountTypeOK, RequestType, PCs
  <2>3. Settled(req[s].id)'
    BY <1>2, <1>3, <2>2 DEF Settled
  <2>. QED  BY <1>1, <1>3, <1>4, <2>1, <2>3, UserGoto DEF PCs
<1>7. CASE AnswerToken(s)
  <2>1. Done(s) /\ held' = [held EXCEPT ![req[s].id] = @ \cup {req[s].token}]
    BY <1>7 DEF AnswerToken
  <2>2. HoldersOK'
    <3>1. ASSUME NEW i \in IDs, held'[i] # {}
          PROVE  Settled(i)'
      <4>1. i = req[s].id \/ held[i] # {}
        BY <2>1, <3>1 DEF AccountInv, AccountTypeOK
      <4>2. Settled(i)
        BY <1>2, <4>1 DEF UserInv, HoldersOK
      <4>. QED  BY <1>3, <4>2 DEF Settled
    <3>. QED  BY <3>1 DEF HoldersOK
  <2>. QED  BY <1>3, <1>4, <2>1, <2>2, UserDone
<1>. QED  BY <1>5, <1>6, <1>7

(* A snapshot is saved of what was read, which the user is not behind.     *)
LEMMA SaveSnapshotKeepsUser ==
    ASSUME AccountInv, AccountInv', UserInv, NEW s \in Slots,
           SaveSnapshot(s)
    PROVE  UserInv'
<1>1. /\ req[s] # None /\ req[s] \in Request /\ ReadOK(req[s])
      /\ req[s].kind = "waitlist" /\ req[s].pc = "snap"
  BY DEF SaveSnapshot, At, AccountInv, AccountTypeOK, UserInv, ReadsOK
<1>2. req[s].id \in DOMAIN rows
  BY <1>1, TrustedRow DEF Known
<1>3. UNCHANGED <<rows, reverted, held>> /\ Done(s)
  BY DEF SaveSnapshot, tokenVars, ghostVars
<1>4. Progress /\ RowsOK'
  BY <1>3, TableRests DEF UserInv
<1>5. ASSUME snapshot' = [snapshot EXCEPT ![req[s].openid] = SnapshotOf(s)]
      PROVE  SnapshotsOK'
  <2>1. ASSUME NEW o \in OpenIDs, snapshot'[o] # None
        PROVE  /\ snapshot'[o].id \in DOMAIN rows
               /\ Reached(snapshot'[o].step, snapshot'[o].id)
    <3>1. CASE o = req[s].openid
      <4>1. snapshot'[o] = SnapshotOf(s)
        BY <1>5, <3>1 DEF AccountInv, AccountTypeOK
      <4>. QED  BY <1>1, <1>2, <4>1 DEF SnapshotOf, ReadOK
    <3>2. CASE o # req[s].openid
      <4>1. snapshot'[o] = snapshot[o]
        BY <1>5, <3>2 DEF AccountInv, AccountTypeOK
      <4>. QED  BY <2>1, <4>1 DEF UserInv, SnapshotsOK
    <3>. QED  BY <3>1, <3>2
  <2>. QED  BY <1>3, <2>1 DEF SnapshotsOK, Reached
<1>6. snapshot' = snapshot \/ SnapshotsOK'
  BY <1>5 DEF SaveSnapshot
<1>. QED  BY <1>3, <1>4, <1>6, UserDone

(* A snapshot that is gone is ahead of nobody.                             *)
LEMMA SnapshotExpiresKeepsUser ==
    ASSUME AccountInv, UserInv, NEW o \in OpenIDs, SnapshotExpires(o)
    PROVE  UserInv'
<1>1. UNCHANGED <<rows, held, req, reverted>>
      /\ snapshot' = [snapshot EXCEPT ![o] = None]
  BY DEF SnapshotExpires, tokenVars, ghostVars
<1>2. \A p \in OpenIDs : snapshot'[p] # None => snapshot'[p] = snapshot[p]
  BY <1>1 DEF AccountInv, AccountTypeOK
<1>3. SnapshotsOK'
  BY <1>1, <1>2 DEF UserInv, SnapshotsOK, Reached
<1>4. RowsOK' /\ HoldersOK' /\ ReadsOK'
  BY <1>1 DEF UserInv, RowsOK, RowOK, HoldersOK, Settled, ReadsOK, ReadOK,
              Trusted, ListOK, Reached
<1>. QED  BY <1>3, <1>4 DEF UserInv

(* The insert of a login: the new user has his bonus and no contacts.      *)
LEMMA LoginCreateKeepsUser ==
    ASSUME AccountInv, AccountInv', UserInv, NEW s \in Slots,
           LoginCreate(s)
    PROVE  UserInv'
<1>1. /\ req[s] # None /\ req[s] \in Request /\ ReadOK(req[s])
      /\ req[s].kind \in LoginKinds /\ req[s].pc = "create"
      /\ RequestOK(req[s])
  BY DEF LoginCreate, At, AccountInv, AccountTypeOK, UserInv, ReadsOK,
         RequestsOK
<1>2. req[s].openid \in OpenIDs /\ req[s].phone \in Phones \cup {NoPhone}
  BY <1>1 DEF RequestOK, Request
<1>3. UNCHANGED <<held, snapshot>>
  BY DEF LoginCreate, tokenVars
<1>4. CASE Done(s) /\ UNCHANGED <<rows, ghostVars>>
  BY <1>3, <1>4, TableRests, UserDone DEF UserInv, ghostVars
<1>5. CASE /\ Insert(req[s].openid, req[s].phone, "contact", 1)
           /\ req' = [req EXCEPT ![s] = [@ EXCEPT !.pc = "generate",
                                                   !.id = Len(rows) + 1]]
  <2>. DEFINE row == [openid |-> req[s].openid, phone |-> req[s].phone,
                      status |-> "contact", contacts |-> {},
                      deleted |-> FALSE, grants |-> 1]
  <2>1. /\ row \in Row /\ ~row.deleted /\ row.contacts = {}
        /\ row.status = "contact" /\ row.grants = 1
    BY <1>2 DEF Row, Statuses
  <2>2. Adds(row) /\ reverted' = reverted
    BY <1>5, <2>1 DEF Insert, Adds
  <2>. HIDE DEF row
  <2>3. PICK n : n = Len(rows) + 1
    OBVIOUS
  <2>4. Progress /\ RowsOK' /\ rows'[n] = row /\ n \in DOMAIN rows'
    BY <2>1, <2>2, <2>3, RowAdded DEF UserInv
  <2>5. /\ Moves(s)
        /\ req'[s] = [req[s] EXCEPT !.pc = "generate", !.id = n]
    BY <1>5, <2>3 DEF Moves, AccountInv, AccountTypeOK
  <2>6. /\ req'[s].pc = "generate" /\ req'[s].kind = req[s].kind
        /\ req'[s].id = n /\ req'[s].bound = req[s].bound
        /\ req'[s].phone = req[s].phone
    BY <1>1, <2>5 DEF Request
  <2>7. Settled(n)' /\ rows'[n].grants = 1 /\ n # 0
    BY <2>1, <2>4, RowAt DEF Settled, AccountInv, AccountTypeOK
  <2>8. ReadOK(req[s])'
    BY <1>1, <2>6, <2>7 DEF ReadOK, Settled, LoginKinds, ContactKinds
  <2>. QED  BY <1>3, <2>4, <2>5, <2>8, UserKeeps
<1>. QED  BY <1>4, <1>5 DEF LoginCreate

(* The insert of a newcomer: without phone, bonus and contacts, and where  *)
(* the answer says he is.                                                  *)
LEMMA WaitlistCreateKeepsUser ==
    ASSUME AccountInv, AccountInv', UserInv, NEW s \in Slots,
           WaitlistCreate(s)
    PROVE  UserInv'
<1>1. /\ req[s] # None /\ req[s] \in Request /\ ReadOK(req[s])
      /\ req[s].kind = "waitlist" /\ req[s].pc = "create"
      /\ RequestOK(req[s])
  BY DEF WaitlistCreate, At, AccountInv, AccountTypeOK, UserInv, ReadsOK,
         RequestsOK
<1>2. /\ req[s].openid \in OpenIDs
      /\ req[s].status \in {"waitlisted", "onboarding"}
      /\ ~req[s].bound /\ req[s].bound \in BOOLEAN
  BY <1>1 DEF RequestOK, Request, ReadOK
<1>3. UNCHANGED <<held, snapshot>>
  BY DEF WaitlistCreate, tokenVars
<1>4. CASE Done(s) /\ UNCHANGED <<rows, ghostVars>>
  BY <1>3, <1>4, TableRests, UserDone DEF UserInv, ghostVars
<1>5. CASE /\ Insert(req[s].openid, NoPhone, req[s].status, 0)
           /\ req' = [req EXCEPT ![s] = [@ EXCEPT !.pc = "snap",
                                                   !.id = Len(rows) + 1]]
  <2>. DEFINE row == [openid |-> req[s].openid, phone |-> NoPhone,
                      status |-> req[s].status, contacts |-> {},
                      deleted |-> FALSE, grants |-> 0]
  <2>1. /\ row \in Row /\ ~row.deleted /\ row.contacts = {}
        /\ row.status = req[s].status /\ row.grants = 0
        /\ row.phone = NoPhone
    BY <1>2 DEF Row, Statuses
  <2>2. Adds(row) /\ reverted' = reverted
    BY <1>5, <2>1 DEF Insert, Adds
  <2>. HIDE DEF row
  <2>3. PICK n : n = Len(rows) + 1
    OBVIOUS
  <2>4. Progress /\ RowsOK' /\ rows'[n] = row /\ n \in DOMAIN rows'
    BY <1>2, <2>1, <2>2, <2>3, RowAdded DEF UserInv
  <2>5. /\ Moves(s)
        /\ req'[s] = [req[s] EXCEPT !.pc = "snap", !.id = n]
    BY <1>5, <2>3 DEF Moves, AccountInv, AccountTypeOK
  <2>6. /\ req'[s].pc = "snap" /\ req'[s].kind = "waitlist"
        /\ req'[s].id = n /\ req'[s].bound = FALSE
        /\ req'[s].status = req[s].status
    BY <1>1, <1>2, <2>5 DEF Request
  <2>7. Rank(NextStep(req'[s].status, req'[s].bound)) <= Rank(StepOf(rows'[n]))
    <3>1. StepOf(rows'[n]) = NextStep(req'[s].status, req'[s].bound)
      BY <2>1, <2>4, <2>6 DEF StepOf
    <3>2. Rank(StepOf(rows'[n])) \in 0..3
      BY <2>1, <2>4, RankOfRow
    <3>. QED  BY <3>1, <3>2
  <2>8. Reached(NextStep(req[s].status, req[s].bound), req[s].id)'
    BY <2>6, <2>7 DEF Reached
  <2>9. ReadOK(req[s])'
    BY <1>2, <2>6, <2>8 DEF ReadOK, Trusted, ContactKinds, LoginKinds
  <2>. QED  BY <1>3, <2>4, <2>5, <2>9, UserKeeps
<1>. QED  BY <1>4, <1>5 DEF WaitlistCreate

(* Binding a phone: whoever had neither phone nor status gets both, with   *)
(* the bonus; an active user whose status was read before his activation   *)
(* is thrown back, and remembered as such.                                 *)
LEMMA LoginBindKeepsUser ==
    ASSUME AccountInv, AccountInv', UserInv, NEW s \in Slots, LoginBind(s)
    PROVE  UserInv'
<1>. DEFINE i == req[s].id
            old == rows[i]
            bound == BoundRow(s, old)
            row == IF req[s].bound THEN bound ELSE InitWallet(bound)
<1>1. /\ req[s] # None /\ req[s] \in Request /\ ReadOK(req[s])
      /\ req[s].kind \in LoginKinds /\ req[s].pc = "bind"
  BY DEF LoginBind, At, AccountInv, AccountTypeOK, UserInv, ReadsOK
<1>2. i \in DOMAIN rows /\ old \in Row /\ RowOK(i)
  BY <1>1, KnownRow DEF Known, UserInv, RowsOK
<1>3. i # 0 /\ req[s].phone \in Phones \cup {NoPhone} /\ req[s].phone # NoPhone
  BY <1>1, <1>2, RowAt DEF Request, ReadOK, AccountInv, AccountTypeOK
<1>4. UNCHANGED <<held, snapshot>>
  BY DEF LoginBind, tokenVars
<1>5. CASE Done(s) /\ UNCHANGED <<rows, reverted>>
  BY <1>4, <1>5, TableRests, UserDone DEF UserInv
<1>6. CASE /\ rows' = [rows EXCEPT ![i] = row]
           /\ reverted' = IF old.status = "active" /\ row.status # "active"
                          THEN reverted \cup {i} ELSE reverted
           /\ Goto(s, "generate")
  <2>1. /\ bound \in Row
        /\ bound.deleted = old.deleted /\ bound.contacts = old.contacts
        /\ bound.grants = old.grants
        /\ old.deleted => bound.status = old.status /\ bound.phone = old.phone
        /\ ~old.deleted => /\ bound.status = NewStatus(s)
                           /\ bound.phone = req[s].phone
    BY <1>1, <1>2, <1>3 DEF BoundRow, NewStatus, Row, Request, Statuses
  <2>. HIDE DEF bound
  <2>2. /\ row \in Row
        /\ row.deleted = old.deleted /\ row.contacts = old.contacts
        /\ row.status = bound.status /\ row.phone = bound.phone
        /\ row.grants = IF ~req[s].bound /\ old.grants = 0 THEN 1 ELSE old.grants
    BY <2>1 DEF InitWallet, Row
  <2>. HIDE DEF row
  <2>3. ~old.deleted =>
          \/ row.status = old.status /\ row.status \in {"contact", "active"}
          \/ row.status = "contact"
    <3>1. CASE req[s].status \in {"waitlisted", "onboarding"}
      BY <2>1, <2>2, <3>1 DEF NewStatus
    <3>2. CASE req[s].status \in {"contact", "active"}
      BY <1>1, <1>3, <2>1, <2>2, <3>2 DEF NewStatus, ReadOK, Settled
    <3>. QED  BY <1>1, <3>1, <3>2 DEF Request, Statuses
  <2>4. row.deleted \/ row.status \in {"contact", "active"}
    BY <2>2, <2>3
  <2>5. Rank(StepOf(old)) <= Rank(StepOf(row)) \/ i \in reverted'
    <3>1. CASE old.deleted
      <4>1. StepOf(row) = StepOf(old)
        BY <2>1, <2>2, <3>1 DEF StepOf
      <4>. QED  BY <1>2, <4>1, RankOfRow
    <3>2. CASE ~old.deleted /\ row.status = "active"
      <4>1. Rank(StepOf(row)) = 3 /\ Rank(StepOf(old)) \in 0..3
        BY <1>2, <2>2, <3>2, RankOfRow
      <4>. QED  BY <4>1
    <3>3. CASE ~old.deleted /\ row.status = "contact" /\ old.status # "active"
      <4>1. Rank(StepOf(row)) = 2
        BY <1>3, <2>1, <2>2, <3>3, RankOfRow
      <4>2. Rank(StepOf(old)) \in 0..2
        <5>1. old.status \in {"waitlisted", "onboarding", "contact"}
          BY <1>2, <3>3 DEF Row, Statuses
        <5>. QED  BY <1>2, <5>1, RankOfRow
      <4>. QED  BY <4>1, <4>2
    <3>4. CASE row.status # "active" /\ old.status = "active"
      BY <1>6, <3>4
    <3>. QED  BY <2>3, <3>1, <3>2, <3>3, <3>4
  <2>6. /\ row.status = "active" => old.status = "active"
        /\ old.status = "active" => row.status = "active" \/ i \in reverted'
        /\ reverted \subseteq reverted'
    BY <1>6, <2>1, <2>2, <2>3
  <2>7. /\ row.grants <= 1 /\ (old.grants = 1 => row.grants = 1)
        /\ ~row.deleted => row.grants = 1
    BY <1>1, <1>2, <2>2 DEF RowOK, ReadOK, Row
  <2>8. /\ row.status = "active" => row.contacts # {}
        /\ row.contacts # {} => row.status = "active" \/ i \in reverted'
    BY <1>2, <2>2, <2>6 DEF RowOK
  <2>9. Progress /\ RowsOK'
    <3>. HIDE DEF i
    <3>. QED  BY <1>2, <1>6, <2>2, <2>4, <2>5, <2>6, <2>7, <2>8, RowAdvances
              DEF UserInv
  <2>10. req'[s].id = i
    BY <1>1, <1>6, GotoTyped DEF AccountInv, AccountTypeOK, RequestType, PCs
  <2>11. Settled(req[s].id)'
    BY <1>2, <1>6, <2>4, <2>10 DEF Settled, AccountInv, AccountTypeOK
  <2>. QED  BY <1>1, <1>4, <1>6, <2>9, <2>11, UserGoto DEF PCs
<1>. QED  BY <1>5, <1>6 DEF LoginBind

(* What is written is never empty: one is added, the list a client sent    *)
(* has somebody on it, and the last one is not removed.                    *)
LEMMA NewListHasSomebody ==
    ASSUME NEW s \in Slots, req[s] \in Request, ReadOK(req[s]),
           req[s].kind \in ContactKinds, req[s].pc = "write"
    PROVE  NewList(s) # {}
<1>1. req[s].list # {} /\ ListOK(req[s])
  BY DEF ReadOK
<1>2. CASE req[s].kind = "remove"
  <2>1. IsFiniteSet(1..3)
    BY FS_Interval, 1 \in Int, 3 \in Int
  <2>2. Cardinality(req[s].contacts) \in Nat
    BY <2>1, FS_Subset, FS_CardinalityType DEF Request, Priorities
  <2>3. Cardinality(req[s].contacts) > 1
    BY <1>1, <1>2 DEF ListOK
  <2>4. 1 \in 1..(Cardinality(req[s].contacts) - 1)
    BY <2>2, <2>3
  <2>. QED  BY <1>2, <2>4 DEF NewList
<1>3. CASE req[s].kind # "remove"
  BY <1>1, <1>3 DEF NewList
<1>. QED  BY <1>2, <1>3

(* A contact change and the activation that goes with it.                  *)
LEMMA WriteContactsKeepsUser ==
    ASSUME AccountInv, AccountInv', UserInv, NEW s \in Slots,
           WriteContacts(s)
    PROVE  UserInv'
<1>. DEFINE i == req[s].id
            old == rows[i]
            list == NewList(s)
            status == IF Activates(s) THEN "active" ELSE old.status
            row == [old EXCEPT !.contacts = list, !.status = status]
<1>1. /\ req[s] # None /\ req[s] \in Request /\ ReadOK(req[s])
      /\ req[s].kind \in ContactKinds /\ req[s].pc = "write"
  BY DEF WriteContacts, At, AccountInv, AccountTypeOK, UserInv, ReadsOK
<1>2. i \in DOMAIN rows /\ old \in Row /\ RowOK(i)
  BY <1>1, KnownRow DEF Known, UserInv, RowsOK, ContactKinds, LoginKinds
<1>3. UNCHANGED <<held, snapshot, reverted>> /\ Done(s)
  BY DEF WriteContacts, tokenVars, ghostVars
<1>4. CASE old.deleted
  <2>1. rows' = rows
    BY <1>4 DEF WriteContacts, Writable, Live
  <2>. QED  BY <1>3, <2>1, TableRests, UserDone DEF UserInv
<1>5. CASE ~old.deleted
  <2>1. list \in SUBSET Priorities /\ list # {}
    BY <1>1, NewListTyped, NewListHasSomebody
  <2>2. status \in Statuses
    BY <1>2 DEF Row, Statuses
  <2>3. old.status # status => status = "active"
    OBVIOUS
  <2>4. status = "active" \/ i \in reverted
    <3>1. CASE req[s].contacts = {} /\ req[s].kind # "remove"
      BY <1>1, <1>5, <3>1 DEF ReadOK, ListOK, Activates
    <3>2. CASE req[s].contacts # {}
      BY <1>1, <1>2, <3>2 DEF ReadOK, ListOK, RowOK
    <3>3. CASE req[s].contacts = {} /\ req[s].kind = "remove"
      <4>1. Cardinality(req[s].contacts) > 1
        BY <1>1, <3>3 DEF ReadOK, ListOK
      <4>. QED  BY <3>3, <4>1, FS_EmptySet
    <3>. QED  BY <3>1, <3>2, <3>3
  <2>5. rows \in [DOMAIN rows -> Row]
    BY LenProperties DEF AccountInv, AccountTypeOK
  <2>6. rows' = [rows EXCEPT ![i] = row]
    BY <1>2, <1>5, <2>5 DEF WriteContacts, Writable, Live, Row
  <2>. HIDE DEF status, list
  <2>7. /\ row \in Row /\ row.contacts = list /\ row.status = status
        /\ row.deleted = old.deleted /\ row.grants = old.grants
        /\ row.phone = old.phone
    BY <1>2, <2>1, <2>2 DEF Row
  <2>. HIDE DEF row
  <2>8. Rank(StepOf(old)) <= Rank(StepOf(row))
    <3>1. CASE status = "active"
      <4>1. Rank(StepOf(row)) = 3 /\ Rank(StepOf(old)) \in 0..3
        BY <1>2, <2>7, <3>1, RankOfRow
      <4>. QED  BY <4>1
    <3>2. CASE status = old.status
      <4>1. StepOf(row) = StepOf(old)
        BY <2>7, <3>2 DEF StepOf
      <4>. QED  BY <1>2, <4>1, RankOfRow
    <3>. QED  BY <2>3, <3>1, <3>2
  <2>9. Settled(i) => row.deleted \/ row.status \in {"contact", "active"}
    BY <2>3, <2>7 DEF Settled
  <2>10. Progress /\ RowsOK'
    <3>. HIDE DEF i
    <3>. QED  BY <1>2, <1>3, <2>1, <2>4, <2>6, <2>7, <2>8, <2>9, RowAdvances
              DEF UserInv, RowOK
  <2>. QED  BY <1>3, <2>10, UserDone
<1>. QED  BY <1>4, <1>5

(* A deletion leaves the row as it is, but for the mark.                   *)
LEMMA DeleteUserKeepsUser ==
    ASSUME AccountInv, AccountInv', UserInv, NEW s \in Slots, DeleteUser(s)
    PROVE  UserInv'
<1>. DEFINE i == req[s].id
            old == rows[i]
            row == [old EXCEPT !.deleted = TRUE]
<1>1. /\ req[s] # None /\ req[s].kind = "delete"
  BY DEF DeleteUser, At
<1>2. i \in DOMAIN rows /\ old \in Row /\ RowOK(i)
  BY <1>1, KnownRow DEF Known, UserInv, RowsOK, LoginKinds
<1>3. UNCHANGED <<held, snapshot, reverted>> /\ Done(s)
  BY DEF DeleteUser, tokenVars, ghostVars
<1>4. rows' = [rows EXCEPT ![i] = row]
  BY DEF DeleteUser
<1>5. /\ row \in Row /\ row.deleted /\ row.contacts = old.contacts
      /\ row.status = old.status /\ row.grants = old.grants
      /\ row.phone = old.phone
  BY <1>2 DEF Row
<1>. HIDE DEF row
<1>6. Rank(StepOf(old)) <= Rank(StepOf(row))
  <2>1. StepOf(row) = StepOf(old)
    BY <1>5 DEF StepOf
  <2>. QED  BY <1>2, <2>1, RankOfRow
<1>7. Progress /\ RowsOK'
  <2>. HIDE DEF i
  <2>. QED  BY <1>2, <1>3, <1>4, <1>5, <1>6, RowAdvances DEF UserInv, RowOK
<1>. QED  BY <1>3, <1>7, UserDone

(* Every step keeps the invariant.                                         *)
LEMMA NextUser ==
    ASSUME AccountInv, UserInv, [AccountNext]_accountVars
    PROVE  UserInv'
<1>1. AccountInv'
  BY NextKeeps
<1>2. ASSUME NEW s \in Slots, Serve(s)
      PROVE  UserInv'
  BY <1>1, <1>2, BeginsKeepUser, ReadsKeepUser, WaitlistCountKeepsUser,
     LoginCreateKeepsUser, WaitlistCreateKeepsUser, LoginBindKeepsUser,
     TokensKeepUser, SaveSnapshotKeepsUser, WriteContactsKeepsUser,
     DeleteUserKeepsUser DEF Serve
<1>3. ASSUME NEW o \in OpenIDs, SnapshotExpires(o)
      PROVE  UserInv'
  BY <1>3, SnapshotExpiresKeepsUser
<1>4. ASSUME UNCHANGED accountVars
      PROVE  UserInv'
  BY <1>4 DEF accountVars, tokenVars, ghostVars, UserInv, RowsOK, RowOK,
              HoldersOK, SnapshotsOK, Settled, Reached, ReadsOK, ReadOK,
              Trusted, ListOK
<1>. QED  BY <1>2, <1>3, <1>4 DEF AccountNext

(* In every reachable state the rows are in order, and what requests have  *)
(* read and snapshots say has not been overtaken.                          *)
LEMMA UserInvariant == AccountSpec => []UserInv
<1>1. AccountInit => UserInv
  BY LenProperties, EmptySeq
     DEF AccountInit, UserInv, RowsOK, HoldersOK, SnapshotsOK, ReadsOK
<1>2. AccountInv /\ UserInv /\ [AccountNext]_accountVars => UserInv'
  BY NextUser
<1>. QED  BY AccountInvariant, <1>1, <1>2, PTL DEF AccountSpec

(* However CreateContact, ReplaceContacts, DeleteContact and the logins of *)
(* one user race, an active user has somebody to alert, and whoever has    *)
(* contacts is active, unless a login that had read the row before wrote   *)
(* its status over the activation.                                         *)
THEOREM ContactsAndActivation == AccountSpec => []ContactsMakeActive
<1>1. UserInv => ContactsMakeActive
  BY DEF UserInv, RowsOK, RowOK, ContactsMakeActive, ActiveHasContacts,
         ContactsActivate
<1>. QED  BY UserInvariant, <1>1, PTL

(* In whatever order logins of one user create and bind rows, the wallet   *)
(* and its bonus are created once, and for everybody who has a phone.      *)
THEOREM BonusOnce == AccountSpec => []OneBonus
<1>1. UserInv => OneBonus
  BY DEF UserInv, RowsOK, RowOK, OneBonus, Live
<1>. QED  BY UserInvariant, <1>1, PTL

-----------------------------------------------------------------------------
(* Whom a snapshot is served to                                            *)

(* A step of the table as far as open ids are concerned: they are never    *)
(* changed, a deleted user stays deleted, and a user is only inserted for  *)
(* an open id that nobody has, one at a time.                              *)
NamesMove ==
    /\ DOMAIN rows \subseteq DOMAIN rows'
    /\ \A i \in DOMAIN rows : /\ rows'[i].openid = rows[i].openid
                              /\ rows[i].deleted => rows'[i].deleted
    /\ \A i \in DOMAIN rows' \ DOMAIN rows :
          /\ OpenIDFree(rows'[i].openid)
          /\ \A j \in DOMAIN rows' \ DOMAIN rows : i = j

(* Whom the rows, requests and snapshots belong to: no two users have one  *)
(* open id, and a snapshot was made of a row with the open id it is kept   *)
(* under.                                                                  *)
OneUserEach ==
    \A i, j \in Live : rows[i].openid = rows[j].openid => i = j

Names(r) == r.pc = "snap" => /\ r.id \in DOMAIN rows
                             /\ rows[r.id].openid = r.openid

NamesOK ==
    /\ OneUserEach
    /\ \A s \in Slots : req[s] # None => Names(req[s])
    /\ \A o \in OpenIDs :
          snapshot[o] # None => /\ snapshot[o].id \in DOMAIN rows
                                /\ rows[snapshot[o].id].openid = o

(* No step gives an open id a second user.                                 *)
LEMMA OneUserStays ==
    ASSUME OneUserEach, NamesMove
    PROVE  OneUserEach'
<1>1. Live' \cap DOMAIN rows \subseteq Live
  BY DEF Live, NamesMove
<1>2. ASSUME NEW i, NEW j, i \in Live', j \in Live',
             rows'[i].openid = rows'[j].openid,
             i \notin DOMAIN rows
      PROVE  i = j
  <2>1. i \in DOMAIN rows' \ DOMAIN rows /\ j \in DOMAIN rows'
    BY <1>2 DEF Live
  <2>2. CASE j \in DOMAIN rows
    <3>1. j \in Live /\ rows'[j].openid = rows[j].openid
      BY <1>1, <1>2, <2>2 DEF NamesMove
    <3>2. OpenIDFree(rows'[i].openid)
      BY <2>1 DEF NamesMove
    <3>. QED  BY <1>2, <3>1, <3>2 DEF OpenIDFree, LiveByOpenID
  <2>3. CASE j \notin DOMAIN rows
    BY <2>1, <2>3 DEF NamesMove
  <2>. QED  BY <2>2, <2>3
<1>3. ASSUME NEW i, NEW j, i \in Live', j \in Live',
             rows'[i].openid = rows'[j].openid,
             i \in DOMAIN rows, j \in DOMAIN rows
      PROVE  i = j
  <2>1. i \in Live /\ j \in Live
    BY <1>1, <1>3
  <2>. QED  BY <1>3, <2>1 DEF OneUserEach, NamesMove
<1>. QED  BY <1>2, <1>3 DEF OneUserEach

(* A step that leaves its own request in order, and saves a snapshot under *)
(* the open id it is about, leaves all in order.                           *)
LEMMA NamesKeep ==
    ASSUME AccountInv, NamesOK, NamesMove, NEW s \in Slots, Moves(s),
           req'[s] = None \/ Names(req[s])',
           \A o \in OpenIDs :
              snapshot'[o] # snapshot[o] /\ snapshot'[o] # None
                 => /\ snapshot'[o].id \in DOMAIN rows
                    /\ rows[snapshot'[o].id].openid = o
    PROVE  NamesOK'
<1>1. OneUserEach'
  BY OneUserStays DEF NamesOK
<1>2. ASSUME NEW t \in Slots, req'[t] # None
      PROVE  Names(req[t])'
  <2>1. CASE t = s
    BY <1>2, <2>1
  <2>2. CASE t # s
    BY <1>2, <2>2 DEF Moves, NamesOK, Names, NamesMove
  <2>. QED  BY <2>1, <2>2
<1>3. ASSUME NEW o \in OpenIDs, snapshot'[o] # None
      PROVE  snapshot'[o].id \in DOMAIN rows' /\ rows'[snapshot'[o].id].openid = o
  <2>1. snapshot'[o].id \in DOMAIN rows /\ rows[snapshot'[o].id].openid = o
    BY <1>3 DEF NamesOK
  <2>. QED  BY <2>1 DEF NamesMove
<1>. QED  BY <1>1, <1>2, <1>3 DEF NamesOK

(* A table that is not written moves as said.                              *)
LEMMA NamesRest ==
    ASSUME UNCHANGED rows
    PROVE  NamesMove
BY DEF NamesMove

(* So does one in which a row is written that keeps its open id.           *)
LEMMA NamesRewritten ==
    ASSUME AccountInv, NEW i \in DOMAIN rows, NEW row \in Row,
           rows' = [rows EXCEPT ![i] = row], row.openid = rows[i].openid,
           rows[i].deleted => row.deleted
    PROVE  NamesMove
<1>1. rows \in Seq(Row)
  BY DEF AccountInv, AccountTypeOK
<1>2. DOMAIN rows' = DOMAIN rows
  OBVIOUS
<1>3. \A j \in DOMAIN rows : rows'[j] = IF j = i THEN row ELSE rows[j]
  OBVIOUS
<1>. QED  BY <1>2, <1>3 DEF NamesMove

(* And one to which a user is added whose open id was free.                *)
LEMMA NamesAdded ==
    ASSUME AccountInv, NEW row \in Row, Adds(row), OpenIDFree(row.openid)
    PROVE  NamesMove /\ Len(rows) + 1 \in DOMAIN rows'
           /\ rows'[Len(rows) + 1] = row
<1>1. rows \in Seq(Row) /\ DOMAIN rows = 1..Len(rows) /\ Len(rows) \in Nat
  BY RowAt DEF AccountInv, AccountTypeOK
<1>2. /\ DOMAIN rows' = 1..(Len(rows) + 1) /\ rows'[Len(rows) + 1] = row
      /\ \A j \in DOMAIN rows : rows'[j] = rows[j]
  BY <1>1, AppendProperties, LenProperties DEF Adds
<1>3. \A j \in DOMAIN rows' \ DOMAIN rows : j = Len(rows) + 1
  BY <1>1, <1>2
<1>. QED  BY <1>1, <1>2, <1>3 DEF NamesMove

(* A request that is answered, goes on to another call, or begins, and is  *)
(* not about to save a snapshot.                                           *)
LEMMA NamesPass ==
    ASSUME AccountInv, NamesOK, NamesMove, snapshot' = snapshot, NEW s \in Slots,
           \/ Done(s)
           \/ \E pc \in PCs \ {"snap"} : req[s] # None /\ Goto(s, pc)
           \/ \E r : req' = [req EXCEPT ![s] = r] /\ r.pc # "snap"
    PROVE  NamesOK'
<1>1. CASE Done(s)
  <2>1. Moves(s) /\ req'[s] = None
    BY <1>1 DEF Done, Moves, AccountInv, AccountTypeOK
  <2>. QED  BY <2>1, NamesKeep
<1>2. ASSUME NEW pc \in PCs \ {"snap"}, req[s] # None, Goto(s, pc)
      PROVE  NamesOK'
  <2>1. RequestType /\ req[s] \in Request
    BY <1>2 DEF AccountInv, AccountTypeOK, RequestType
  <2>2. Moves(s) /\ req'[s] = [req[s] EXCEPT !.pc = pc]
    BY <1>2, <2>1, GotoTyped DEF Moves
  <2>3. req'[s].pc = pc
    BY <2>1, <2>2 DEF Request
  <2>. QED  BY <1>2, <2>2, <2>3, NamesKeep DEF Names
<1>3. ASSUME NEW r, req' = [req EXCEPT ![s] = r], r.pc # "snap"
      PROVE  NamesOK'
  <2>1. Moves(s) /\ req'[s] = r
    BY <1>3 DEF Moves, AccountInv, AccountTypeOK
  <2>. QED  BY <1>3, <2>1, NamesKeep DEF Names
<1>. QED  BY <1>1, <1>2, <1>3

(* A request that has read a row; if a snapshot is next, the row is that   *)
(* of its open id.                                                         *)
LEMMA NamesTake ==
    ASSUME AccountInv, NamesOK, OnlyReads, NEW s \in Slots, req[s] # None,
           NEW pc \in PCs, NEW i \in DOMAIN rows, Take(s, i, pc),
           pc = "snap" => rows[i].openid = req[s].openid
    PROVE  NamesOK'
<1>1. RequestType /\ rows \in Seq(Row) /\ Len(rows) <= MaxRows
  BY DEF AccountInv, AccountTypeOK, RequestType
<1>2. Moves(s) /\ req'[s].id = i /\ req'[s].pc = pc
      /\ req'[s].openid = req[s].openid
  BY <1>1, TakeTyped DEF Moves
<1>3. UNCHANGED <<rows, snapshot>>
  BY DEF OnlyReads
<1>4. Names(req[s])'
  BY <1>2, <1>3 DEF Names
<1>. QED  BY <1>2, <1>3, <1>4, NamesKeep, NamesRest

(* The steps that only read and go on.                                     *)
LEMMA ReadsKeepNames ==
    ASSUME AccountInv, NamesOK, NEW s \in Slots,
           \/ BeginExchange(s) \/ BeginVerify(s) \/ BeginWaitlist(s)
           \/ BeginRefresh(s) \/ BeginContact(s) \/ BeginDelete(s)
           \/ Lookup(s) \/ ExchangePhone(s) \/ VerifyPhone(s)
           \/ VerifyFallback(s) \/ LoginCount(s)
           \/ ValidateRefreshToken(s) \/ RefreshLookup(s)
           \/ ReadSnapshot(s) \/ WaitlistLookup(s) \/ WaitlistCount(s)
           \/ ReadUser(s) \/ Abort(s)
    PROVE  NamesOK'
<1>1. CASE \/ BeginExchange(s) \/ BeginVerify(s) \/ BeginWaitlist(s)
           \/ BeginRefresh(s) \/ BeginContact(s) \/ BeginDelete(s)
  <2>1. PICK kind, pc, o, p, i, list, token :
             Begin(s, kind, pc, o, p, i, list, token) /\ pc # "snap"
    BY <1>1 DEF BeginExchange, BeginVerify, BeginWaitlist, BeginRefresh,
                BeginContact, BeginDelete
  <2>. DEFINE r == [pc |-> pc, kind |-> kind, openid |-> o, phone |-> p,
                    list |-> list, id |-> i, status |-> "waitlisted",
                    bound |-> FALSE, contacts |-> {}, token |-> token,
                    gone |-> IF kind \in LoginKinds \cup {"refresh"}
                             THEN DOMAIN rows \ Live ELSE {}]
  <2>2. req' = [req EXCEPT ![s] = r] /\ UNCHANGED <<rows, snapshot>>
    BY <2>1 DEF Begin
  <2>3. r.pc # "snap"
    BY <2>1
  <2>. HIDE DEF r
  <2>. QED  BY <2>2, <2>3, NamesPass, NamesRest
<1>2. ASSUME OnlyReads, Done(s) \/ \E pc \in PCs \ {"snap"} : req[s] # None /\ Goto(s, pc)
      PROVE  NamesOK'
  BY <1>2, NamesPass, NamesRest DEF OnlyReads
<1>3. CASE Lookup(s)
  <2>1. OnlyReads /\ req[s] # None
    BY <1>3 DEF Lookup, At
  <2>2. \/ \E i \in DOMAIN rows, pc \in {"phone", "bind"} : Take(s, i, pc)
        \/ \E pc \in {"phone", "fallback"} : Goto(s, pc)
    BY <1>3 DEF Lookup, LiveByOpenID, Live
  <2>. QED  BY <1>2, <2>1, <2>2, NamesTake DEF PCs
<1>4. CASE ExchangePhone(s) \/ VerifyPhone(s) \/ LoginCount(s) \/ ReadSnapshot(s)
  <2>1. OnlyReads /\ req[s] # None
    BY <1>4 DEF ExchangePhone, VerifyPhone, LoginCount, ReadSnapshot, At
  <2>2. Done(s) \/ \E pc \in {"count", "bind", "lookup", "create"} : Goto(s, pc)
    BY <1>4 DEF ExchangePhone, VerifyPhone, LoginCount, ReadSnapshot
  <2>. QED  BY <1>2, <2>1, <2>2 DEF PCs
<1>5. CASE VerifyFallback(s) \/ ReadUser(s)
  <2>1. OnlyReads /\ req[s] # None
    BY <1>5 DEF VerifyFallback, ReadUser, At
  <2>2. ReadUser(s) => req[s].id \in DOMAIN rows
    BY KnownRow DEF ReadUser, At, Known, ContactKinds, LoginKinds
  <2>3. \/ Done(s) \/ Goto(s, "count")
        \/ \E i \in DOMAIN rows, pc \in {"bind", "write"} : Take(s, i, pc)
    BY <1>5, <2>2 DEF VerifyFallback, ReadUser, AnyByPhone
  <2>. QED  BY <1>2, <2>1, <2>3, NamesTake DEF PCs
<1>6. CASE ValidateRefreshToken(s) \/ RefreshLookup(s)
  <2>1. OnlyReads /\ req[s] # None
    BY <1>6 DEF ValidateRefreshToken, RefreshLookup, At
  <2>2. Done(s) \/ \E pc \in {"lookup", "generate"} : Goto(s, pc)
    BY <1>6 DEF ValidateRefreshToken, RefreshLookup
  <2>. QED  BY <1>2, <2>1, <2>2 DEF PCs
<1>7. CASE WaitlistLookup(s)
  <2>1. OnlyReads /\ req[s] # None
    BY <1>7 DEF WaitlistLookup, At
  <2>2. CASE Goto(s, "count")
    BY <1>2, <2>1, <2>2 DEF PCs
  <2>3. ASSUME NEW i \in LiveByOpenID(req[s].openid), Take(s, i, "snap")
        PROVE  NamesOK'
    <3>1. i \in DOMAIN rows /\ rows[i].openid = req[s].openid
      BY DEF LiveByOpenID, Live
    <3>. QED  BY <2>1, <2>3, <3>1, NamesTake DEF PCs
  <2>. QED  BY <1>7, <2>2, <2>3 DEF WaitlistLookup
<1>8. CASE WaitlistCount(s)
  <2>1. OnlyReads /\ req[s] \in Request
    BY <1>8 DEF WaitlistCount, At, AccountInv, AccountTypeOK
  <2>2. PICK r : req' = [req EXCEPT ![s] = r] /\ r.pc = "create"
    <3>1. PICK status : req' = [req EXCEPT ![s] =
             [req[s] EXCEPT !.pc = "create", !.status = status]]
      BY <1>8 DEF WaitlistCount
    <3>2. [req[s] EXCEPT !.pc = "create", !.status = status].pc = "create"
      BY <2>1 DEF Request
    <3>. QED  BY <3>1, <3>2
  <2>. QED  BY <2>1, <2>2, NamesPass, NamesRest DEF OnlyReads
<1>9. CASE Abort(s)
  BY <1>2, <1>9 DEF Abort
<1>. QED  BY <1>1, <1>3, <1>4, <1>5, <1>6, <1>7, <1>8, <1>9

(* The inserts are for the open id of the request, which was free.         *)
LEMMA CreatesKeepNames ==
    ASSUME AccountInv, NamesOK, NEW s \in Slots, LoginCreate(s) \/ WaitlistCreate(s)
    PROVE  NamesOK'
<1>1. /\ req[s] # None /\ req[s] \in Request /\ req[s].openid \in OpenIDs
      /\ snapshot' = snapshot
  BY DEF LoginCreate, WaitlistCreate, At, LoginKinds, AccountInv, AccountTypeOK,
         RequestsOK, RequestOK
<1>2. CASE Done(s) /\ UNCHANGED <<rows, ghostVars>>
  BY <1>1, <1>2, NamesPass, NamesRest
<1>3. ASSUME NEW pc \in {"generate", "snap"}, NEW p \in Phones \cup {NoPhone},
             NEW status \in Statuses, NEW grants \in Nat,
             OpenIDFree(req[s].openid),
             Insert(req[s].openid, p, status, grants),
             req' = [req EXCEPT ![s] = [@ EXCEPT !.pc = pc, !.id = Len(rows) + 1]]
      PROVE  NamesOK'
  <2>. DEFINE row == [openid |-> req[s].openid, phone |-> p, status |-> status,
                      contacts |-> {}, deleted |-> FALSE, grants |-> grants]
  <2>1. row \in Row /\ ~row.deleted /\ row.openid = req[s].openid
    BY <1>1 DEF Row
  <2>2. Adds(row)
    BY <1>3, <2>1 DEF Insert, Adds
  <2>. HIDE DEF row
  <2>3. /\ NamesMove /\ Len(rows) + 1 \in DOMAIN rows'
        /\ rows'[Len(rows) + 1] = row
    BY <1>3, <2>1, <2>2, NamesAdded
  <2>4. /\ Moves(s)
        /\ req'[s] = [req[s] EXCEPT !.pc = pc, !.id = Len(rows) + 1]
    BY <1>3 DEF Moves, AccountInv, AccountTypeOK
  <2>5. req'[s].id = Len(rows) + 1 /\ req'[s].openid = req[s].openid
    BY <1>1, <2>4 DEF Request
  <2>6. Names(req[s])'
    BY <2>1, <2>3, <2>5 DEF Names
  <2>. QED  BY <1>1, <2>3, <2>4, <2>6, NamesKeep
<1>4. CASE LoginCreate(s)
  <2>1. \/ Done(s) /\ UNCHANGED <<rows, ghostVars>>
        \/ /\ OpenIDFree(req[s].openid)
           /\ Insert(req[s].openid, req[s].phone, "contact", 1)
           /\ req' = [req EXCEPT ![s] = [@ EXCEPT !.pc = "generate",
                                                   !.id = Len(rows) + 1]]
    BY <1>4 DEF LoginCreate
  <2>2. req[s].phone \in Phones \cup {NoPhone} /\ "contact" \in Statuses
    BY <1>1 DEF Request, Statuses
  <2>. QED  BY <1>2, <1>3, <2>1, <2>2
<1>5. CASE WaitlistCreate(s)
  <2>1. \/ Done(s) /\ UNCHANGED <<rows, ghostVars>>
        \/ /\ OpenIDFree(req[s].openid)
           /\ Insert(req[s].openid, NoPhone, req[s].status, 0)
           /\ req' = [req EXCEPT ![s] = [@ EXCEPT !.pc = "snap",
                                                   !.id = Len(rows) + 1]]
    BY <1>5 DEF WaitlistCreate
  <2>2. req[s].status \in Statuses
    BY <1>1 DEF Request
  <2>. QED  BY <1>2, <1>3, <2>1, <2>2
<1>. QED  BY <1>4, <1>5

(* Whoever writes a row leaves it its open id.                             *)
LEMMA WritesKeepNames ==
    ASSUME AccountInv, NamesOK, NEW s \in Slots,
           LoginBind(s) \/ WriteContacts(s) \/ DeleteUser(s)
    PROVE  NamesOK'
<1>. DEFINE i == req[s].id
<1>1. /\ req[s] # None /\ snapshot' = snapshot
      /\ Done(s) \/ Goto(s, "generate")
  BY DEF LoginBind, WriteContacts, DeleteUser, At
<1>2. i \in DOMAIN rows /\ rows[i] \in Row
  BY KnownRow DEF LoginBind, WriteContacts, DeleteUser, At, Known, LoginKinds,
                  ContactKinds
<1>3. SUFFICES NamesMove
  BY <1>1, NamesPass DEF PCs
<1>4. RowsMove /\ rows' \in Seq(Row)
  BY NextKeeps DEF AccountNext, Serve, AccountInv, AccountTypeOK
<1>5. rows' = rows \/ \E row : rows' = [rows EXCEPT ![i] = row]
                              /\ row.openid = rows[i].openid
                              /\ (rows[i].deleted => row.deleted)
  <2>. HIDE DEF i
  <2>1. CASE LoginBind(s)
    <3>. DEFINE bound == BoundRow(s, rows[i])
                row == IF req[s].bound THEN bound ELSE InitWallet(bound)
    <3>1. rows' = rows \/ rows' = [rows EXCEPT ![i] = row]
      BY <2>1 DEF LoginBind, i
    <3>2. bound.openid = rows[i].openid /\ (rows[i].deleted => bound.deleted)
          /\ row.openid = rows[i].openid /\ (rows[i].deleted => row.deleted)
      BY <1>2 DEF BoundRow, InitWallet, Row
    <3>. QED  BY <3>1, <3>2
  <2>2. CASE WriteContacts(s)
    <3>1. rows' = rows \/ \E c, st : rows' = [rows EXCEPT ![i] =
             [rows[i] EXCEPT !.contacts = c, !.status = st]]
      BY <2>2 DEF WriteContacts, i
    <3>. QED  BY <1>2, <3>1 DEF Row
  <2>3. CASE DeleteUser(s)
    <3>1. rows' = [rows EXCEPT ![i] = [rows[i] EXCEPT !.deleted = TRUE]]
      BY <2>3 DEF DeleteUser, i
    <3>. QED  BY <1>2, <3>1 DEF Row
  <2>. QED  BY <2>1, <2>2, <2>3
<1>6. CASE rows' = rows
  BY <1>6, NamesRest
<1>7. ASSUME NEW row, rows' = [rows EXCEPT ![i] = row],
             row.openid = rows[i].openid, rows[i].deleted => row.deleted
      PROVE  NamesMove
  <2>1. row \in Row
    <3>1. rows'[i] = row /\ DOMAIN rows' = DOMAIN rows
      BY <1>2, <1>7
    <3>. QED  BY <1>2, <1>4, <3>1, LenProperties, ElementOfSeq
  <2>. HIDE DEF i
  <2>. QED  BY <1>2, <1>7, <2>1, NamesRewritten
<1>. QED  BY <1>5, <1>6, <1>7

(* Tokens are stored and handed out, snapshots are saved of what was read. *)
LEMMA TokensKeepNames ==
    ASSUME AccountInv, NamesOK, NEW s \in Slots,
           GenerateTokenPair(s) \/ SetRefreshToken(s) \/ AnswerToken(s)
    PROVE  NamesOK'
<1>1. req[s] # None /\ UNCHANGED <<rows, snapshot>>
  BY DEF GenerateTokenPair, SetRefreshToken, AnswerToken, At
<1>2. CASE GenerateTokenPair(s)
  <2>1. req[s] \in Request
    BY <1>1 DEF AccountInv, AccountTypeOK
  <2>2. PICK k : req' = [req EXCEPT ![s] = [req[s] EXCEPT !.pc = "store",
                                                         !.token = k]]
    BY <1>2 DEF GenerateTokenPair
  <2>3. [req[s] EXCEPT !.pc = "store", !.token = k].pc = "store"
    BY <2>1 DEF Request
  <2>. QED  BY <1>1, <2>2, <2>3, NamesPass, NamesRest
<1>3. CASE SetRefreshToken(s) \/ AnswerToken(s)
  <2>1. Done(s) \/ Goto(s, "answer")
    BY <1>3 DEF SetRefreshToken, AnswerToken
  <2>. QED  BY <1>1, <2>1, NamesPass, NamesRest DEF PCs
<1>. QED  BY <1>2, <1>3

(* A snapshot is saved under the open id of the row it was made of.        *)
LEMMA SaveSnapshotKeepsNames ==
    ASSUME AccountInv, NamesOK, NEW s \in Slots, SaveSnapshot(s)
    PROVE  NamesOK'
<1>1. /\ req[s] # None /\ req[s].pc = "snap" /\ Names(req[s])
      /\ Done(s) /\ UNCHANGED rows
  BY DEF SaveSnapshot, At, NamesOK
<1>2. Moves(s) /\ req'[s] = None
  BY <1>1 DEF Done, Moves, AccountInv, AccountTypeOK
<1>3. ASSUME NEW o \in OpenIDs, snapshot'[o] # snapshot[o]
      PROVE  snapshot'[o].id \in DOMAIN rows /\ rows[snapshot'[o].id].openid = o
  <2>1. snapshot' = [snapshot EXCEPT ![req[s].openid] = SnapshotOf(s)]
    BY <1>3 DEF SaveSnapshot
  <2>2. o = req[s].openid /\ snapshot'[o] = SnapshotOf(s)
    BY <1>3, <2>1 DEF AccountInv, AccountTypeOK
  <2>. QED  BY <1>1, <2>2 DEF SnapshotOf, Names
<1>. QED  BY <1>1, <1>2, <1>3, NamesKeep, NamesRest

(* Every step keeps the invariant.                                         *)
LEMMA NextNames ==
    ASSUME AccountInv, NamesOK, [AccountNext]_accountVars
    PROVE  NamesOK'
<1>1. ASSUME NEW s \in Slots, Serve(s)
      PROVE  NamesOK'
  BY <1>1, ReadsKeepNames, CreatesKeepNames, WritesKeepNames, TokensKeepNames,
     SaveSnapshotKeepsNames DEF Serve
<1>2. ASSUME NEW o \in OpenIDs, SnapshotExpires(o)
      PROVE  NamesOK'
  <2>1. UNCHANGED <<rows, req>> /\ snapshot' = [snapshot EXCEPT ![o] = None]
    BY <1>2 DEF SnapshotExpires
  <2>2. \A p \in OpenIDs : snapshot'[p] # None => snapshot'[p] = snapshot[p]
    BY <2>1 DEF AccountInv, AccountTypeOK
  <2>. QED  BY <2>1, <2>2 DEF NamesOK, OneUserEach, Live, Names
<1>3. CASE UNCHANGED accountVars
  BY <1>3 DEF accountVars, NamesOK, OneUserEach, Live, Names
<1>. QED  BY <1>1, <1>2, <1>3 DEF AccountNext

(* The cached answer of the waitlist is served to whoever has the open id. *)
(* However late it is read, saved and used, it sends nobody ahead of       *)
(* himself, but who deleted his account and signed up again, and him no    *)
(* further than that account had got to.                                   *)
THEOREM SnapshotsLeadOnlyReturners == AccountSpec => []OnlyReturnersAreSentAhead
<1>1. AccountInit => NamesOK
  BY EmptySeq, LenProperties DEF AccountInit, NamesOK, OneUserEach, Live
<1>2. AccountInv /\ NamesOK /\ [AccountNext]_accountVars => NamesOK'
  BY NextNames
<1>3. UserInv /\ NamesOK => OnlyReturnersAreSentAhead
  <2>. SUFFICES ASSUME UserInv, NamesOK, NEW o \in OpenIDs,
                       NEW i \in LiveByOpenID(o), snapshot[o] # None
                PROVE  \E j \in {i} \cup Former(o) : Reached(snapshot[o].step, j)
    BY DEF OnlyReturnersAreSentAhead
  <2>. DEFINE k == snapshot[o].id
  <2>1. k \in DOMAIN rows /\ rows[k].openid = o /\ Reached(snapshot[o].step, k)
    BY DEF UserInv, SnapshotsOK, NamesOK
  <2>2. CASE k \in Live
    <3>1. i \in Live /\ rows[i].openid = o
      BY DEF LiveByOpenID
    <3>2. k = i
      BY <2>1, <2>2, <3>1 DEF NamesOK, OneUserEach
    <3>. QED  BY <2>1, <3>2
  <2>3. CASE k \notin Live
    BY <2>1, <2>3 DEF Former
  <2>. QED  BY <2>2, <2>3
<1>. QED  BY AccountInvariant, UserInvariant, <1>1, <1>2, <1>3, PTL DEF AccountSpec

-----------------------------------------------------------------------------

(* The token of user i is about to be handed out.                          *)
Answered(i) == \E s \in Slots : /\ At(s, TokenKinds, "answer")
                                /\ req[s].id = i
                                /\ req[s].token = refresh[i]

(* Without failures, a stored token has been answered or is about to be,   *)
(* and one is stored for every user who has been answered, or is about to. *)
TokenInv ==
    faults = 0 =>
        /\ \A i \in IDs : refresh[i] # 0 => refresh[i] \in held[i] \/ Answered(i)
        /\ \A i \in IDs : held[i] # {} => refresh[i] # 0
        /\ \A s \in Slots :
              At(s, TokenKinds, "answer") => refresh[req[s].id] # 0

(* A request that neither comes to its answer nor leaves it, while tokens  *)
(* rest.                                                                   *)
LEMMA TokensRest ==
    ASSUME AccountInv, TokenInv, UNCHANGED <<refresh, held>>,
           faults' = 0 => faults = 0, NEW s \in Slots, Moves(s),
           ~At(s, TokenKinds, "answer"), ~At(s, TokenKinds, "answer")'
    PROVE  TokenInv'
<1>. SUFFICES ASSUME faults' = 0 PROVE TokenInv'
  BY DEF TokenInv
<1>1. \A t \in Slots : At(t, TokenKinds, "answer")' <=> At(t, TokenKinds, "answer")
  BY DEF Moves, At
<1>2. \A t \in Slots : At(t, TokenKinds, "answer") => req'[t] = req[t]
  BY DEF Moves
<1>3. \A i \in IDs : Answered(i) => Answered(i)'
  BY <1>1, <1>2 DEF Answered
<1>. QED  BY <1>1, <1>2, <1>3 DEF TokenInv

(* Failures are not forgotten.                                             *)
LEMMA FaultsAreKept ==
    ASSUME AccountInv, [AccountNext]_accountVars, faults' = 0
    PROVE  faults = 0
<1>1. faults \in Nat
  BY AccountAssumption DEF AccountInv, AccountTypeOK
<1>2. NoFault \/ Fault \/ faults' = faults
  BY DEF AccountNext, Serve, BeginExchange, BeginVerify, BeginWaitlist,
     BeginRefresh, BeginContact, BeginDelete, Begin, Lookup, ExchangePhone,
     VerifyPhone, VerifyFallback, LoginCount, LoginCreate, LoginBind,
     GenerateTokenPair, SetRefreshToken, AnswerToken, ValidateRefreshToken,
     RefreshLookup, ReadSnapshot, WaitlistLookup, WaitlistCount,
     WaitlistCreate, SaveSnapshot, SnapshotExpires, ReadUser, WriteContacts,
     DeleteUser, Abort, accountVars
<1>. QED  BY <1>1, <1>2 DEF NoFault, Fault

(* The token that is stored is about to be answered.                       *)
LEMMA StoreKeepsTokens ==
    ASSUME AccountInv, TokenInv, NEW s \in Slots, SetRefreshToken(s)
    PROVE  TokenInv'
<1>. SUFFICES ASSUME faults' = 0 PROVE TokenInv'
  BY DEF TokenInv
<1>1. /\ req[s] # None /\ req[s] \in Request /\ req[s].kind \in TokenKinds
      /\ req[s].pc = "store" /\ RequestOK(req[s])
  BY DEF SetRefreshToken, At, AccountInv, AccountTypeOK, RequestsOK
<1>2. /\ faults \in Nat /\ MaxTokens \in Nat
      /\ refresh \in [IDs -> 0..MaxTokens] /\ issued \in [IDs -> 0..MaxTokens]
  BY AccountAssumption DEF AccountInv, AccountTypeOK
<1>3. req[s].id \in IDs
  BY <1>1, KnownRow DEF Known
<1>4. req[s].token # 0
  BY <1>1, <1>2, <1>3 DEF RequestOK
<1>5. /\ faults = 0 /\ refresh' = [refresh EXCEPT ![req[s].id] = req[s].token]
      /\ Goto(s, "answer") /\ held' = held
  BY <1>2 DEF SetRefreshToken, NoFault, Fault
<1>6. /\ Moves(s) /\ req'[s] = [req[s] EXCEPT !.pc = "answer"]
  BY <1>1, <1>5, GotoTyped
     DEF Moves, AccountInv, AccountTypeOK, RequestType, PCs
<1>7. /\ req'[s].pc = "answer" /\ req'[s].kind = req[s].kind
      /\ req'[s].id = req[s].id /\ req'[s].token = req[s].token
      /\ req'[s] # None
  BY <1>1, <1>6 DEF Request, None
<1>8. refresh'[req[s].id] = req[s].token
      /\ \A i \in IDs : i # req[s].id => refresh'[i] = refresh[i]
  BY <1>2, <1>3, <1>5
<1>9. \A i \in IDs : refresh'[i] # 0 => refresh'[i] \in held'[i] \/ Answered(i)'
  <2>2. ASSUME NEW i \in IDs, i = req[s].id
        PROVE  Answered(i)'
    BY <1>1, <1>7, <1>8, <2>2 DEF Answered, At
  <2>3. ASSUME NEW i \in IDs, i # req[s].id, refresh'[i] # 0
        PROVE  refresh'[i] \in held'[i] \/ Answered(i)'
    <3>1. refresh'[i] = refresh[i]
      BY <1>8, <2>3
    <3>2. refresh[i] \in held[i] \/ Answered(i)
      BY <1>5, <2>3, <3>1 DEF TokenInv
    <3>3. Answered(i) => Answered(i)'
      BY <1>1, <1>6, <3>1 DEF Answered, At, Moves
    <3>. QED  BY <1>5, <3>1, <3>2, <3>3
  <2>. QED  BY <2>2, <2>3
<1>10. \A i \in IDs : held'[i] # {} => refresh'[i] # 0
  BY <1>4, <1>5, <1>8 DEF TokenInv
<1>11. ASSUME NEW t \in Slots, At(t, TokenKinds, "answer")'
       PROVE  refresh'[req'[t].id] # 0
  <2>1. CASE t = s
    BY <1>4, <1>7, <1>8, <2>1
  <2>2. CASE t # s
    <3>1. req'[t] = req[t] /\ At(t, TokenKinds, "answer")
      BY <1>6, <1>11, <2>2 DEF Moves, At
    <3>2. req[t].id \in IDs
      BY <3>1, KnownRow DEF At, Known
    <3>3. refresh[req[t].id] # 0
      BY <1>5, <3>1 DEF TokenInv
    <3>. QED  BY <1>4, <1>8, <3>1, <3>2, <3>3
  <2>. QED  BY <2>1, <2>2
<1>. QED  BY <1>9, <1>10, <1>11 DEF TokenInv

(* The token that is answered is held from then on.                        *)
LEMMA AnswerKeepsTokens ==
    ASSUME AccountInv, TokenInv, NEW s \in Slots, AnswerToken(s)
    PROVE  TokenInv'
<1>. SUFFICES ASSUME faults' = 0 PROVE TokenInv'
  BY DEF TokenInv
<1>1. At(s, TokenKinds, "answer") /\ Done(s) /\ refresh' = refresh /\ faults = 0
  BY DEF AnswerToken, NoFault
<1>2. Moves(s) /\ req'[s] = None
  BY <1>1 DEF Done, Moves, AccountInv, AccountTypeOK
<1>3. req[s].id \in IDs /\ held \in [IDs -> SUBSET (1..MaxTokens)]
  BY <1>1, KnownRow DEF At, Known, AccountInv, AccountTypeOK
<1>4. /\ held'[req[s].id] = held[req[s].id] \cup {req[s].token}
      /\ \A i \in IDs : i # req[s].id => held'[i] = held[i]
  BY <1>3 DEF AnswerToken
<1>5. ASSUME NEW i \in IDs, refresh[i] # 0
      PROVE  refresh[i] \in held'[i] \/ Answered(i)'
  <2>1. CASE refresh[i] \in held[i]
    BY <1>4, <2>1
  <2>2. ASSUME NEW t \in Slots, At(t, TokenKinds, "answer"),
               req[t].id = i, req[t].token = refresh[i]
        PROVE  refresh[i] \in held'[i] \/ Answered(i)'
    <3>1. CASE t = s
      BY <1>4, <2>2, <3>1
    <3>2. CASE t # s
      <4>1. req'[t] = req[t]
        BY <1>2, <3>2 DEF Moves
      <4>. QED  BY <1>1, <2>2, <4>1 DEF Answered, At
    <3>. QED  BY <3>1, <3>2
  <2>. QED  BY <1>1, <1>5, <2>1, <2>2 DEF TokenInv, Answered
<1>6. \A i \in IDs : held'[i] # {} => refresh[i] # 0
  BY <1>1, <1>3, <1>4 DEF TokenInv
<1>7. \A t \in Slots : At(t, TokenKinds, "answer")' => refresh[req'[t].id] # 0
  <2>1. \A t \in Slots : At(t, TokenKinds, "answer")'
           => req'[t] = req[t] /\ At(t, TokenKinds, "answer")
    BY <1>2 DEF Moves, At
  <2>. QED  BY <1>1, <2>1 DEF TokenInv
<1>. QED  BY <1>1, <1>5, <1>6, <1>7 DEF TokenInv

(* A request that begins does not begin with an answer.                    *)
LEMMA BeginsBeforeAnswer ==
    ASSUME AccountInv, NEW s \in Slots,
           \/ BeginExchange(s) \/ BeginVerify(s) \/ BeginWaitlist(s)
           \/ BeginRefresh(s) \/ BeginContact(s) \/ BeginDelete(s)
    PROVE  /\ UNCHANGED <<refresh, held>> /\ Moves(s)
           /\ ~At(s, TokenKinds, "answer") /\ ~At(s, TokenKinds, "answer")'
<1>1. PICK kind, pc, o, p, i, list, token :
         /\ Begin(s, kind, pc, o, p, i, list, token)
         /\ pc # "answer"
  BY DEF BeginExchange, BeginVerify, BeginWaitlist, BeginRefresh,
         BeginContact, BeginDelete
<1>2. req[s] = None /\ Moves(s) /\ req'[s].pc = pc
  BY <1>1 DEF Begin, Moves, AccountInv, AccountTypeOK
<1>. QED  BY <1>1, <1>2 DEF Begin, At, tokenVars

(* The steps that neither store nor answer a token.                        *)
LEMMA OthersRest ==
    ASSUME AccountInv, NEW s \in Slots,
           \/ Lookup(s) \/ ExchangePhone(s) \/ VerifyPhone(s)
           \/ VerifyFallback(s) \/ LoginCount(s) \/ LoginCreate(s)
           \/ LoginBind(s) \/ GenerateTokenPair(s)
           \/ ValidateRefreshToken(s) \/ RefreshLookup(s)
           \/ ReadSnapshot(s) \/ WaitlistLookup(s) \/ WaitlistCount(s)
           \/ WaitlistCreate(s) \/ SaveSnapshot(s)
           \/ ReadUser(s) \/ WriteContacts(s) \/ DeleteUser(s)
    PROVE  /\ UNCHANGED <<refresh, held>> /\ Moves(s)
           /\ ~At(s, TokenKinds, "answer") /\ ~At(s, TokenKinds, "answer")'
<1>1. UNCHANGED <<refresh, held>>
  BY DEF Lookup, ExchangePhone, VerifyPhone, VerifyFallback, LoginCount,
     LoginCreate, LoginBind, GenerateTokenPair, ValidateRefreshToken,
     RefreshLookup, ReadSnapshot, WaitlistLookup, WaitlistCount,
     WaitlistCreate, SaveSnapshot, ReadUser, WriteContacts, DeleteUser,
     OnlyReads, tokenVars
<1>2. ~At(s, TokenKinds, "answer") /\ req[s] # None /\ req[s] \in Request
  BY DEF Lookup, ExchangePhone, VerifyPhone, VerifyFallback, LoginCount,
     LoginCreate, LoginBind, GenerateTokenPair, ValidateRefreshToken,
     RefreshLookup, ReadSnapshot, WaitlistLookup, WaitlistCount,
     WaitlistCreate, SaveSnapshot, ReadUser, WriteContacts, DeleteUser,
     At, AccountInv, AccountTypeOK
<1>3. \/ Done(s)
      \/ \E pc \in PCs \ {"answer"} : Goto(s, pc)
      \/ \E pc \in PCs \ {"answer"} : \E i : Take(s, i, pc)
      \/ \E i : req' = [req EXCEPT ![s] = [req[s] EXCEPT !.pc = "generate",
                                                         !.id = i]]
      \/ \E i : req' = [req EXCEPT ![s] = [req[s] EXCEPT !.pc = "snap",
                                                         !.id = i]]
      \/ \E k : req' = [req EXCEPT ![s] = [req[s] EXCEPT !.pc = "store",
                                                         !.token = k]]
      \/ \E k : req' = [req EXCEPT ![s] = [req[s] EXCEPT !.pc = "create",
                                                         !.status = k]]
  <2>1. CASE Lookup(s) \/ ExchangePhone(s) \/ VerifyPhone(s)
    BY <2>1 DEF Lookup, ExchangePhone, VerifyPhone, PCs
  <2>2. CASE VerifyFallback(s) \/ LoginCount(s) \/ ReadSnapshot(s)
    BY <2>2 DEF VerifyFallback, LoginCount, ReadSnapshot, PCs
  <2>3. CASE LoginCreate(s) \/ WaitlistCreate(s)
    BY <2>3 DEF LoginCreate, WaitlistCreate
  <2>4. CASE LoginBind(s) \/ GenerateTokenPair(s) \/ WaitlistCount(s)
    BY <2>4 DEF LoginBind, GenerateTokenPair, WaitlistCount, PCs
  <2>5. CASE \/ ValidateRefreshToken(s) \/ RefreshLookup(s)
             \/ WaitlistLookup(s) \/ ReadUser(s)
    BY <2>5 DEF ValidateRefreshToken, RefreshLookup, WaitlistLookup,
                ReadUser, PCs
  <2>6. CASE SaveSnapshot(s) \/ WriteContacts(s) \/ DeleteUser(s)
    BY <2>6 DEF SaveSnapshot, WriteContacts, DeleteUser
  <2>. QED  BY <2>1, <2>2, <2>3, <2>4, <2>5, <2>6
<1>4. PICK r : req' = [req EXCEPT ![s] = r] /\ (r = None \/ r.pc # "answer")
  <2>1. ASSUME NEW pc \in PCs, Goto(s, pc), pc # "answer"
        PROVE  \E r : req' = [req EXCEPT ![s] = r] /\ r.pc # "answer"
    <3>. DEFINE r == [req[s] EXCEPT !.pc = pc]
    <3>1. req' = [req EXCEPT ![s] = r] /\ r.pc = pc
      BY <1>2, <2>1 DEF Goto, Request, AccountInv, AccountTypeOK
    <3>. QED  BY <2>1, <3>1
  <2>2. ASSUME NEW pc \in PCs, NEW i, Take(s, i, pc), pc # "answer"
        PROVE  \E r : req' = [req EXCEPT ![s] = r] /\ r.pc # "answer"
    <3>. DEFINE r == [req[s] EXCEPT !.pc = pc, !.id = i,
                        !.status = rows[i].status,
                        !.bound = rows[i].phone # NoPhone,
                        !.contacts = rows[i].contacts]
    <3>1. req' = [req EXCEPT ![s] = r] /\ r.pc = pc
      BY <1>2, <2>2 DEF Take, Request, AccountInv, AccountTypeOK
    <3>. QED  BY <2>2, <3>1
  <2>3. \A i : /\ [req[s] EXCEPT !.pc = "generate", !.id = i].pc # "answer"
               /\ [req[s] EXCEPT !.pc = "snap", !.id = i].pc # "answer"
               /\ [req[s] EXCEPT !.pc = "store", !.token = i].pc # "answer"
               /\ [req[s] EXCEPT !.pc = "create", !.status = i].pc # "answer"
    BY <1>2 DEF Request
  <2>4. ASSUME Done(s)
        PROVE  \E r : req' = [req EXCEPT ![s] = r] /\ r = None
    BY <2>4 DEF Done
  <2>. QED  BY <1>3, <2>1, <2>2, <2>3, <2>4
<1>5. req'[s] = r /\ Moves(s)
  BY <1>4 DEF Moves, AccountInv, AccountTypeOK
<1>. QED  BY <1>1, <1>2, <1>4, <1>5 DEF At

(* Every step keeps the invariant.                                         *)
LEMMA NextTokens ==
    ASSUME AccountInv, TokenInv, [AccountNext]_accountVars
    PROVE  TokenInv'
<1>1. faults' = 0 => faults = 0
  BY FaultsAreKept
<1>2. ASSUME NEW s \in Slots, Serve(s)
      PROVE  TokenInv'
  <2>1. CASE Abort(s)
    <3>1. faults' # 0
      BY <2>1, AccountAssumption DEF Abort, Fault, AccountInv, AccountTypeOK
    <3>. QED  BY <3>1 DEF TokenInv
  <2>2. CASE SetRefreshToken(s)
    BY <2>2, StoreKeepsTokens
  <2>3. CASE AnswerToken(s)
    BY <2>3, AnswerKeepsTokens
  <2>4. CASE ~(Abort(s) \/ SetRefreshToken(s) \/ AnswerToken(s))
    <3>1. /\ UNCHANGED <<refresh, held>> /\ Moves(s)
          /\ ~At(s, TokenKinds, "answer") /\ ~At(s, TokenKinds, "answer")'
      BY <1>2, <2>4, BeginsBeforeAnswer, OthersRest DEF Serve
    <3>. QED  BY <1>1, <3>1, TokensRest
  <2>. QED  BY <2>1, <2>2, <2>3, <2>4
<1>3. ASSUME UNCHANGED <<refresh, held, faults, req>>
      PROVE  TokenInv'
  BY <1>3 DEF TokenInv, Answered, At
<1>4. ASSUME NEW o \in OpenIDs, SnapshotExpires(o)
      PROVE  TokenInv'
  BY <1>3, <1>4 DEF SnapshotExpires, tokenVars
<1>5. ASSUME UNCHANGED accountVars
      PROVE  TokenInv'
  BY <1>3, <1>5 DEF accountVars, tokenVars
<1>. QED  BY <1>2, <1>4, <1>5 DEF AccountNext

(* In whatever order the logins and refreshes of one user generate, store  *)
(* and answer their pairs, the refresh token that is stored is one that a  *)
(* client has or is about to get - as long as no call fails and no server  *)
(* dies.                                                                   *)
THEOREM NobodyLocksAllOut == AccountSpec => []SomebodyStaysSignedIn
<1>1. AccountInit => TokenInv
  BY DEF AccountInit, TokenInv, At
<1>2. AccountInv /\ TokenInv /\ [AccountNext]_accountVars => TokenInv'
  BY NextTokens
<1>3. TokenInv => SomebodyStaysSignedIn
  BY DEF TokenInv, Answered, SignedIn, SomebodyStaysSignedIn
<1>. QED  BY AccountInvariant, <1>1, <1>2, <1>3, PTL DEF AccountSpec
=============================================================================
