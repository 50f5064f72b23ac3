------------------------------ MODULE Account ------------------------------
(***************************************************************************)
(* The users table as logins, the waitlist, contact changes and deletions  *)
(* change it concurrently: AuthService, the waitlist and deletion parts of *)
(* UserService, ContactService, and the refresh tokens and waitlist        *)
(* snapshots they keep in Redis.                                           *)
(*                                                                         *)
(* A request reads its user's row with a plain SELECT, decides with what   *)
(* it read, and writes later: each call to the database or Redis is a      *)
(* step.  Reads by gen's query builder leave out soft-deleted rows; the    *)
(* raw SQL of GetByPublicID and GetByPhoneHash does not.  A transaction    *)
(* that creates or binds a user locks the row it writes first, so that it  *)
(* is one step.                                                            *)
(*                                                                         *)
(* The list of contacts is abstracted to the priorities in it.             *)
(***************************************************************************)
EXTENDS Integers, Sequences, FiniteSets

CONSTANTS
    OpenIDs,       \* Alipay users
    Phones,
    Slots,         \* requests that are served at the same time
    Lists,         \* the lists clients send: sets of priorities, never empty
    MaxUsers,      \* WaitlistMaxUsers
    MaxRequests,   \* bound on the requests of a run
    MaxRows,       \* bound on rows
    MaxTokens,     \* bound on token generations per user
    MaxFaults,     \* bound on failed calls and crashes of a run
    Kinds,         \* the requests of a run
    NoPhone        \* phone_hash IS NULL

ASSUME AccountAssumption ==
    /\ IsFiniteSet(Slots) /\ Slots # {}
    /\ Lists \subseteq (SUBSET (1..3)) \ {{}}
    /\ MaxUsers \in Nat \ {0}
    /\ MaxRequests \in Nat /\ MaxRows \in Nat /\ MaxTokens \in Nat
    /\ MaxFaults \in Nat
    /\ NoPhone \notin Phones

VARIABLES
    rows,      \* users, by primary key
    refresh,   \* token:refresh:<id>, 0 when there is none
    issued,    \* token pairs generated, by user
    held,      \* the refresh tokens clients were answered with, by user
    snapshot,  \* waitlist:info:<open id>
    req,       \* the request each slot serves
    requests,  \* how many there have been
    faults,
    invited,   \* users that were created within MaxUsers
    reverted   \* users whose activation a login has overwritten

tokenVars == <<refresh, issued, held>>
ghostVars == <<invited, reverted>>
accountVars == <<rows, tokenVars, snapshot, req, requests, faults, ghostVars>>

Statuses == {"waitlisted", "onboarding", "contact", "active"}
Priorities == 1..3
IDs == 1..MaxRows
Row == [openid : OpenIDs, phone : Phones \cup {NoPhone}, status : Statuses,
        contacts : SUBSET Priorities, deleted : BOOLEAN, grants : Nat]

Steps == {"waitlist", "bind_phone", "fill_contacts", "home"}
Snapshot == [id : IDs, step : Steps]
None == [id |-> 0]

LoginKinds == {"exchange", "verify"}
ContactKinds == {"create", "replace", "remove"}
AllKinds == LoginKinds \cup ContactKinds \cup {"waitlist", "refresh", "delete"}

PCs == {"cache", "phone", "lookup", "fallback", "count", "create", "bind",
        "generate", "store", "answer", "snap", "check", "read", "write"}

(* A request: what it asks for, the row it works on with what it has read  *)
(* of it, the token it hands out, and the users who were already deleted   *)
(* when it began.                                                          *)
Request == [pc : PCs, kind : AllKinds, openid : OpenIDs \cup {NoPhone},
            phone : Phones \cup {NoPhone}, list : SUBSET Priorities,
            id : 0..MaxRows, status : Statuses, bound : BOOLEAN,
            contacts : SUBSET Priorities, token : 0..MaxTokens,
            gone : SUBSET IDs]

AccountTypeOK ==
    /\ rows \in Seq(Row) /\ Len(rows) <= MaxRows
    /\ refresh \in [IDs -> 0..MaxTokens]
    /\ issued \in [IDs -> 0..MaxTokens]
    /\ held \in [IDs -> SUBSET (1..MaxTokens)]
    /\ snapshot \in [OpenIDs -> Snapshot \cup {None}]
    /\ req \in [Slots -> Request \cup {None}]
    /\ requests \in 0..MaxRequests
    /\ faults \in 0..MaxFaults
    /\ invited \subseteq DOMAIN rows /\ reverted \subseteq DOMAIN rows
    /\ \A s \in Slots : req[s].id \in 0..Len(rows)
    /\ \A i \in IDs : refresh[i] <= issued[i] /\ held[i] \subseteq 1..issued[i]

AccountInit ==
    /\ rows = <<>>
    /\ refresh = [i \in IDs |-> 0]
    /\ issued = [i \in IDs |-> 0]
    /\ held = [i \in IDs |-> {}]
    /\ snapshot = [o \in OpenIDs |-> None]
    /\ req = [s \in Slots |-> None]
    /\ requests = 0
    /\ faults = 0
    /\ invited = {} /\ reverted = {}

-----------------------------------------------------------------------------
(* The table                                                               *)

(* deleted_at IS NULL, which gen adds to every query it builds.            *)
Live == {i \in DOMAIN rows : ~rows[i].deleted}

LiveByOpenID(o) == {i \in Live : rows[i].openid = o}

(* GetByPhoneHash: raw SQL, LIMIT 1 without an order.                      *)
AnyByPhone(p) == {i \in DOMAIN rows : rows[i].phone = p}

(* The partial unique indexes: of live rows only.                          *)
PhoneFree(p, i) == \A j \in Live \ {i} : rows[j].phone # p
OpenIDFree(o) == LiveByOpenID(o) = {}

NextStep(status, phoneVerified) ==
    CASE status = "waitlisted" -> "waitlist"
      [] status = "active" -> "home"
      [] status \in {"onboarding", "contact"} ->
            IF phoneVerified THEN "fill_contacts" ELSE "bind_phone"

StepOf(row) == NextStep(row.status, row.phone # NoPhone)

-----------------------------------------------------------------------------
(* Requests                                                                *)

At(s, kinds, pc) == req[s] # None /\ req[s].kind \in kinds /\ req[s].pc = pc

Goto(s, pc) == req' = [req EXCEPT ![s].pc = pc]

(* The request works on row i, which it has just read.                     *)
Take(s, i, pc) ==
    req' = [req EXCEPT ![s] =
              [@ EXCEPT !.pc = pc, !.id = i, !.status = rows[i].status,
                        !.bound = rows[i].phone # NoPhone,
                        !.contacts = rows[i].contacts]]

(* The answer, be it an error.                                             *)
Done(s) == req' = [req EXCEPT ![s] = None]

OnlyReads == UNCHANGED <<rows, tokenVars, snapshot, requests, ghostVars>>

Fault == faults < MaxFaults /\ faults' = faults + 1
NoFault == UNCHANGED faults

Begin(s, kind, pc, o, p, i, list, token) ==
    /\ kind \in Kinds
    /\ req[s] = None
    /\ requests < MaxRequests
    /\ requests' = requests + 1
    /\ req' = [req EXCEPT ![s] =
                 [pc |-> pc, kind |-> kind, openid |-> o, phone |-> p,
                  list |-> list, id |-> i, status |-> "waitlisted",
                  bound |-> FALSE, contacts |-> {}, token |-> token,
                  gone |-> IF kind \in LoginKinds \cup {"refresh"}
                           THEN DOMAIN rows \ Live ELSE {}]]
    /\ UNCHANGED <<rows, tokenVars, snapshot, faults, ghostVars>>

(* An access token names its user, and is good until it expires, whatever  *)
(* happens to the user.                                                    *)
SignedIn == {i \in IDs : held[i] # {}}

BeginExchange(s) ==
    \E o \in OpenIDs, p \in Phones :
        Begin(s, "exchange", "lookup", o, p, 0, {}, 0)

(* The code has been accepted: see Captcha.                                *)
BeginVerify(s) ==
    \E o \in OpenIDs, p \in Phones :
        Begin(s, "verify", "phone", o, p, 0, {}, 0)

BeginWaitlist(s) ==
    \E o \in OpenIDs : Begin(s, "waitlist", "cache", o, NoPhone, 0, {}, 0)

BeginRefresh(s) ==
    \E i \in SignedIn : \E k \in held[i] :
        Begin(s, "refresh", "check", NoPhone, NoPhone, i, {}, k)

BeginContact(s) ==
    \E i \in SignedIn, list \in Lists, kind \in ContactKinds :
        /\ kind # "replace" => Cardinality(list) = 1
        /\ Begin(s, kind, "read", NoPhone, NoPhone, i, list, 0)

BeginDelete(s) ==
    \E i \in SignedIn : Begin(s, "delete", "read", NoPhone, NoPhone, i, {}, 0)

-----------------------------------------------------------------------------
(* Logins                                                                  *)

(* Exchange: the row with this open id and phone, else with this open id.  *)
(* The login by code looks for the open id only.                           *)
Lookup(s) ==
    /\ At(s, LoginKinds, "lookup")
    /\ IF req[s].kind = "exchange"
       THEN \/ \E i \in LiveByOpenID(req[s].openid) : Take(s, i, "phone")
            \/ OpenIDFree(req[s].openid) /\ Goto(s, "phone")
       ELSE \/ \E i \in LiveByOpenID(req[s].openid) : Take(s, i, "bind")
            \/ OpenIDFree(req[s].openid) /\ Goto(s, "fallback")
    /\ OnlyReads /\ NoFault

(* Exchange refuses a phone that any other row has, deleted ones included. *)
ExchangePhone(s) ==
    LET owners == AnyByPhone(req[s].phone)
        next == IF req[s].id = 0 THEN "count" ELSE "bind"
    IN  /\ At(s, {"exchange"}, "phone")
        /\ IF owners = {} THEN Goto(s, next)
           ELSE \E i \in owners :
                   IF i = req[s].id THEN Goto(s, next) ELSE Done(s)
        /\ OnlyReads /\ NoFault

(* The login by code refuses a phone whose row has another open id.  An    *)
(* error of this query is ignored.                                         *)
VerifyPhone(s) ==
    LET owners == AnyByPhone(req[s].phone)
    IN  /\ At(s, {"verify"}, "phone")
        /\ \/ /\ NoFault
              /\ IF owners = {} THEN Goto(s, "lookup")
                 ELSE \E i \in owners :
                         IF rows[i].openid = req[s].openid
                         THEN Goto(s, "lookup") ELSE Done(s)
           \/ Fault /\ Goto(s, "lookup")
        /\ OnlyReads

(* "Old users first": without a row for the open id, any row with the      *)
(* phone, also a deleted one.                                              *)
VerifyFallback(s) ==
    LET owners == AnyByPhone(req[s].phone)
    IN  /\ At(s, {"verify"}, "fallback")
        /\ IF owners = {} THEN Goto(s, "count")
           ELSE \E i \in owners : Take(s, i, "bind")
        /\ OnlyReads /\ NoFault

(* Broken variant: logins do not look at the capacity.                     *)
MutHasCapacity == TRUE

HasCapacity == Cardinality(Live) < MaxUsers

LoginCount(s) ==
    /\ At(s, LoginKinds, "count")
    /\ IF HasCapacity THEN Goto(s, "create") ELSE Done(s)
    /\ OnlyReads /\ NoFault

(* The INSERT of a user, who has the next primary key.                     *)
Insert(o, p, status, grants) ==
    /\ Len(rows) < MaxRows
    /\ rows' = Append(rows, [openid |-> o, phone |-> p, status |-> status,
                             contacts |-> {}, deleted |-> FALSE,
                             grants |-> grants])
    /\ invited' = IF status = "waitlisted" THEN invited
                  ELSE invited \cup {Len(rows) + 1}
    /\ UNCHANGED reverted

(* User, wallet and bonus in one transaction, or none if another request   *)
(* has taken the open id or the phone.                                     *)
LoginCreate(s) ==
    /\ At(s, LoginKinds, "create")
    /\ IF OpenIDFree(req[s].openid) /\ PhoneFree(req[s].phone, 0)
       THEN /\ Insert(req[s].openid, req[s].phone, "contact", 1)
            /\ req' = [req EXCEPT ![s] = [@ EXCEPT !.pc = "generate",
                                                    !.id = Len(rows) + 1]]
       ELSE Done(s) /\ UNCHANGED <<rows, ghostVars>>
    /\ UNCHANGED <<tokenVars, snapshot, requests>>
    /\ NoFault

(* Broken variant: the wallet is created without looking for one.          *)
MutInitWallet(row) == [row EXCEPT !.grants = @ + 1]

(* The wallet and its bonus, unless the user has one.                      *)
InitWallet(row) == IF row.grants = 0 THEN [row EXCEPT !.grants = 1] ELSE row

NewStatus(s) == IF req[s].status \in {"waitlisted", "onboarding"}
                THEN "contact" ELSE rows[req[s].id].status

(* UPDATE ... WHERE id = ? AND deleted_at IS NULL: no row, no error.       *)
BoundRow(s, row) ==
    IF row.deleted THEN row
    ELSE [row EXCEPT !.phone = req[s].phone, !.status = NewStatus(s)]

(* A user that has been found: phone and status are written as the row     *)
(* that was read suggests.  One that had no phone gets its wallet in the   *)
(* same transaction - even if it has been deleted in the meantime.         *)
LoginBind(s) ==
    LET i == req[s].id
        bound == BoundRow(s, rows[i])
        row == IF req[s].bound THEN bound ELSE InitWallet(bound)
    IN  /\ At(s, LoginKinds, "bind")
        /\ IF rows[i].deleted \/ PhoneFree(req[s].phone, i)
           THEN /\ rows' = [rows EXCEPT ![i] = row]
                /\ reverted' = IF rows[i].status = "active"
                                  /\ row.status # "active"
                               THEN reverted \cup {i} ELSE reverted
                /\ Goto(s, "generate")
           ELSE Done(s) /\ UNCHANGED <<rows, reverted>>
        /\ UNCHANGED <<tokenVars, snapshot, requests, invited>>
        /\ NoFault

-----------------------------------------------------------------------------
(* Tokens                                                                  *)

TokenKinds == LoginKinds \cup {"refresh"}

(* GenerateTokenPair signs the user's id and the second it is: a pair      *)
(* generated in the same second as the last one is the same pair.          *)
GenerateTokenPair(s) ==
    LET i == req[s].id
    IN  /\ At(s, TokenKinds, "generate")
        /\ \E k \in {issued[i], issued[i] + 1} \cap 1..MaxTokens :
              /\ issued' = [issued EXCEPT ![i] = k]
              /\ req' = [req EXCEPT ![s] = [@ EXCEPT !.pc = "store",
                                                      !.token = k]]
        /\ UNCHANGED <<rows, refresh, held, snapshot, requests, ghostVars>>
        /\ NoFault

(* SetRefreshToken; its error is only logged.                              *)
SetRefreshToken(s) ==
    LET i == req[s].id
    IN  /\ At(s, TokenKinds, "store")
        /\ \/ NoFault /\ refresh' = [refresh EXCEPT ![i] = req[s].token]
           \/ Fault /\ UNCHANGED refresh
        /\ Goto(s, "answer")
        /\ UNCHANGED <<rows, issued, held, snapshot, requests, ghostVars>>

AnswerToken(s) ==
    LET i == req[s].id
    IN  /\ At(s, TokenKinds, "answer")
        /\ held' = [held EXCEPT ![i] = @ \cup {req[s].token}]
        /\ Done(s)
        /\ UNCHANGED <<rows, refresh, issued, snapshot, requests, ghostVars>>
        /\ NoFault

(* Broken variant: the token is used up when it is checked.                *)
MutValidateRefreshToken(s) ==
    LET i == req[s].id
    IN  /\ At(s, {"refresh"}, "check")
        /\ IF refresh[i] = req[s].token
           THEN Goto(s, "lookup") /\ refresh' = [refresh EXCEPT ![i] = 0]
           ELSE Done(s) /\ UNCHANGED refresh
        /\ UNCHANGED <<rows, issued, held, snapshot, requests, ghostVars>>
        /\ NoFault

(* The signature is good (the client got the token from the server); is it *)
(* the one that is stored?                                                 *)
ValidateRefreshToken(s) ==
    /\ At(s, {"refresh"}, "check")
    /\ IF refresh[req[s].id] = req[s].token THEN Goto(s, "lookup") ELSE Done(s)
    /\ OnlyReads /\ NoFault

(* Broken variant: the user is looked up with GetByPublicID.               *)
MutRefreshLookup(s) ==
    /\ At(s, {"refresh"}, "lookup")
    /\ Goto(s, "generate")
    /\ OnlyReads /\ NoFault

RefreshLookup(s) ==
    /\ At(s, {"refresh"}, "lookup")
    /\ IF req[s].id \in Live THEN Goto(s, "generate") ELSE Done(s)
    /\ OnlyReads /\ NoFault

-----------------------------------------------------------------------------
(* The waitlist                                                            *)

ReadSnapshot(s) ==
    /\ At(s, {"waitlist"}, "cache")
    /\ \/ NoFault /\ snapshot[req[s].openid] # None /\ Done(s)
       \/ NoFault /\ snapshot[req[s].openid] = None /\ Goto(s, "lookup")
       \/ Fault /\ Goto(s, "lookup")
    /\ OnlyReads

WaitlistLookup(s) ==
    /\ At(s, {"waitlist"}, "lookup")
    /\ \/ \E i \in LiveByOpenID(req[s].openid) : Take(s, i, "snap")
       \/ OpenIDFree(req[s].openid) /\ Goto(s, "count")
    /\ OnlyReads /\ NoFault

(* count + 1 > MaxUsers puts the newcomer in the queue.                    *)
WaitlistCount(s) ==
    /\ At(s, {"waitlist"}, "count")
    /\ LET status == IF Cardinality(Live) + 1 > MaxUsers
                     THEN "waitlisted" ELSE "onboarding"
       IN  req' = [req EXCEPT ![s] = [@ EXCEPT !.pc = "create",
                                               !.status = status]]
    /\ OnlyReads /\ NoFault

WaitlistCreate(s) ==
    /\ At(s, {"waitlist"}, "create")
    /\ IF OpenIDFree(req[s].openid)
       THEN /\ Insert(req[s].openid, NoPhone, req[s].status, 0)
            /\ req' = [req EXCEPT ![s] = [@ EXCEPT !.pc = "snap",
                                                    !.id = Len(rows) + 1]]
       ELSE Done(s) /\ UNCHANGED <<rows, ghostVars>>
    /\ UNCHANGED <<tokenVars, snapshot, requests>>
    /\ NoFault

(* Broken variant: the snapshot takes the phone to be verified.            *)
MutSnapshotOf(s) == [id |-> req[s].id, step |-> NextStep(req[s].status, TRUE)]

SnapshotOf(s) == [id |-> req[s].id,
                  step |-> NextStep(req[s].status, req[s].bound)]

(* The answer is cached for five minutes.                                  *)
SaveSnapshot(s) ==
    /\ At(s, {"waitlist"}, "snap")
    /\ \/ /\ NoFault
          /\ snapshot' = [snapshot EXCEPT ![req[s].openid] = SnapshotOf(s)]
       \/ Fault /\ UNCHANGED snapshot
    /\ Done(s)
    /\ UNCHANGED <<rows, tokenVars, requests, ghostVars>>

SnapshotExpires(o) ==
    /\ snapshot[o] # None
    /\ snapshot' = [snapshot EXCEPT ![o] = None]
    /\ UNCHANGED <<rows, tokenVars, req, requests, faults, ghostVars>>

-----------------------------------------------------------------------------
(* Contacts and deletion                                                   *)

ThePriority(s) == CHOOSE p \in req[s].list : TRUE

(* Broken variant: the last contact can be deleted.                        *)
MutListAllows(s, contacts) ==
    CASE req[s].kind = "create" ->
            Cardinality(contacts) < 3 /\ ThePriority(s) \notin contacts
      [] req[s].kind = "remove" -> ThePriority(s) \in contacts
      [] OTHER -> TRUE

(* The checks of CreateContact (at most three, a free priority),           *)
(* DeleteContact (never the last one) and ReplaceContacts.                 *)
ListAllows(s, contacts) ==
    CASE req[s].kind = "create" ->
            Cardinality(contacts) < 3 /\ ThePriority(s) \notin contacts
      [] req[s].kind = "remove" ->
            Cardinality(contacts) > 1 /\ ThePriority(s) \in contacts
      [] OTHER -> TRUE

(* GetByPublicID finds deleted users as well.                              *)
ReadUser(s) ==
    /\ At(s, ContactKinds \cup {"delete"}, "read")
    /\ IF ListAllows(s, rows[req[s].id].contacts)
       THEN Take(s, req[s].id, "write") ELSE Done(s)
    /\ OnlyReads /\ NoFault

(* Broken variant: what is left by a deletion is renumbered from 0.        *)
MutNewList(s) ==
    CASE req[s].kind = "create" -> req[s].contacts \cup req[s].list
      [] req[s].kind = "remove" -> 0..(Cardinality(req[s].contacts) - 2)
      [] OTHER -> req[s].list

(* The whole list is written.  What is left by a deletion is renumbered.   *)
NewList(s) ==
    CASE req[s].kind = "create" -> req[s].contacts \cup req[s].list
      [] req[s].kind = "remove" -> 1..(Cardinality(req[s].contacts) - 1)
      [] OTHER -> req[s].list

(* The first contact of a user in status contact makes it active - first   *)
(* and in status contact by what was read.                                 *)
Activates(s) == /\ req[s].kind # "remove"
                /\ req[s].contacts = {}
                /\ req[s].status = "contact"

(* Broken variant: the update is not limited to users that exist.          *)
MutWritable(i) == TRUE

Writable(i) == i \in Live

WriteContacts(s) ==
    LET i == req[s].id
    IN  /\ At(s, ContactKinds, "write")
        /\ rows' = IF Writable(i)
                   THEN [rows EXCEPT ![i].contacts = NewList(s),
                                     ![i].status = IF Activates(s) THEN "active"
                                                   ELSE @]
                   ELSE rows
        /\ Done(s)
        /\ UNCHANGED <<tokenVars, snapshot, requests, ghostVars>>
        /\ NoFault

(* DeleteUser: the row only; tokens, contacts and wallet stay.             *)
DeleteUser(s) ==
    LET i == req[s].id
    IN  /\ At(s, {"delete"}, "write")
        /\ rows' = [rows EXCEPT ![i].deleted = TRUE]
        /\ Done(s)
        /\ UNCHANGED <<tokenVars, snapshot, requests, ghostVars>>
        /\ NoFault

-----------------------------------------------------------------------------

(* A call fails and the handler answers with an error, or the server dies: *)
(* what was written stays.                                                 *)
Abort(s) ==
    /\ req[s] # None
    /\ Fault
    /\ Done(s)
    /\ OnlyReads

Serve(s) ==
    \/ BeginExchange(s) \/ BeginVerify(s) \/ BeginWaitlist(s)
    \/ BeginRefresh(s) \/ BeginContact(s) \/ BeginDelete(s)
    \/ Lookup(s) \/ ExchangePhone(s) \/ VerifyPhone(s) \/ VerifyFallback(s)
    \/ LoginCount(s) \/ LoginCreate(s) \/ LoginBind(s)
    \/ GenerateTokenPair(s) \/ SetRefreshToken(s) \/ AnswerToken(s)
    \/ ValidateRefreshToken(s) \/ RefreshLookup(s)
    \/ ReadSnapshot(s) \/ WaitlistLookup(s) \/ WaitlistCount(s)
    \/ WaitlistCreate(s) \/ SaveSnapshot(s)
    \/ ReadUser(s) \/ WriteContacts(s) \/ DeleteUser(s)
    \/ Abort(s)

AccountNext ==
    \/ \E s \in Slots : Serve(s)
    \/ \E o \in OpenIDs : SnapshotExpires(o)

AccountSpec == AccountInit /\ [][AccountNext]_accountVars

-----------------------------------------------------------------------------

(* An active user, whom the timeouts of check-ins and journeys may have to *)
(* raise an alarm for, always has somebody to alert; and whoever has       *)
(* contacts is active - unless a login that had read the row before the    *)
(* activation wrote its status afterwards, and then nothing activates the  *)
(* user any more.                                                          *)
ActiveHasContacts ==
    \A i \in DOMAIN rows : rows[i].status = "active" => rows[i].contacts # {}

ContactsActivate ==
    \A i \in DOMAIN rows :
        rows[i].contacts # {} => rows[i].status = "active" \/ i \in reverted

(* Contacts and activation belong together, however contact changes and    *)
(* logins of one user race.                                                *)
ContactsMakeActive == ActiveHasContacts /\ ContactsActivate

(* Nobody gets the welcome bonus twice, and every user with a phone got    *)
(* it, in whatever order logins for one user run.                          *)
OneBonus ==
    /\ \A i \in DOMAIN rows : rows[i].grants <= 1
    /\ \A i \in Live : rows[i].phone # NoPhone => rows[i].grants = 1

(* The capacity is a count before an insert: what that costs at most is    *)
(* one user per other request that has counted.                            *)
CapacityOvershootBounded ==
    Cardinality(invited \cap Live) <= MaxUsers + Cardinality(Slots) - 1

(* A deleted user is never changed again - not by requests that were on    *)
(* their way, nor by those its access token still admits - but for the     *)
(* wallet of a login that was on its way.                                  *)
DeletedIsFrozen ==
    [][\A i \in DOMAIN rows :
          rows[i].deleted =>
              rows'[i] = [rows[i] EXCEPT !.grants = rows'[i].grants]]_accountVars

(* Tokens for a user that was deleted before the request began are handed  *)
(* out by the login by code only, whose lookup by phone finds deleted      *)
(* rows: a refresh token dies with its user.                               *)
OnlyCodesRevive ==
    \A s \in Slots :
        req[s] # None /\ req[s].pc \in {"generate", "store", "answer"}
            => req[s].id \notin req[s].gone \/ req[s].kind = "verify"

(* However logins and refreshes of one user race, the stored token is one  *)
(* that some client has got or is about to get: they never lock each other *)
(* out altogether.  (A server that dies before it answers does.)           *)
SomebodyStaysSignedIn ==
    faults = 0 =>
        \A i \in SignedIn :
            \/ refresh[i] \in held[i]
            \/ \E s \in Slots : /\ At(s, TokenKinds, "answer")
                                /\ req[s].id = i
                                /\ req[s].token = refresh[i]

Rank(step) == CASE step = "waitlist" -> 0
                [] step = "bind_phone" -> 1
                [] step = "fill_contacts" -> 2
                [] step = "home" -> 3

(* The user has come as far as the step, or a login threw him back.        *)
Reached(step, i) == Rank(step) <= Rank(StepOf(rows[i])) \/ i \in reverted

(* The deleted accounts of an open id.                                     *)
Former(o) == {i \in DOMAIN rows \ Live : rows[i].openid = o}

(* The waitlist's answer is cached by open id and served to whoever has    *)
(* that open id now. However late it was read, saved and used, it sends    *)
(* nobody ahead to a step he has not reached himself - but for those who   *)
(* deleted their account and signed up again: DeleteUser leaves the        *)
(* snapshot, and a request on its way may still save one, so that a new    *)
(* user can be sent where his deleted account had got to, and never        *)
(* further.                                                                *)
OnlyReturnersAreSentAhead ==
    \A o \in OpenIDs : \A i \in LiveByOpenID(o) :
        snapshot[o] # None =>
            \E j \in {i} \cup Former(o) : Reached(snapshot[o].step, j)

=============================================================================
