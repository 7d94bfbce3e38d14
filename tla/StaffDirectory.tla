--------------------------- MODULE StaffDirectory ---------------------------
(***************************************************************************)
(* The link between staff records and login accounts (staffs.user_id):     *)
(* the handlers that create, update and delete staff                       *)
(* (internal/controllers/staff.go), the accounts that come and go beside   *)
(* them, and the start of the server, which fills in missing links         *)
(* (internal/database/migrations.go).  A handler checks a link with reads  *)
(* and writes the record in a later statement; the unique indexes of the   *)
(* table have the last word.                                               *)
(***************************************************************************)
EXTENDS Naturals, Sequences

CONSTANTS
    Requests,  \* the staff requests that can be in flight at the same time
    Emails,
    MaxStaff,  \* bound: staff records ever created
    MaxUsers   \* bound: accounts ever created

ASSUME StaffAssumption == Emails # {} /\ MaxStaff \in Nat /\ MaxUsers \in Nat

VARIABLES
    staff,     \* the rows of staffs, deleted ones included, by id
    users,     \* the rows of users, deleted ones included, by id
    pc,        \* per request, "idle" or "store": what it executes next
    draft,     \* per request, the record that it will store
    target,    \* per request, the id it stores the record under, or New
    server,    \* "up", "down", or "failed" when the migrations end in an error
    raced      \* history: per request, ids that the check of its link has not seen

vars == <<staff, users, pc, draft, target, server, raced>>

NoUser == 0   \* user_id is NULL
New == 0      \* the id of a record that has none yet

Account == [live: BOOLEAN, email: Emails]
Record == [live: BOOLEAN, email: Emails, user: Nat]
Blank == [live |-> FALSE, email |-> CHOOSE e \in Emails : TRUE, user |-> NoUser]

TypeOK ==
    /\ staff \in Seq(Record) /\ Len(staff) <= MaxStaff
    /\ users \in Seq(Account) /\ Len(users) <= MaxUsers
    /\ \A s \in DOMAIN staff : staff[s].user \in DOMAIN users \cup {NoUser}
    /\ pc \in [Requests -> {"idle", "store"}]
    /\ draft \in [Requests -> Record]
    /\ \A r \in Requests : draft[r].user \in DOMAIN users \cup {NoUser}
    /\ target \in [Requests -> DOMAIN staff \cup {New}]
    /\ server \in {"up", "down", "failed"}
    /\ raced \in [Requests -> SUBSET DOMAIN staff]

-----------------------------------------------------------------------------
(* The unique indexes *)

(* idx_staffs_user_id: deleted rows count as well. *)
UserOnce(table) ==
    \A s, t \in DOMAIN table :
        s # t /\ table[s].user # NoUser => table[s].user # table[t].user

(* idx_staffs_email_active and idx_users_email_active: live rows only. *)
EmailOnce(table) ==
    \A s, t \in DOMAIN table :
        s # t /\ table[s].live /\ table[t].live => table[s].email # table[t].email

(* Mutant of UniqueIndexes: user_id is an ordinary column. *)
UniqueIndexes_Plain(table) == EmailOnce(table)

UniqueIndexes(table) == UserOnce(table) /\ EmailOnce(table)

-----------------------------------------------------------------------------
(* Staff requests *)

(* Mutant of ValidUserLink: only the account is looked up. *)
ValidUserLink_AnyStaff(u, s, seen) == users[u].live

(* The account exists and no other live staff record that the second read sees has it. *)
ValidUserLink(u, s, seen) ==
    /\ users[u].live
    /\ \A t \in seen : staff[t].live /\ staff[t].user = u => t = s

(* The second read sees every record; an error of it is taken for "no record". *)
Lookups == {DOMAIN staff, {}}

(* The request has passed its checks and holds the record that it will store. *)
Checked(r, record, id, seen) ==
    /\ server = "up"
    /\ pc[r] = "idle"
    /\ pc' = [pc EXCEPT ![r] = "store"]
    /\ draft' = [draft EXCEPT ![r] = record]
    /\ target' = [target EXCEPT ![r] = id]
    /\ raced' = [raced EXCEPT ![r] = DOMAIN staff \ seen]
    /\ UNCHANGED <<staff, users, server>>

(* POST, up to validateUserLink; a link is optional and never guessed from the email. *)
CreateStaff(r) ==
    \E e \in Emails, u \in DOMAIN users \cup {NoUser}, seen \in Lookups :
        /\ IF u = NoUser THEN seen = DOMAIN staff ELSE ValidUserLink(u, New, seen)
        /\ Checked(r, [live |-> TRUE, email |-> e, user |-> u], New, seen)

(* PUT: the record is loaded, changed where the body says so, and checked. *)
UpdateStaff(r) ==
    \E s \in DOMAIN staff : staff[s].live /\
        \E e \in Emails, u \in DOMAIN users \cup {staff[s].user}, seen \in Lookups :
            /\ IF u = staff[s].user THEN seen = DOMAIN staff ELSE ValidUserLink(u, s, seen)
            /\ Checked(r, [live |-> TRUE, email |-> e, user |-> u], s, seen)

(* The table after the write of r: a new row, or the whole row again. *)
Stored(r) ==
    IF target[r] = New THEN Append(staff, draft[r])
    ELSE [staff EXCEPT ![target[r]] = draft[r]]

(***************************************************************************)
(* staffRepo.Create or staffRepo.Update.  Update is gorm's Save, which     *)
(* inserts the record again under its id when it was deleted meanwhile.    *)
(* A write that an index refuses is answered with 500.                     *)
(***************************************************************************)
StoreStaff(r) ==
    /\ pc[r] = "store"
    /\ target[r] = New => Len(staff) < MaxStaff
    /\ LET new == Stored(r)
           id  == IF target[r] = New THEN Len(new) ELSE target[r]
       IN  IF UniqueIndexes(new)
           THEN /\ staff' = new
                /\ raced' = [q \in Requests |->
                      IF q = r \/ pc[q] = "idle" THEN {} ELSE raced[q] \cup {id}]
           ELSE /\ raced' = [raced EXCEPT ![r] = {}]
                /\ UNCHANGED staff
    /\ pc' = [pc EXCEPT ![r] = "idle"]
    /\ draft' = [draft EXCEPT ![r] = Blank]
    /\ target' = [target EXCEPT ![r] = New]
    /\ UNCHANGED <<users, server>>

(* DELETE: a soft delete, which leaves user_id as it is. *)
DeleteStaff(s) ==
    /\ server = "up"
    /\ s \in DOMAIN staff /\ staff[s].live
    /\ staff' = [staff EXCEPT ![s].live = FALSE]
    /\ UNCHANGED <<users, pc, draft, target, server, raced>>

-----------------------------------------------------------------------------
(* Accounts *)

(* Register, or CreateUser by an administrator. *)
CreateUser ==
    /\ server = "up"
    /\ Len(users) < MaxUsers
    /\ \E e \in Emails :
          LET new == Append(users, [live |-> TRUE, email |-> e])
          IN  EmailOnce(new) /\ users' = new
    /\ UNCHANGED <<staff, pc, draft, target, server, raced>>

(* UpdateUser; the account may have been deleted since it was loaded. *)
SaveUser ==
    /\ server = "up"
    /\ \E u \in DOMAIN users, e \in Emails :
          LET new == [users EXCEPT ![u] = [live |-> TRUE, email |-> e]]
          IN  EmailOnce(new) /\ users' = new
    /\ UNCHANGED <<staff, pc, draft, target, server, raced>>

(* DeleteUser: a soft delete; a staff record keeps its link. *)
DeleteUser ==
    /\ server = "up"
    /\ \E u \in DOMAIN users : users[u].live /\ users' = [users EXCEPT ![u].live = FALSE]
    /\ UNCHANGED <<staff, pc, draft, target, server, raced>>

-----------------------------------------------------------------------------
(* Stop and start *)

(* The process ends; the requests in flight are lost. *)
Stop ==
    /\ server = "up"
    /\ server' = "down"
    /\ pc' = [r \in Requests |-> "idle"]
    /\ draft' = [r \in Requests |-> Blank]
    /\ target' = [r \in Requests |-> New]
    /\ raced' = [r \in Requests |-> {}]
    /\ UNCHANGED <<staff, users>>

(* The live accounts with an email; the index of users leaves at most one. *)
AccountsOf(e) == {u \in DOMAIN users : users[u].live /\ users[u].email = e}

(* Mutant of Backfilled: records that have a link are matched again. *)
Backfilled_Again ==
    [s \in DOMAIN staff |->
        IF staff[s].live /\ AccountsOf(staff[s].email) # {}
        THEN [staff[s] EXCEPT !.user = CHOOSE u \in AccountsOf(staff[s].email) : TRUE]
        ELSE staff[s]]

(* Mutant of Backfilled: the record's own id is written. *)
Backfilled_OwnId ==
    [s \in DOMAIN staff |->
        IF staff[s].live /\ staff[s].user = NoUser /\ AccountsOf(staff[s].email) # {}
        THEN [staff[s] EXCEPT !.user = s]
        ELSE staff[s]]

(* The UPDATE of BackfillStaffUserLinks. *)
Backfilled ==
    [s \in DOMAIN staff |->
        IF staff[s].live /\ staff[s].user = NoUser /\ AccountsOf(staff[s].email) # {}
        THEN [staff[s] EXCEPT !.user = CHOOSE u \in AccountsOf(staff[s].email) : TRUE]
        ELSE staff[s]]

(* The migrations run on every start; when one fails the process exits. *)
Start ==
    /\ server # "up"
    /\ IF UniqueIndexes(Backfilled)
       THEN server' = "up" /\ staff' = Backfilled
       ELSE server' = "failed" /\ UNCHANGED staff
    /\ UNCHANGED <<users, pc, draft, target, raced>>

-----------------------------------------------------------------------------
Init ==
    /\ staff = <<>>
    /\ users = <<>>
    /\ pc = [r \in Requests |-> "idle"]
    /\ draft = [r \in Requests |-> Blank]
    /\ target = [r \in Requests |-> New]
    /\ server = "down"
    /\ raced = [r \in Requests |-> {}]

Next ==
    \/ \E r \in Requests : CreateStaff(r) \/ UpdateStaff(r) \/ StoreStaff(r)
    \/ \E s \in 1..MaxStaff : DeleteStaff(s)
    \/ CreateUser \/ SaveUser \/ DeleteUser
    \/ Stop \/ Start

Spec == Init /\ [][Next]_vars

-----------------------------------------------------------------------------
(* Properties *)

(***************************************************************************)
(* An account opens at most one live staff record, so that                 *)
(* /protected/timetable/my has one answer: two requests that both found    *)
(* the account free do not both link it, and the start of the server does  *)
(* not link what a request has linked.                                     *)
(***************************************************************************)
OneStaffPerUser ==
    \A s, t \in DOMAIN staff :
        s # t /\ staff[s].live /\ staff[t].live /\ staff[s].user # NoUser
            => staff[s].user # staff[t].user

(***************************************************************************)
(* What validateUserLink has found free is taken only by a record written  *)
(* since, still held by a deleted one, or held by one that the check could *)
(* not read: those are the only ways to an answer of 500 where the check   *)
(* promises 400 or success.                                                *)
(***************************************************************************)
LinkFreeUnlessRaced ==
    \A r \in Requests : pc[r] = "store" /\ draft[r].user # NoUser =>
        \A t \in DOMAIN staff \ {target[r]} :
            staff[t].user = draft[r].user => ~staff[t].live \/ t \in raced[r]

(***************************************************************************)
(* A start changes no link that exists, and gives a record only the        *)
(* account that has its email then ("existing links are never              *)
(* overwritten").                                                          *)
(***************************************************************************)
StartOnlyAddsLinks ==
    [][server # "up" =>
          \A s \in DOMAIN staff :
              /\ staff[s].user # NoUser => staff'[s] = staff[s]
              /\ staff'[s].user # staff[s].user =>
                    staff[s].live /\ staff'[s].user \in AccountsOf(staff[s].email)]_vars

(* The migrations are safe to run on every boot. *)
StartSucceeds == server # "failed"
=============================================================================
