---------------------------- MODULE UserAccounts ----------------------------
(***************************************************************************)
(* One row of the table users and the requests that write it: Login,       *)
(* VerifyEmail, ResetPassword (internal/controllers/auth.go), GetProfile,  *)
(* ChangePassword, UpdateUser and DeleteUser (internal/controllers/user.go)*)
(* Each of them reads the row first.  Some write one column of it, others  *)
(* write back the whole row as they have read it (userRepo.Update is       *)
(* gorm's Save).  Names, e-mail and phone number are written the way the   *)
(* role is and have no field of their own here; codes are the subject of   *)
(* OtpVerification.                                                        *)
(***************************************************************************)
EXTENDS Integers, FiniteSets

CONSTANTS
    Requests,   \* the requests that can be in flight at the same time
    Passwords,  \* passwords of the account
    Actors,     \* the roles of the administrators that manage the account
    Creations,  \* the rows Register, CreateUser and BootstrapSuperAdmin can insert
    MaxRequests \* bound: requests that get past their first read

Roles == {"user", "administrator", "super_admin"}
Fields == {"live", "active", "verified", "role", "password"}
User == [live: BOOLEAN, active: BOOLEAN, verified: BOOLEAN, role: Roles, password: Passwords]

ASSUME UserAssumption ==
    /\ Actors \subseteq {"administrator", "super_admin"}
    /\ Creations \subseteq {u \in User : u.live /\ u.active = u.verified}
    /\ MaxRequests \in Nat

VARIABLES
    user,      \* the row; it is not live once it is soft-deleted
    pc,        \* per request, the statement it executes next
    draft,     \* per request, the row it has read, with its changes
    gives,     \* per request, the fields it changes
    started,   \* requests so far, for MaxRequests
    wanted,    \* history: per field, the value last asked for
    behind,    \* history: per request, fields that others changed since it read the row
    clobbered  \* history: fields overwritten by a request that did not change them

vars == <<user, pc, draft, gives, started, wanted, behind, clobbered>>

PC == {"idle", "profile", "password", "save", "column", "delete"}

TypeOK ==
    /\ user \in User
    /\ pc \in [Requests -> PC]
    /\ draft \in [Requests -> User]
    /\ gives \in [Requests -> SUBSET Fields]
    /\ started \in Nat
    /\ wanted \in User
    /\ behind \in [Requests -> SUBSET Fields]
    /\ clobbered \in SUBSET Fields

-----------------------------------------------------------------------------
(* r has read the row, changes the fields of row that differ, and goes on.  *)
Read(r, next, row, fields) ==
    /\ pc' = [pc EXCEPT ![r] = next]
    /\ draft' = [draft EXCEPT ![r] = row]
    /\ gives' = [gives EXCEPT ![r] = fields]
    /\ behind' = [behind EXCEPT ![r] = {}]
    /\ UNCHANGED <<user, wanted, clobbered>>

(* A request that starts, within the bound. *)
Start(r) ==
    /\ pc[r] = "idle"
    /\ started < MaxRequests
    /\ started' = started + 1

(* Login with the password of the row: last_login_at is set in the row. *)
Login(r) ==
    /\ Start(r)
    /\ user.live /\ user.active
    /\ Read(r, "save", user, {})

(* VerifyEmail with a valid code: whoever has it, the account is activated. *)
VerifyEmail(r) ==
    /\ Start(r)
    /\ user.live
    /\ Read(r, "save", [user EXCEPT !.verified = TRUE, !.active = TRUE],
            {"verified", "active"})

(* ResetPassword with a valid code. *)
ResetPassword(r) ==
    /\ Start(r)
    /\ user.live
    /\ \E p \in Passwords : Read(r, "column", [user EXCEPT !.password = p], {"password"})

(* ActiveUserMiddleware lets the account's own request in. *)
Authenticate(r) ==
    /\ Start(r)
    /\ user.live /\ user.active
    /\ \E next \in {"profile", "password"} : Read(r, next, user, {})

(* GetProfile reads the row again and sets last_login_at in it. *)
GetProfile(r) ==
    /\ pc[r] = "profile"
    /\ user.live
    /\ Read(r, "save", user, {})
    /\ UNCHANGED started

(* ChangePassword: the current password is checked against the row. *)
ChangePassword(r) ==
    /\ pc[r] = "password"
    /\ user.live
    /\ \E p \in Passwords : Read(r, "column", [user EXCEPT !.password = p], {"password"})
    /\ UNCHANGED started

(* The account is gone when its own request reads it: 500. *)
NotFound(r) ==
    /\ pc[r] \in {"profile", "password"}
    /\ ~user.live
    /\ pc' = [pc EXCEPT ![r] = "idle"]
    /\ UNCHANGED <<user, draft, gives, started, wanted, behind, clobbered>>

(* Only a super admin gives or takes the role super_admin. *)
MayChangeRole(who, old, new) ==
    who = "super_admin" \/ (new # "super_admin" /\ old # "super_admin")

(* Mutant of UpdateUser: a body without a role resets it to the default. *)
UpdateUser_ResetsRole(r) ==
    /\ Start(r)
    /\ user.live
    /\ \E on \in BOOLEAN :
          Read(r, "save", [user EXCEPT !.active = on, !.role = "user"], {"active"})

(* Mutant of UpdateUser: any string is taken for a role. *)
UpdateUser_AnyRole(r) ==
    /\ Start(r)
    /\ user.live
    /\ Read(r, "save", [user EXCEPT !.role = "dean"], {"role"})

(***************************************************************************)
(* UpdateUser by an administrator: the body may give a role and whether the *)
(* account is active.  A role that the row has already needs no permission. *)
(***************************************************************************)
UpdateUser(r) ==
    /\ Start(r)
    /\ user.live
    /\ \E who \in Actors, body \in SUBSET {"role", "active"}, new \in Roles, on \in BOOLEAN :
          /\ "role" \in body /\ new # user.role => MayChangeRole(who, user.role, new)
          /\ Read(r, "save",
                  [user EXCEPT !.role   = IF "role" \in body THEN new ELSE @,
                               !.active = IF "active" \in body THEN on ELSE @],
                  body)

(* DeleteUser by an administrator who may, and not of the own account. *)
DeleteUser(r) ==
    /\ Start(r)
    /\ user.live
    /\ \E who \in Actors :
          /\ MayChangeRole(who, user.role, "user")
          /\ Read(r, "delete", [user EXCEPT !.live = FALSE], {"live"})

(* The write of r changes the fields written of the row. *)
Commit(r, written) ==
    /\ user' = [f \in Fields |-> IF f \in written THEN draft[r][f] ELSE user[f]]
    /\ wanted' = [f \in Fields |-> IF f \in gives[r] THEN draft[r][f] ELSE wanted[f]]
    /\ clobbered' = (clobbered \cup (behind[r] \cap written)) \ gives[r]
    /\ behind' = [q \in Requests |->
                     IF q = r \/ pc[q] = "idle" THEN {}
                     ELSE behind[q] \cup {f \in Fields : user'[f] # user[f]}]
    /\ pc' = [pc EXCEPT ![r] = "idle"]
    /\ UNCHANGED <<draft, gives, started>>

(***************************************************************************)
(* userRepo.Update: all columns.  When the row is deleted by now, Save     *)
(* inserts it again under its id, not deleted.                             *)
(***************************************************************************)
Save(r) ==
    /\ pc[r] = "save"
    /\ Commit(r, Fields)

(* UpdatePassword and Delete: one column, of a row that is not deleted. *)
WriteColumn(r) ==
    /\ pc[r] \in {"column", "delete"}
    /\ IF user.live
       THEN Commit(r, gives[r])
       ELSE /\ pc' = [pc EXCEPT ![r] = "idle"]
            /\ UNCHANGED <<user, draft, gives, started, wanted, behind, clobbered>>

(* The statement fails, for an address that is taken, say: 500. *)
WriteFails(r) ==
    /\ pc[r] \in {"save", "column", "delete"}
    /\ pc' = [pc EXCEPT ![r] = "idle"]
    /\ UNCHANGED <<user, draft, gives, started, wanted, behind, clobbered>>

-----------------------------------------------------------------------------
Init ==
    /\ user \in Creations
    /\ pc = [r \in Requests |-> "idle"]
    /\ draft = [r \in Requests |-> user]
    /\ gives = [r \in Requests |-> {}]
    /\ started = 0
    /\ wanted = user
    /\ behind = [r \in Requests |-> {}]
    /\ clobbered = {}

Arrive(r) ==
    \/ Login(r)
    \/ VerifyEmail(r)
    \/ ResetPassword(r)
    \/ Authenticate(r)
    \/ UpdateUser(r)
    \/ DeleteUser(r)

Step(r) ==
    \/ GetProfile(r)
    \/ ChangePassword(r)
    \/ NotFound(r)
    \/ Save(r)
    \/ WriteColumn(r)
    \/ WriteFails(r)

Next == \E r \in Requests : Arrive(r) \/ Step(r)

Spec == Init /\ [][Next]_vars

-----------------------------------------------------------------------------
(* Properties *)

(***************************************************************************)
(* The password, the role, the activation or the deletion that was last    *)
(* asked for holds, unless a request wrote back a whole row that it had    *)
(* read before: a request alone changes only what it is about, and a write *)
(* of one column never undoes another one.                                 *)
(***************************************************************************)
ChangesLostOnlyToRacer == \A f \in Fields : user[f] # wanted[f] => f \in clobbered
=============================================================================
