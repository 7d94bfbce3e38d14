--------------------------- MODULE Administrators ---------------------------
(***************************************************************************)
(* Who may manage the accounts: logins and the tokens they sign            *)
(* (internal/controllers/auth.go), the middlewares in front of the         *)
(* protected routes (internal/middlewares/auth.go), the requests of        *)
(* administrators about other accounts and the two other handlers that     *)
(* save a whole account (internal/controllers/user.go, auth.go), and the   *)
(* first super administrator, whom the start of the server provides        *)
(* (internal/database/migrations.go) in an installation without SEED_DEMO. *)
(*                                                                         *)
(* A token carries the role that its account had at the login.  What the   *)
(* other columns of an account go through is the subject of UserAccounts.  *)
(***************************************************************************)
EXTENDS Naturals, Sequences

CONSTANTS
    Requests,      \* the requests that can be in flight at the same time
    Populations,   \* the accounts there can be when the server first starts
    Production,    \* whether ENV is "production" or "prod"
    SuperAdminEnv, \* whether SUPERADMIN_EMAIL and SUPERADMIN_PASSWORD are set
    TokenTTL,      \* the 24 hours of a token, in ticks of the clock
    MaxAccounts,   \* bound: accounts ever created
    MaxRequests    \* bound: logins and requests of administrators

Roles == {"user", "administrator", "super_admin"}

(* boot: the account has the e-mail address SUPERADMIN_EMAIL. *)
Account == [live: BOOLEAN, active: BOOLEAN, role: Roles, boot: BOOLEAN]

(* idx_users_email_active, for the one address that matters here. *)
EmailOnce(table) ==
    \A u, v \in DOMAIN table :
        u # v /\ table[u].live /\ table[v].live => ~(table[u].boot /\ table[v].boot)

ASSUME AdministratorsAssumption ==
    /\ Populations \subseteq {p \in Seq(Account) : Len(p) <= MaxAccounts /\ EmailOnce(p)}
    /\ {Production, SuperAdminEnv} \subseteq BOOLEAN
    /\ {TokenTTL, MaxAccounts, MaxRequests} \subseteq Nat

Token == [user: 1..MaxAccounts, role: Roles, age: 0..TokenTTL]

VARIABLES
    accounts, \* the rows of users, deleted ones included, by id
    tokens,   \* the tokens that have not expired
    pc,       \* per request, what it does next
    actor,    \* per request, the token it has come with
    target,   \* per request, the account it is about
    draft,    \* per request, that account as it will be stored
    server,   \* "up" or "down"
    started,  \* requests so far, for MaxRequests
    raced,    \* history: per request, whether its target was written since it was read
    since     \* history: per account and role, the ticks since it last had the role

vars == <<accounts, tokens, pc, actor, target, draft, server, started, raced, since>>

NoAccount == [live |-> FALSE, active |-> FALSE, role |-> "user", boot |-> FALSE]
NoToken == [user |-> 0, role |-> "user", age |-> 0]

TypeOK ==
    /\ accounts \in Seq(Account) /\ Len(accounts) <= MaxAccounts /\ EmailOnce(accounts)
    /\ tokens \subseteq Token
    /\ \A t \in tokens : t.user \in DOMAIN accounts
    /\ pc \in [Requests -> {"idle", "sign", "admitted", "save", "delete"}]
    /\ actor \in [Requests -> Token \cup {NoToken}]
    /\ target \in [Requests -> 0..MaxAccounts]
    /\ \A r \in Requests :
          /\ actor[r] # NoToken => actor[r].user \in DOMAIN accounts
          /\ pc[r] \in {"sign", "save", "delete"} => target[r] \in DOMAIN accounts
    /\ draft \in [Requests -> Account]
    /\ server \in {"up", "down"}
    /\ started \in Nat
    /\ raced \in [Requests -> BOOLEAN]
    /\ since \in [DOMAIN accounts -> [Roles -> 0..(TokenTTL + 1)]]

-----------------------------------------------------------------------------
SuperAdmins == {u \in DOMAIN accounts : accounts[u].live /\ accounts[u].role = "super_admin"}

(* The table users becomes new. *)
Store(new) ==
    /\ accounts' = new
    /\ since' = [u \in DOMAIN new |-> [role \in Roles |->
          IF new[u].live /\ new[u].role = role THEN 0
          ELSE IF u \in DOMAIN since THEN since[u][role] ELSE TokenTTL + 1]]

(* The requests in flight about the accounts in ids do not know of a write by r. *)
Overtaken(r, ids) ==
    raced' = [q \in Requests |->
                 IF q = r THEN FALSE
                 ELSE raced[q] \/ (pc[q] \in {"sign", "save", "delete"} /\ target[q] \in ids)]

(* r is answered. *)
Answer(r) ==
    /\ pc' = [pc EXCEPT ![r] = "idle"]
    /\ actor' = [actor EXCEPT ![r] = NoToken]
    /\ target' = [target EXCEPT ![r] = 0]
    /\ draft' = [draft EXCEPT ![r] = NoAccount]

Start(r) ==
    /\ server = "up"
    /\ pc[r] = "idle"
    /\ started < MaxRequests
    /\ started' = started + 1

(* r has read account u, of which it will store row. *)
Read(r, next, u, row) ==
    /\ pc' = [pc EXCEPT ![r] = next]
    /\ target' = [target EXCEPT ![r] = u]
    /\ draft' = [draft EXCEPT ![r] = row]
    /\ UNCHANGED <<accounts, tokens, server, raced, since>>

-----------------------------------------------------------------------------
(* Login with the right password, up to the check that the account is active. *)
Login(r) ==
    /\ Start(r)
    /\ \E u \in DOMAIN accounts :
          accounts[u].live /\ accounts[u].active /\ Read(r, "sign", u, accounts[u])
    /\ UNCHANGED actor

(* The role that a login or a PUT has read goes into the row again. *)
Written(r) == [accounts EXCEPT ![target[r]] = draft[r]]

(* Login saves the row as it was read, whether or not that works, and signs. *)
Sign(r) ==
    /\ pc[r] = "sign"
    /\ tokens' = tokens \cup {[user |-> target[r], role |-> draft[r].role, age |-> 0]}
    /\ \/ EmailOnce(Written(r)) /\ Store(Written(r)) /\ Overtaken(r, {target[r]})
       \/ Store(accounts) /\ Overtaken(r, {})
    /\ Answer(r)
    /\ UNCHANGED <<server, started>>

(***************************************************************************)
(* JWTAuthMiddleware and ActiveUserMiddleware, which looks the account up. *)
(***************************************************************************)
Authenticate(r) ==
    /\ Start(r)
    /\ \E t \in tokens :
          /\ accounts[t.user].live /\ accounts[t.user].active
          /\ actor' = [actor EXCEPT ![r] = t]
    /\ pc' = [pc EXCEPT ![r] = "admitted"]
    /\ UNCHANGED <<accounts, tokens, target, draft, server, raced, since>>

(* AdminMiddleware takes the role from the token. *)
AdminOnly(r) == pc[r] = "admitted" /\ actor[r].role \in {"administrator", "super_admin"}

(* A check of the handler refuses r, a row is not found, or a statement fails. *)
Refuse(r) ==
    /\ pc[r] # "idle"
    /\ Answer(r)
    /\ raced' = [raced EXCEPT ![r] = FALSE]
    /\ UNCHANGED <<accounts, tokens, server, started, since>>

Inactive(role, boot) == [live |-> TRUE, active |-> FALSE, role |-> role, boot |-> boot]

(* Mutant of Insert: the e-mail address has no unique index. *)
Insert_NoIndex(row) == Len(accounts) < MaxAccounts /\ Store(Append(accounts, row))

(* An INSERT that the index of the e-mail addresses admits. *)
Insert(row) ==
    /\ Len(accounts) < MaxAccounts
    /\ EmailOnce(Append(accounts, row))
    /\ Store(Append(accounts, row))

(* POST /users: only a super administrator creates super administrators. *)
CreateUser(r) ==
    /\ AdminOnly(r)
    /\ \E role \in Roles, boot \in BOOLEAN :
          /\ role = "super_admin" => actor[r].role = "super_admin"
          /\ Insert(Inactive(role, boot))
    /\ Answer(r)
    /\ UNCHANGED <<tokens, server, started, raced>>

(* Mutants of MayChangeRole: only the new role, or only the old one, is looked at. *)
MayChangeRole_NewOnly(who, old, new) == who = "super_admin" \/ new # "super_admin"
MayChangeRole_OldOnly(who, old, new) == who = "super_admin" \/ old # "super_admin"

(* Everybody who gets here is an administrator or a super administrator. *)
MayChangeRole(who, old, new) ==
    old # new => who = "super_admin" \/ "super_admin" \notin {old, new}

(* PUT /users/:id: the account is loaded and takes a role, is_active and an address. *)
UpdateUser(r) ==
    /\ AdminOnly(r)
    /\ \E u \in DOMAIN accounts, role \in Roles, active, boot \in BOOLEAN :
          /\ accounts[u].live
          /\ MayChangeRole(actor[r].role, accounts[u].role, role)
          /\ Read(r, "save", u,
                  [accounts[u] EXCEPT !.role = role, !.active = active, !.boot = boot])
    /\ UNCHANGED <<actor, started>>

(* GET /profile: the own account is loaded, to be saved with the time of the visit. *)
GetProfile(r) ==
    /\ pc[r] = "admitted"
    /\ LET u == actor[r].user
       IN accounts[u].live /\ Read(r, "save", u, accounts[u])
    /\ UNCHANGED <<actor, started>>

(* VerifyEmail with the right code, which nobody has to log in for. *)
VerifyEmail(r) ==
    /\ Start(r)
    /\ \E u \in DOMAIN accounts :
          accounts[u].live /\ Read(r, "save", u, [accounts[u] EXCEPT !.active = TRUE])
    /\ UNCHANGED actor

(* userRepo.Update of the three: a row deleted since it was read is inserted again. *)
Save(r) ==
    /\ pc[r] = "save"
    /\ EmailOnce(Written(r))
    /\ Store(Written(r))
    /\ Overtaken(r, {target[r]})
    /\ Answer(r)
    /\ UNCHANGED <<tokens, server, started>>

(* Mutant of DeleteUser: an account may delete itself. *)
DeleteUser_Self(r) ==
    /\ AdminOnly(r)
    /\ \E u \in DOMAIN accounts :
          /\ accounts[u].live
          /\ accounts[u].role = "super_admin" => actor[r].role = "super_admin"
          /\ Read(r, "delete", u, accounts[u])
    /\ UNCHANGED <<actor, started>>

(* DELETE /users/:id: never the own account, and a super administrator only by one. *)
DeleteUser(r) ==
    /\ AdminOnly(r)
    /\ \E u \in DOMAIN accounts :
          /\ accounts[u].live
          /\ accounts[u].role = "super_admin" => actor[r].role = "super_admin"
          /\ u # actor[r].user
          /\ Read(r, "delete", u, accounts[u])
    /\ UNCHANGED <<actor, started>>

(* userRepo.Delete: a soft delete. *)
Delete(r) ==
    /\ pc[r] = "delete"
    /\ Store([accounts EXCEPT ![target[r]].live = FALSE])
    /\ Overtaken(r, {target[r]})
    /\ Answer(r)
    /\ UNCHANGED <<tokens, server, started>>

(* Register: anybody, and no role but "user". *)
Register ==
    /\ server = "up"
    /\ \E boot \in BOOLEAN : Insert(Inactive("user", boot))
    /\ UNCHANGED <<tokens, pc, actor, target, draft, server, started, raced>>

-----------------------------------------------------------------------------
(* Mutant of Aged: tokens do not expire. *)
Aged_NoExpiry ==
    {[t EXCEPT !.age = IF t.age < TokenTTL THEN t.age + 1 ELSE t.age] : t \in tokens}

(* The tokens one tick later: those past their exp are of no use any more. *)
Aged == {[t EXCEPT !.age = t.age + 1] : t \in {s \in tokens : s.age < TokenTTL}}

(* Some hours pass; a request takes seconds, so none is in flight. *)
Tick ==
    /\ \A r \in Requests : pc[r] = "idle"
    /\ tokens' = Aged
    /\ since' = [u \in DOMAIN since |-> [role \in Roles |->
          IF since[u][role] > TokenTTL \/ (accounts[u].live /\ accounts[u].role = role)
          THEN since[u][role] ELSE since[u][role] + 1]]
    /\ UNCHANGED <<accounts, pc, actor, target, draft, server, started, raced>>

(* The process ends; tokens are with the clients and stay good. *)
Stop ==
    /\ server = "up"
    /\ server' = "down"
    /\ pc' = [r \in Requests |-> "idle"]
    /\ actor' = [r \in Requests |-> NoToken]
    /\ target' = [r \in Requests |-> 0]
    /\ draft' = [r \in Requests |-> NoAccount]
    /\ raced' = [r \in Requests |-> FALSE]
    /\ UNCHANGED <<accounts, tokens, started, since>>

First == [live |-> TRUE, active |-> TRUE, role |-> "super_admin", boot |-> TRUE]

(* BootstrapSuperAdmin counts inactive ones, but no deleted ones. *)
HasSuperAdmin == SuperAdmins # {}

(***************************************************************************)
(* Run: BootstrapSuperAdmin creates the account of SUPERADMIN_EMAIL when   *)
(* there is no super administrator, and in production a start without one  *)
(* and without the variables fails.  A start may also fail before that     *)
(* (the migrations, the Count, a refused password, an address in use) or   *)
(* after it (JWT_SECRET, the notification providers, the port).            *)
(***************************************************************************)
Boot ==
    /\ server = "down"
    /\ server' \in {"up", "down"}
    /\ \/ /\ server' = "up" => HasSuperAdmin \/ ~(SuperAdminEnv \/ Production)
          /\ UNCHANGED <<accounts, since>>
       \/ ~HasSuperAdmin /\ SuperAdminEnv /\ Insert(First)
    /\ UNCHANGED <<tokens, pc, actor, target, draft, started, raced>>

-----------------------------------------------------------------------------
(* Before the first start every active account has a token of its own. *)
Init ==
    /\ accounts \in Populations
    /\ tokens = {[user |-> u, role |-> accounts[u].role, age |-> 0] :
                    u \in {v \in DOMAIN accounts : accounts[v].live /\ accounts[v].active}}
    /\ pc = [r \in Requests |-> "idle"]
    /\ actor = [r \in Requests |-> NoToken]
    /\ target = [r \in Requests |-> 0]
    /\ draft = [r \in Requests |-> NoAccount]
    /\ server = "down"
    /\ started = 0
    /\ raced = [r \in Requests |-> FALSE]
    /\ since = [u \in DOMAIN accounts |-> [role \in Roles |->
                   IF accounts[u].live /\ accounts[u].role = role THEN 0 ELSE TokenTTL + 1]]

Next ==
    \/ \E r \in Requests :
          \/ Login(r) \/ Sign(r) \/ Authenticate(r) \/ Refuse(r)
          \/ CreateUser(r) \/ UpdateUser(r) \/ GetProfile(r) \/ VerifyEmail(r)
          \/ Save(r) \/ DeleteUser(r) \/ Delete(r)
    \/ Register \/ Tick \/ Stop \/ Boot

Spec == Init /\ [][Next]_vars

-----------------------------------------------------------------------------
(* Properties *)

(***************************************************************************)
(* RequireRole trusts the token, and no change of a role calls a token     *)
(* back; still nobody acts in a role that the account has last had more    *)
(* than 24 hours ago, whatever logins, changes and restarts lie between.   *)
(***************************************************************************)
RoleHeldRecently ==
    /\ \A t \in tokens : since[t.user][t.role] <= t.age
    /\ \A r \in Requests : actor[r] # NoToken => since[actor[r].user][actor[r].role] <= TokenTTL

(* The request whose last statement this step is. *)
Finishes(r) == pc[r] \in {"sign", "save", "delete"} /\ pc'[r] = "idle"

(***************************************************************************)
(* An account becomes or stops being a super administrator only by a       *)
(* request with the token of one, by the start of the server, or by a      *)
(* write that overtook another one: a row read before the change and       *)
(* stored after it.                                                        *)
(***************************************************************************)
SuperAdminsByPeers ==
    [][\A u \in DOMAIN accounts :
          (u \in SuperAdmins) # (u \in SuperAdmins') =>
              \E r \in Requests :
                  Finishes(r) /\ target[r] = u /\ (actor[r].role = "super_admin" \/ raced[r])]_vars

(***************************************************************************)
(* A write that overtook another one may give the role back to somebody    *)
(* who has just lost it, and that is all: whoever else becomes a super     *)
(* administrator is one by the start of the server or by a request with    *)
(* the token of one.                                                       *)
(***************************************************************************)
RacesOnlyRestore ==
    [][\A u \in SuperAdmins' \ SuperAdmins :
          \/ server = "down"
          \/ \E r \in Requests :
                pc[r] # "idle" /\ pc'[r] = "idle" /\ actor[r].role = "super_admin"
          \/ u \in DOMAIN accounts /\ since[u]["super_admin"] = 0]_vars

(***************************************************************************)
(* "Cannot delete your own account" is there so that one super             *)
(* administrator is always left.  The last one goes only by a request with *)
(* the token of a super administrator, about the own account (a PUT) or by *)
(* one who is none any more (two of them delete each other), or by a write *)
(* that overtook another one (a profile, a verification, a login, a PUT or *)
(* a delete that had read the row before the promotion).                   *)
(***************************************************************************)
LastSuperAdmin ==
    [][SuperAdmins # {} /\ SuperAdmins' = {} =>
          \E r \in Requests :
              /\ Finishes(r)
              /\ \/ /\ actor[r].role = "super_admin"
                    /\ \/ pc[r] = "save" /\ target[r] = actor[r].user
                       \/ actor[r].user \notin SuperAdmins
                 \/ raced[r]]_vars
=============================================================================
