----------------------- MODULE Administrators_proofs -----------------------
(***************************************************************************)
(* Proofs about Administrators: for every number of accounts, tokens and   *)
(* requests in flight, how long a lost role works on, who makes and        *)
(* unmakes super administrators, and how the last one can be lost.         *)
(***************************************************************************)
EXTENDS Administrators, TLAPS, SequenceTheorems

PC == {"idle", "sign", "admitted", "save", "delete"}

(* The table and the clock of the roles. *)
TableInv ==
    /\ accounts \in Seq(Account) /\ Len(accounts) <= MaxAccounts /\ EmailOnce(accounts)
    /\ since \in [DOMAIN accounts -> [Roles -> 0..(TokenTTL + 1)]]
    /\ \A u \in DOMAIN accounts : accounts[u].live => since[u][accounts[u].role] = 0

(* A token shows a role that its account had when it was signed, or later. *)
Honest(t) ==
    /\ t \in Token
    /\ t.user \in DOMAIN accounts
    /\ since[t.user][t.role] <= t.age

RequestTypes ==
    /\ pc \in [Requests -> PC]
    /\ actor \in [Requests -> Token \cup {NoToken}]
    /\ target \in [Requests -> 0..MaxAccounts]
    /\ draft \in [Requests -> Account]
    /\ raced \in [Requests -> BOOLEAN]

(* What the row that r is about was when r read it holds until it is written. *)
Unraced(r) ==
    /\ pc[r] = "sign" => draft[r] = accounts[target[r]]
    /\ pc[r] = "save" =>
          /\ accounts[target[r]].live
          /\ MayChangeRole(actor[r].role, accounts[target[r]].role, draft[r].role)
    /\ pc[r] = "delete" /\ accounts[target[r]].role = "super_admin" =>
          actor[r].role = "super_admin"

RequestInv(r) ==
    /\ actor[r] # NoToken =>
          actor[r].user \in DOMAIN accounts /\ since[actor[r].user][actor[r].role] <= TokenTTL
    /\ pc[r] \in {"sign", "save", "delete"} => target[r] \in DOMAIN accounts
    /\ pc[r] \in {"idle", "sign"} => actor[r] = NoToken
    /\ pc[r] = "admitted" => actor[r] # NoToken
    /\ pc[r] \in {"sign", "save"} => draft[r].live
    /\ pc[r] = "sign" => since[target[r]][draft[r].role] = 0
    /\ pc[r] = "save" /\ draft[r].role = "super_admin" /\ actor[r].role # "super_admin" =>
          since[target[r]]["super_admin"] = 0
    /\ pc[r] = "delete" => target[r] # actor[r].user
    /\ ~raced[r] => Unraced(r)

(***************************************************************************)
(* RoleHeldRecently rests on what a login does between its read and its    *)
(* signature, SuperAdminsByPeers on what a request knows of its target.    *)
(***************************************************************************)
Inv ==
    /\ TableInv
    /\ \A t \in tokens : Honest(t)
    /\ RequestTypes
    /\ \A r \in Requests : RequestInv(r)
    /\ server \in {"up", "down"}
    /\ started \in Nat

-----------------------------------------------------------------------------
(* The table *)

LEMMA TableDomain == TableInv => DOMAIN accounts = 1..Len(accounts) /\ Len(accounts) \in Nat
BY LenProperties DEF TableInv

LEMMA RowType == ASSUME TableInv, NEW u \in DOMAIN accounts PROVE accounts[u] \in Account
BY TableDomain, ElementOfSeq DEF TableInv

(* Rows are added and written over, never taken out. *)
Grows ==
    /\ DOMAIN accounts \subseteq DOMAIN accounts'
    /\ \A u \in DOMAIN accounts, role \in Roles : since'[u][role] <= since[u][role]

LEMMA StoreKeeps ==
    ASSUME TableInv, NEW new \in Seq(Account), Len(accounts) <= Len(new), Len(new) <= MaxAccounts,
           EmailOnce(new), Store(new)
    PROVE  TableInv' /\ Grows /\ accounts' = new
<1>1. DOMAIN new = 1..Len(new) /\ Len(new) \in Nat /\ DOMAIN accounts \subseteq DOMAIN new
  BY TableDomain, LenProperties
<1>2. \A u \in DOMAIN new : new[u] \in Account
  BY <1>1, ElementOfSeq
<1>3. TokenTTL \in Nat
  BY AdministratorsAssumption
<1>4. ASSUME NEW u \in DOMAIN new, NEW role \in Roles
      PROVE  /\ since'[u][role] = IF new[u].live /\ new[u].role = role THEN 0
                                  ELSE IF u \in DOMAIN since THEN since[u][role] ELSE TokenTTL + 1
             /\ since'[u][role] \in 0..(TokenTTL + 1)
  <2>1. since'[u][role] = IF new[u].live /\ new[u].role = role THEN 0
                          ELSE IF u \in DOMAIN since THEN since[u][role] ELSE TokenTTL + 1
    BY DEF Store
  <2>2. u \in DOMAIN since => since[u][role] \in 0..(TokenTTL + 1)
    BY DEF TableInv
  <2> QED
    BY <1>3, <2>1, <2>2
<1>5. since' \in [DOMAIN new -> [Roles -> 0..(TokenTTL + 1)]]
  BY <1>4 DEF Store
<1>6. accounts' = new
  BY DEF Store
<1>7. \A u \in DOMAIN new : new[u].live => since'[u][new[u].role] = 0
  BY <1>2, <1>4 DEF Account
<1>8. \A u \in DOMAIN accounts, role \in Roles :
         u \in DOMAIN since /\ since[u][role] \in 0..(TokenTTL + 1)
  BY DEF TableInv
<1>9. \A u \in DOMAIN accounts, role \in Roles : since'[u][role] <= since[u][role]
  BY <1>1, <1>3, <1>4, <1>8
<1> QED
  BY <1>1, <1>5, <1>6, <1>7, <1>9 DEF TableInv, Grows

LEMMA SameGrows ==
    ASSUME TableInv, UNCHANGED <<accounts, since>>
    PROVE  TableInv' /\ Grows
<1>1. \A u \in DOMAIN accounts, role \in Roles : since[u][role] \in 0..(TokenTTL + 1)
  BY DEF TableInv
<1>2. \A u \in DOMAIN accounts, role \in Roles : since[u][role] <= since[u][role]
  BY <1>1, AdministratorsAssumption
<1> QED
  BY <1>2 DEF TableInv, Grows, EmailOnce

(* An account is created. *)
LEMMA InsertKeeps ==
    ASSUME TableInv, NEW row \in Account, Insert(row)
    PROVE  /\ TableInv' /\ Grows
           /\ accounts' = Append(accounts, row)
           /\ \A u \in DOMAIN accounts : accounts'[u] = accounts[u]
<1> DEFINE new == Append(accounts, row)
<1>1. /\ new \in Seq(Account) /\ Len(new) = Len(accounts) + 1
      /\ \A i \in 1..Len(accounts) : new[i] = accounts[i]
  BY AppendProperties DEF TableInv
<1>2. Len(accounts) < MaxAccounts /\ EmailOnce(new) /\ Store(new)
  BY DEF Insert
<1>3. Len(accounts) \in Nat /\ MaxAccounts \in Nat
  BY TableDomain, AdministratorsAssumption
<1>4. Len(accounts) <= Len(new) /\ Len(new) <= MaxAccounts
  BY <1>1, <1>2, <1>3
<1> HIDE DEF new
<1>5. TableInv' /\ Grows /\ accounts' = new
  BY <1>1, <1>2, <1>4, StoreKeeps
<1> QED
  BY <1>1, <1>5, TableDomain DEF new

(* Row u is written over. *)
LEMMA WriteKeeps ==
    ASSUME TableInv, NEW u \in DOMAIN accounts, NEW row \in Account,
           EmailOnce([accounts EXCEPT ![u] = row]), Store([accounts EXCEPT ![u] = row])
    PROVE  /\ TableInv' /\ Grows
           /\ accounts'[u] = row /\ DOMAIN accounts' = DOMAIN accounts
           /\ \A v \in DOMAIN accounts : v # u => accounts'[v] = accounts[v]
<1> DEFINE new == [accounts EXCEPT ![u] = row]
<1>1. u \in 1..Len(accounts) /\ Len(accounts) \in Nat
  BY TableDomain
<1>2. new \in Seq(Account) /\ Len(new) = Len(accounts) /\ DOMAIN new = DOMAIN accounts
  BY <1>1, ExceptSeq DEF TableInv
<1>3. new[u] = row /\ \A v \in DOMAIN accounts : v # u => new[v] = accounts[v]
  OBVIOUS
<1>4. Len(accounts) <= Len(new) /\ Len(new) <= MaxAccounts /\ EmailOnce(new) /\ Store(new)
  BY <1>1, <1>2 DEF TableInv
<1> HIDE DEF new
<1>5. TableInv' /\ Grows /\ accounts' = new
  BY <1>2, <1>4, StoreKeeps
<1> QED
  BY <1>2, <1>3, <1>5

(* A soft delete cannot take an address twice. *)
LEMMA DeletedEmail ==
    ASSUME TableInv, NEW u \in DOMAIN accounts
    PROVE  /\ [accounts EXCEPT ![u].live = FALSE] = [accounts EXCEPT ![u] = [accounts[u] EXCEPT !.live = FALSE]]
           /\ [accounts[u] EXCEPT !.live = FALSE] \in Account
           /\ EmailOnce([accounts EXCEPT ![u] = [accounts[u] EXCEPT !.live = FALSE]])
<1>1. accounts[u] \in Account
  BY RowType
<1> QED
  BY <1>1 DEF TableInv, EmailOnce, Account
-----------------------------------------------------------------------------
(* The requests *)

Same(c) ==
    /\ pc'[c] = pc[c] /\ actor'[c] = actor[c] /\ target'[c] = target[c] /\ draft'[c] = draft[c]

LEMMA NoTokenIsNone == NoToken \notin Token /\ NoAccount \in Account
BY DEF NoToken, NoAccount, Token, Account, Roles

LEMMA AnswerOne ==
    ASSUME RequestTypes, NEW r \in Requests, Answer(r), raced' \in [Requests -> BOOLEAN]
    PROVE  /\ RequestTypes'
           /\ pc'[r] = "idle" /\ actor'[r] = NoToken
           /\ \A c \in Requests \ {r} : Same(c)
<1>1. NoAccount \in Account /\ 0 \in 0..MaxAccounts
  BY NoTokenIsNone, AdministratorsAssumption
<1>2. RequestTypes'
  BY <1>1 DEF Answer, RequestTypes, PC
<1>3. pc'[r] = "idle" /\ actor'[r] = NoToken
  BY DEF Answer, RequestTypes
<1>4. \A c \in Requests \ {r} : Same(c)
  BY DEF Answer, RequestTypes, Same
<1> QED
  BY <1>2, <1>3, <1>4

LEMMA IdleInv ==
    ASSUME NEW r \in Requests, pc'[r] = "idle", actor'[r] = NoToken
    PROVE  RequestInv(r)'
BY DEF RequestInv, Unraced

(* A request does not notice what others do to other accounts. *)
LEMMA OthersInv ==
    ASSUME TableInv, TableInv', Grows, NEW c \in Requests, RequestInv(c), Same(c),
           actor[c] \in Token \cup {NoToken}, draft[c] \in Account,
           ~raced'[c] =>
              /\ ~raced[c]
              /\ pc[c] \in {"sign", "save", "delete"} => accounts'[target[c]] = accounts[target[c]]
    PROVE  RequestInv(c)'
<1>0. \A u \in DOMAIN accounts, role \in Roles :
         /\ since[u][role] \in Nat /\ since'[u][role] \in Nat
         /\ since'[u][role] <= since[u][role]
  BY AdministratorsAssumption DEF TableInv, Grows
<1>1. actor[c] # NoToken =>
         /\ actor[c].user \in DOMAIN accounts' 
         /\ since'[actor[c].user][actor[c].role] <= TokenTTL
  <2> SUFFICES ASSUME actor[c] # NoToken
               PROVE  /\ actor[c].user \in DOMAIN accounts' 
                      /\ since'[actor[c].user][actor[c].role] <= TokenTTL
    OBVIOUS
  <2> DEFINE a == actor[c].user  role == actor[c].role
  <2>1. role \in Roles /\ a \in DOMAIN accounts /\ since[a][role] <= TokenTTL
    BY DEF RequestInv, Token
  <2> HIDE DEF a, role
  <2>2. since'[a][role] <= TokenTTL
    BY <1>0, <2>1, AdministratorsAssumption
  <2> QED
    BY <2>1, <2>2 DEF Grows, a, role
<1>2. pc[c] \in {"sign", "save", "delete"} => target[c] \in DOMAIN accounts'
  BY DEF RequestInv, Grows
<1>3. pc[c] = "sign" => since'[target[c]][draft[c].role] = 0
  <2> SUFFICES ASSUME pc[c] = "sign" PROVE since'[target[c]][draft[c].role] = 0
    OBVIOUS
  <2>1. draft[c].role \in Roles /\ target[c] \in DOMAIN accounts
    BY DEF RequestInv, Account
  <2>2. since[target[c]][draft[c].role] = 0
    BY DEF RequestInv
  <2> QED
    BY <1>0, <2>1, <2>2
<1>4. pc[c] = "save" /\ draft[c].role = "super_admin" /\ actor[c].role # "super_admin" =>
         since'[target[c]]["super_admin"] = 0
  <2>1. "super_admin" \in Roles
    BY DEF Roles
  <2> QED
    BY <1>0, <2>1 DEF RequestInv
<1>5. ~raced'[c] => Unraced(c)'
  BY DEF RequestInv, Unraced, Same, MayChangeRole
<1> QED
  BY <1>1, <1>2, <1>3, <1>4, <1>5 DEF RequestInv, Same

(* Every token stays honest when rows are only added and written over. *)
LEMMA TokensKept ==
    ASSUME TableInv, TableInv', Grows, NEW t, Honest(t)
    PROVE  Honest(t)'
<1> DEFINE u == t.user  role == t.role
<1>1. u \in DOMAIN accounts /\ role \in Roles /\ t.age \in Nat /\ since[u][role] <= t.age
  BY AdministratorsAssumption DEF Honest, Token
<1>2. /\ since[u][role] \in Nat /\ since'[u][role] \in Nat /\ since'[u][role] <= since[u][role]
      /\ u \in DOMAIN accounts'
  BY <1>1, AdministratorsAssumption DEF TableInv, Grows
<1> HIDE DEF u, role
<1>3. since'[u][role] <= t.age
  BY <1>1, <1>2
<1> QED
  BY <1>2, <1>3 DEF Honest, u, role

LEMMA OvertakenOthers ==
    ASSUME RequestTypes, NEW r \in Requests, NEW ids, Overtaken(r, ids)
    PROVE  /\ raced' \in [Requests -> BOOLEAN]
           /\ \A c \in Requests \ {r} :
                 ~raced'[c] =>
                    ~raced[c] /\ (pc[c] \in {"sign", "save", "delete"} => target[c] \notin ids)
BY DEF Overtaken, RequestTypes

(* The last statement of r, which writes row u over or fails. *)
LEMMA WriteOne ==
    ASSUME Inv, NEW r \in Requests, NEW u \in DOMAIN accounts, NEW row \in Account,
           EmailOnce([accounts EXCEPT ![u] = row]), Store([accounts EXCEPT ![u] = row]),
           Overtaken(r, {u}), Answer(r)
    PROVE  /\ TableInv' /\ Grows /\ RequestTypes' /\ \A c \in Requests : RequestInv(c)'
           /\ \A t \in tokens : Honest(t)'
<1>1. /\ TableInv' /\ Grows
      /\ \A v \in DOMAIN accounts : v # u => accounts'[v] = accounts[v]
  BY WriteKeeps DEF Inv
<1>2. RequestTypes' /\ RequestInv(r)' /\ \A c \in Requests \ {r} : Same(c)
  BY AnswerOne, OvertakenOthers, IdleInv DEF Inv
<1>3. ASSUME NEW c \in Requests \ {r} PROVE RequestInv(c)'
  <2>1. RequestInv(c) /\ actor[c] \in Token \cup {NoToken} /\ draft[c] \in Account
    BY DEF Inv, RequestTypes
  <2>2. ~raced'[c] =>
           /\ ~raced[c]
           /\ pc[c] \in {"sign", "save", "delete"} => target[c] # u /\ target[c] \in DOMAIN accounts
    BY <2>1, OvertakenOthers DEF Inv, RequestInv
  <2> QED
    BY <1>1, <1>2, <2>1, <2>2, OthersInv DEF Inv
<1> QED
  BY <1>1, <1>2, <1>3, TokensKept DEF Inv

(* r is answered without a write. *)
LEMMA AnswerKeeps ==
    ASSUME Inv, NEW r \in Requests, Answer(r), UNCHANGED <<accounts, since>>,
           raced' \in [Requests -> BOOLEAN], \A c \in Requests \ {r} : raced'[c] = raced[c]
    PROVE  /\ TableInv' /\ Grows /\ RequestTypes' /\ \A c \in Requests : RequestInv(c)'
           /\ \A t \in tokens : Honest(t)'
<1>1. TableInv' /\ Grows
  BY SameGrows DEF Inv
<1>2. RequestTypes' /\ RequestInv(r)' /\ \A c \in Requests \ {r} : Same(c)
  BY AnswerOne, IdleInv DEF Inv
<1>3. ASSUME NEW c \in Requests \ {r} PROVE RequestInv(c)'
  <2>1. RequestInv(c) /\ actor[c] \in Token \cup {NoToken} /\ draft[c] \in Account
    BY DEF Inv, RequestTypes
  <2> QED
    BY <1>1, <1>2, <2>1, OthersInv DEF Inv
<1> QED
  BY <1>1, <1>2, <1>3, TokensKept DEF Inv

(* An account is created; whoever is about another one does not notice. *)
LEMMA InsertInv ==
    ASSUME Inv, NEW row \in Account, Insert(row), NEW c \in Requests, Same(c), raced'[c] = raced[c]
    PROVE  RequestInv(c)'
<1>1. RequestInv(c) /\ actor[c] \in Token \cup {NoToken} /\ draft[c] \in Account
  BY DEF Inv, RequestTypes
<1>2. pc[c] \in {"sign", "save", "delete"} => accounts'[target[c]] = accounts[target[c]]
  BY <1>1, InsertKeeps DEF Inv, RequestInv
<1> QED
  BY <1>1, <1>2, InsertKeeps, OthersInv DEF Inv

(* r has read row u. *)
LEMMA ReadKeeps ==
    ASSUME Inv, NEW r \in Requests, NEW next \in {"sign", "save", "delete"},
           NEW u \in DOMAIN accounts, NEW row \in Account, Read(r, next, u, row),
           UNCHANGED actor, started' \in Nat, accounts[u].live,
           next = "sign" => actor[r] = NoToken /\ row = accounts[u],
           next = "save" =>
              row.live /\ MayChangeRole(actor[r].role, accounts[u].role, row.role),
           next = "delete" =>
              /\ u # actor[r].user
              /\ accounts[u].role = "super_admin" => actor[r].role = "super_admin"
    PROVE  Inv'
<1>1. TableInv' /\ Grows
  BY SameGrows DEF Read, Inv
<1>2. u \in 0..MaxAccounts
  BY TableDomain, AdministratorsAssumption DEF Inv, TableInv
<1>3. RequestTypes'
  BY <1>2 DEF Read, Inv, RequestTypes, PC
<1>4. ASSUME NEW c \in Requests \ {r} PROVE RequestInv(c)'
  <2>1. /\ RequestInv(c) /\ actor[c] \in Token \cup {NoToken} /\ draft[c] \in Account
        /\ Same(c) /\ raced'[c] = raced[c]
    BY DEF Inv, RequestTypes, Read, Same
  <2> QED
    BY <1>1, <2>1, OthersInv DEF Inv, Read
<1>5. RequestInv(r)'
  <2>1. /\ pc'[r] = next /\ target'[r] = u /\ draft'[r] = row
        /\ accounts' = accounts /\ since' = since
    BY DEF Read, Inv, RequestTypes
  <2>2. since[u][accounts[u].role] = 0
    BY DEF Inv, TableInv
  <2>3. RequestInv(r)
    BY DEF Inv
  <2>4. Unraced(r)'
    BY <2>1 DEF Unraced, MayChangeRole
  <2>5. next = "save" /\ row.role = "super_admin" /\ actor[r].role # "super_admin" =>
           since[u]["super_admin"] = 0
    BY <2>2 DEF MayChangeRole
  <2> QED
    BY <2>1, <2>2, <2>3, <2>4, <2>5 DEF RequestInv
<1> QED
  BY <1>1, <1>3, <1>4, <1>5, TokensKept DEF Inv, Read

-----------------------------------------------------------------------------
(* The steps *)

LEMMA LoginKeeps == ASSUME Inv, NEW r \in Requests, Login(r) PROVE Inv'
<1>1. actor[r] = NoToken /\ started' \in Nat
  BY DEF Login, Start, Inv, RequestInv
<1>2. PICK u \in DOMAIN accounts : accounts[u].live /\ Read(r, "sign", u, accounts[u])
  BY DEF Login
<1>3. accounts[u] \in Account
  BY RowType DEF Inv
<1> QED
  BY <1>1, <1>2, <1>3, ReadKeeps DEF Login

LEMMA SignKeeps == ASSUME Inv, NEW r \in Requests, Sign(r) PROVE Inv'
<1>0. PICK t : t = [user |-> target[r], role |-> draft[r].role, age |-> 0]
  OBVIOUS
<1>1. /\ target[r] \in DOMAIN accounts /\ draft[r] \in Account
      /\ since[target[r]][draft[r].role] = 0
  BY DEF Sign, Inv, RequestInv, RequestTypes
<1>2. Honest(t)
  <2>1. target[r] \in 1..MaxAccounts /\ 0 \in 0..TokenTTL
    BY <1>1, TableDomain, AdministratorsAssumption DEF Inv, TableInv
  <2> QED
    BY <1>0, <1>1, <2>1 DEF Honest, Token, Account
<1>3. /\ TableInv' /\ Grows /\ RequestTypes' /\ \A c \in Requests : RequestInv(c)'
      /\ \A s \in tokens : Honest(s)'
  <2>1. CASE EmailOnce(Written(r)) /\ Store(Written(r)) /\ Overtaken(r, {target[r]})
    BY <1>1, <2>1, WriteOne DEF Sign, Written
  <2>2. CASE Store(accounts) /\ Overtaken(r, {})
    <3>1. TableInv' /\ Grows /\ accounts' = accounts
      BY <2>2, StoreKeeps, TableDomain DEF Inv, TableInv
    <3>2. RequestTypes' /\ RequestInv(r)' /\ \A c \in Requests \ {r} : Same(c)
      BY <2>2, AnswerOne, OvertakenOthers, IdleInv DEF Inv, Sign
    <3>3. ASSUME NEW c \in Requests \ {r} PROVE RequestInv(c)'
      <4>1. RequestInv(c) /\ actor[c] \in Token \cup {NoToken} /\ draft[c] \in Account
        BY DEF Inv, RequestTypes
      <4> QED
        BY <2>2, <3>1, <3>2, <4>1, OthersInv, OvertakenOthers DEF Inv
    <3> QED
      BY <3>1, <3>2, <3>3, TokensKept DEF Inv
  <2> QED
    BY <2>1, <2>2 DEF Sign
<1>4. Honest(t)'
  BY <1>2, <1>3, TokensKept DEF Inv
<1>5. \A s \in tokens' : Honest(s)'
  BY <1>0, <1>3, <1>4 DEF Sign
<1> QED
  BY <1>3, <1>5 DEF Sign, Inv

LEMMA AuthenticateKeeps == ASSUME Inv, NEW r \in Requests, Authenticate(r) PROVE Inv'
<1>1. PICK t \in tokens : actor' = [actor EXCEPT ![r] = t]
  BY DEF Authenticate
<1>2. Honest(t) /\ t \in Token
  BY DEF Inv, Honest
<1>3. TableInv' /\ Grows
  BY SameGrows DEF Authenticate, Inv
<1>4. RequestTypes'
  BY <1>1, <1>2 DEF Authenticate, Inv, RequestTypes, PC
<1>5. ASSUME NEW c \in Requests \ {r} PROVE RequestInv(c)'
  <2>1. /\ RequestInv(c) /\ actor[c] \in Token \cup {NoToken} /\ draft[c] \in Account
        /\ Same(c) /\ raced'[c] = raced[c]
    BY <1>1 DEF Inv, RequestTypes, Authenticate, Same
  <2> QED
    BY <1>3, <2>1, OthersInv DEF Inv, Authenticate
<1>6. RequestInv(r)'
  <2>1. pc'[r] = "admitted" /\ actor'[r] = t /\ UNCHANGED <<accounts, since>>
    BY <1>1 DEF Authenticate, Inv, RequestTypes
  <2> DEFINE u == t.user  role == t.role
  <2>2. /\ u \in DOMAIN accounts /\ role \in Roles /\ since[u][role] <= t.age
        /\ t.age \in Nat /\ t.age <= TokenTTL
    BY <1>2, AdministratorsAssumption DEF Honest, Token
  <2>3. since[u][role] \in Nat
    BY <2>2, AdministratorsAssumption DEF Inv, TableInv
  <2> HIDE DEF u, role
  <2>4. since[u][role] <= TokenTTL
    BY <2>2, <2>3, AdministratorsAssumption
  <2> QED
    BY <1>2, <2>1, <2>2, <2>4, NoTokenIsNone DEF RequestInv, Unraced, u, role
<1> QED
  BY <1>3, <1>4, <1>5, <1>6, TokensKept DEF Inv, Authenticate, Start

LEMMA RefuseKeeps == ASSUME Inv, NEW r \in Requests, Refuse(r) PROVE Inv'
<1>1. raced' \in [Requests -> BOOLEAN] /\ \A c \in Requests \ {r} : raced'[c] = raced[c]
  BY DEF Refuse, Inv, RequestTypes
<1> QED
  BY <1>1, AnswerKeeps DEF Refuse, Inv

LEMMA CreateKeeps == ASSUME Inv, NEW r \in Requests, CreateUser(r) PROVE Inv'
<1>1. PICK row \in Account : Insert(row)
  BY DEF CreateUser, Inactive, Account
<1>2. TableInv' /\ Grows
  BY <1>1, InsertKeeps DEF Inv
<1>3. RequestTypes' /\ RequestInv(r)' /\ \A c \in Requests \ {r} : Same(c)
  BY AnswerOne, IdleInv DEF Inv, CreateUser, RequestTypes
<1>4. \A c \in Requests \ {r} : RequestInv(c)'
  BY <1>1, <1>3, InsertInv DEF CreateUser
<1> QED
  BY <1>2, <1>3, <1>4, TokensKept DEF Inv, CreateUser

LEMMA UpdateKeeps == ASSUME Inv, NEW r \in Requests, UpdateUser(r) PROVE Inv'
<1>1. PICK u \in DOMAIN accounts, role \in Roles, active \in BOOLEAN, boot \in BOOLEAN :
         /\ accounts[u].live
         /\ MayChangeRole(actor[r].role, accounts[u].role, role)
         /\ Read(r, "save", u,
                 [accounts[u] EXCEPT !.role = role, !.active = active, !.boot = boot])
  BY DEF UpdateUser
<1> DEFINE row == [accounts[u] EXCEPT !.role = role, !.active = active, !.boot = boot]
<1>2. row \in Account /\ row.live /\ row.role = role
  BY <1>1, RowType DEF Inv, Account
<1> HIDE DEF row
<1>3. Read(r, "save", u, row)
  BY <1>1 DEF row
<1> QED
  BY <1>1, <1>2, <1>3, ReadKeeps DEF UpdateUser, Inv

(* A request that saves a row in the role that it was read in. *)
LEMMA ProfileKeeps == ASSUME Inv, NEW r \in Requests, GetProfile(r) PROVE Inv'
<1> DEFINE u == actor[r].user
<1>1. accounts[u].live /\ Read(r, "save", u, accounts[u]) /\ UNCHANGED <<actor, started>>
  BY DEF GetProfile
<1>2. u \in DOMAIN accounts
  BY DEF GetProfile, Inv, RequestInv
<1>3. accounts[u] \in Account
  BY <1>2, RowType DEF Inv
<1> HIDE DEF u
<1> QED
  BY <1>1, <1>2, <1>3, ReadKeeps DEF Inv, MayChangeRole

LEMMA VerifyKeeps == ASSUME Inv, NEW r \in Requests, VerifyEmail(r) PROVE Inv'
<1>1. PICK u \in DOMAIN accounts :
         accounts[u].live /\ Read(r, "save", u, [accounts[u] EXCEPT !.active = TRUE])
  BY DEF VerifyEmail
<1> DEFINE row == [accounts[u] EXCEPT !.active = TRUE]
<1>2. row \in Account /\ row.live /\ row.role = accounts[u].role
  BY <1>1, RowType DEF Inv, Account
<1> HIDE DEF row
<1>3. Read(r, "save", u, row) /\ UNCHANGED actor /\ started' \in Nat
  BY <1>1 DEF row, VerifyEmail, Start, Inv
<1> QED
  BY <1>1, <1>2, <1>3, ReadKeeps DEF MayChangeRole

LEMMA DeleteUserKeeps == ASSUME Inv, NEW r \in Requests, DeleteUser(r) PROVE Inv'
<1>1. PICK u \in DOMAIN accounts :
         /\ accounts[u].live
         /\ accounts[u].role = "super_admin" => actor[r].role = "super_admin"
         /\ u # actor[r].user
         /\ Read(r, "delete", u, accounts[u])
  BY DEF DeleteUser
<1>2. accounts[u] \in Account
  BY RowType DEF Inv
<1> QED
  BY <1>1, <1>2, ReadKeeps DEF DeleteUser, Inv

LEMMA SaveKeeps == ASSUME Inv, NEW r \in Requests, Save(r) PROVE Inv'
<1>1. target[r] \in DOMAIN accounts /\ draft[r] \in Account
  BY DEF Save, Inv, RequestInv, RequestTypes
<1> QED
  BY <1>1, WriteOne DEF Save, Written, Inv

LEMMA DeleteKeeps == ASSUME Inv, NEW r \in Requests, Delete(r) PROVE Inv'
<1>1. target[r] \in DOMAIN accounts
  BY DEF Delete, Inv, RequestInv
<1>2. /\ [accounts[target[r]] EXCEPT !.live = FALSE] \in Account
      /\ EmailOnce([accounts EXCEPT ![target[r]] = [accounts[target[r]] EXCEPT !.live = FALSE]])
      /\ Store([accounts EXCEPT ![target[r]] = [accounts[target[r]] EXCEPT !.live = FALSE]])
  BY <1>1, DeletedEmail DEF Delete, Inv
<1> QED
  BY <1>1, <1>2, WriteOne DEF Delete, Inv

(* The server creates an account, for a client or for itself. *)
LEMMA NewAccountKeeps ==
    ASSUME Inv, NEW row \in Account, Insert(row),
           UNCHANGED <<tokens, pc, actor, target, draft, started, raced>>,
           server' \in {"up", "down"}
    PROVE  Inv'
<1>1. TableInv' /\ Grows
  BY InsertKeeps DEF Inv
<1>2. \A c \in Requests : RequestInv(c)'
  BY InsertInv DEF Same
<1> QED
  BY <1>1, <1>2, TokensKept DEF Inv, RequestTypes

LEMMA BootKeeps == ASSUME Inv, Boot PROVE Inv'
<1>1. CASE Insert(First)
  <2>1. First \in Account
    BY DEF First, Account, Roles
  <2> QED
    BY <1>1, <2>1, NewAccountKeeps DEF Boot
<1>2. CASE UNCHANGED <<accounts, since>>
  BY <1>2 DEF Boot, Inv, TableInv, EmailOnce, Honest, RequestTypes, RequestInv, Unraced,
              MayChangeRole
<1> QED
  BY <1>1, <1>2 DEF Boot

(* Roles that are held do not age, and tokens age with those that are not. *)
LEMMA TickKeeps == ASSUME Inv, Tick PROVE Inv'
<1>0. TokenTTL \in Nat
  BY AdministratorsAssumption
<1>1. ASSUME NEW u \in DOMAIN accounts, NEW role \in Roles
      PROVE  /\ since[u][role] \in 0..(TokenTTL + 1) /\ u \in DOMAIN since
             /\ since'[u][role] = IF \/ since[u][role] > TokenTTL
                                     \/ accounts[u].live /\ accounts[u].role = role
                                  THEN since[u][role] ELSE since[u][role] + 1
             /\ since'[u][role] \in 0..(TokenTTL + 1)
             /\ since'[u][role] <= since[u][role] + 1
  <2>1. since[u][role] \in 0..(TokenTTL + 1) /\ u \in DOMAIN since
    BY DEF Inv, TableInv
  <2>2. since'[u][role] = IF \/ since[u][role] > TokenTTL
                             \/ accounts[u].live /\ accounts[u].role = role
                          THEN since[u][role] ELSE since[u][role] + 1
    BY <2>1 DEF Tick
  <2> QED
    BY <1>0, <2>1, <2>2
<1>2. TableInv'
  <2>1. since' \in [DOMAIN accounts -> [Roles -> 0..(TokenTTL + 1)]]
    BY <1>1 DEF Tick, Inv, TableInv
  <2>2. \A u \in DOMAIN accounts : accounts[u].role \in Roles
    BY RowType DEF Inv, Account
  <2>3. \A u \in DOMAIN accounts : accounts[u].live => since'[u][accounts[u].role] = 0
    BY <1>1, <2>2 DEF Inv, TableInv
  <2> QED
    BY <2>1, <2>3 DEF Tick, Inv, TableInv, EmailOnce
<1>3. ASSUME NEW t \in tokens' PROVE Honest(t)'
  <2>1. PICK s \in tokens : s.age < TokenTTL /\ t = [s EXCEPT !.age = s.age + 1]
    BY DEF Tick, Aged
  <2>2. Honest(s) /\ s \in Token
    BY DEF Inv, Honest
  <2>3. /\ t \in Token /\ t.user = s.user /\ t.role = s.role /\ t.age = s.age + 1
        /\ s.age \in Nat /\ s.role \in Roles
    BY <1>0, <2>1, <2>2 DEF Token
  <2> DEFINE u == s.user  role == s.role
  <2>4. u \in DOMAIN accounts /\ role \in Roles /\ since[u][role] <= s.age
    BY <2>2, <2>3 DEF Honest
  <2>5. /\ since'[u][role] <= since[u][role] + 1
        /\ since[u][role] \in 0..(TokenTTL + 1) /\ since'[u][role] \in 0..(TokenTTL + 1)
    BY <1>1, <2>4
  <2> HIDE DEF u, role
  <2>6. since'[u][role] <= t.age
    BY <1>0, <2>3, <2>4, <2>5
  <2> QED
    BY <2>3, <2>4, <2>6 DEF Honest, Tick, u, role
<1>4. \A r \in Requests : pc'[r] = "idle" /\ actor'[r] = NoToken
  BY DEF Tick, Inv, RequestInv
<1> QED
  BY <1>2, <1>3, <1>4, IdleInv DEF Tick, Inv, RequestTypes

LEMMA StopKeeps == ASSUME Inv, Stop PROVE Inv'
<1>1. 0 \in 0..MaxAccounts
  BY AdministratorsAssumption
<1>2. RequestTypes'
  BY <1>1, NoTokenIsNone DEF Stop, RequestTypes, PC
<1>3. \A r \in Requests : RequestInv(r)'
  BY IdleInv DEF Stop
<1> QED
  BY <1>2, <1>3 DEF Stop, Inv, TableInv, EmailOnce, Honest

LEMMA RegisterKeeps == ASSUME Inv, Register PROVE Inv'
<1>1. PICK row \in Account : Insert(row)
  BY DEF Register, Inactive, Account, Roles
<1> QED
  BY <1>1, NewAccountKeeps DEF Register, Inv

LEMMA InvStep == Inv /\ [Next]_vars => Inv'
<1> SUFFICES ASSUME Inv, [Next]_vars PROVE Inv'
  OBVIOUS
<1>1. CASE UNCHANGED vars
  BY <1>1 DEF vars, Inv, TableInv, EmailOnce, Honest, RequestTypes, RequestInv, Unraced,
              MayChangeRole
<1> QED
  BY <1>1, LoginKeeps, SignKeeps, AuthenticateKeeps, RefuseKeeps, CreateKeeps, UpdateKeeps,
     ProfileKeeps, VerifyKeeps, SaveKeeps, DeleteUserKeeps, DeleteKeeps, RegisterKeeps, TickKeeps, StopKeeps, BootKeeps
     DEF Next

LEMMA InvStart == Init => Inv
<1> SUFFICES ASSUME Init PROVE Inv
  OBVIOUS
<1>0. TokenTTL \in Nat /\ MaxAccounts \in Nat
  BY AdministratorsAssumption
<1>1. accounts \in Seq(Account) /\ Len(accounts) <= MaxAccounts /\ EmailOnce(accounts)
  BY AdministratorsAssumption DEF Init
<1>2. DOMAIN accounts = 1..Len(accounts) /\ \A u \in DOMAIN accounts : accounts[u] \in Account
  BY <1>1, LenProperties, ElementOfSeq
<1>3. TableInv
  <2>1. \A u \in DOMAIN accounts, role \in Roles :
           since[u][role] = IF accounts[u].live /\ accounts[u].role = role THEN 0 ELSE TokenTTL + 1
    BY DEF Init
  <2>2. since \in [DOMAIN accounts -> [Roles -> 0..(TokenTTL + 1)]]
    BY <1>0 DEF Init
  <2>3. \A u \in DOMAIN accounts : accounts[u].live => since[u][accounts[u].role] = 0
    BY <1>2, <2>1 DEF Account
  <2> QED
    BY <1>1, <2>2, <2>3 DEF TableInv
<1>4. ASSUME NEW t \in tokens PROVE Honest(t)
  <2>1. PICK u \in DOMAIN accounts :
           accounts[u].live /\ t = [user |-> u, role |-> accounts[u].role, age |-> 0]
    BY DEF Init
  <2>2. u \in 1..MaxAccounts /\ accounts[u].role \in Roles /\ since[u][accounts[u].role] = 0
    BY <1>0, <1>1, <1>2, <1>3, <2>1, LenProperties DEF TableInv, Account
  <2> QED
    BY <1>0, <2>1, <2>2 DEF Honest, Token
<1>5. RequestTypes
  BY <1>0, NoTokenIsNone DEF Init, RequestTypes, PC
<1>6. \A r \in Requests : RequestInv(r)
  BY DEF Init, RequestInv, Unraced
<1> QED
  BY <1>3, <1>4, <1>5, <1>6 DEF Init, Inv
-----------------------------------------------------------------------------
(* Who is a super administrator *)

(* A step inserts a row, writes one over, or leaves the table as it is. *)
LEMMA TableSteps ==
    ASSUME Inv, [Next]_vars
    PROVE  \/ \E row \in Account : Insert(row)
           \/ \E r \in Requests : Sign(r) \/ Save(r) \/ Delete(r)
           \/ UNCHANGED accounts
<1>1. \A role \in Roles, boot \in BOOLEAN : Inactive(role, boot) \in Account
  BY DEF Inactive, Account
<1>2. First \in Account /\ "user" \in Roles
  BY DEF First, Account, Roles
<1> QED
  BY <1>1, <1>2
     DEF Next, vars, Login, Authenticate, Refuse, CreateUser, UpdateUser, GetProfile, VerifyEmail,
         DeleteUser, Register, Tick, Stop, Boot, Read

LEMMA RowsStay ==
    ASSUME Inv, [Next]_vars
    PROVE  DOMAIN accounts \subseteq DOMAIN accounts'
<1>1. CASE \E row \in Account : Insert(row)
  BY <1>1, InsertKeeps DEF Inv, Grows
<1>2. CASE \E r \in Requests : Sign(r) \/ Save(r) \/ Delete(r)
  BY <1>2 DEF Sign, Save, Delete, Store, Written
<1> QED
  BY <1>1, <1>2, TableSteps

(* Existing rows change only by the last statement of a request about them. *)
LEMMA OnlyTargetsChange ==
    ASSUME Inv, [Next]_vars, NEW u \in DOMAIN accounts, accounts'[u] # accounts[u]
    PROVE  \E r \in Requests :
              /\ target[r] = u
              /\ Finishes(r)
              /\ Sign(r) \/ Save(r) \/ Delete(r)
              /\ \A v \in DOMAIN accounts \ {u} : accounts'[v] = accounts[v]
<1>1. \A row \in Account : ~Insert(row)
  BY InsertKeeps DEF Inv
<1>2. PICK r \in Requests : Sign(r) \/ Save(r) \/ Delete(r)
  BY <1>1, TableSteps
<1>3. target[r] \in DOMAIN accounts /\ Finishes(r)
  BY <1>2 DEF Inv, RequestInv, RequestTypes, Sign, Save, Delete, Finishes, Answer
<1>4. \A v \in DOMAIN accounts : v # target[r] => accounts'[v] = accounts[v]
  BY <1>2, <1>3 DEF Sign, Save, Delete, Store, Written
<1> QED
  BY <1>2, <1>3, <1>4

LEMMA MembershipIsRow ==
    ASSUME Inv, [Next]_vars, NEW u \in DOMAIN accounts, accounts'[u] = accounts[u]
    PROVE  (u \in SuperAdmins') = (u \in SuperAdmins)
BY RowsStay DEF SuperAdmins

(* A request that nothing has overtaken does what its actor may do. *)
LEMMA PeersOnly ==
    ASSUME Inv, [Next]_vars, NEW u \in DOMAIN accounts, (u \in SuperAdmins) # (u \in SuperAdmins')
    PROVE  \E r \in Requests :
              Finishes(r) /\ target[r] = u /\ (actor[r].role = "super_admin" \/ raced[r])
<1>1. accounts'[u] # accounts[u] /\ u \in DOMAIN accounts'
  BY MembershipIsRow, RowsStay
<1>2. PICK r \in Requests : target[r] = u /\ Finishes(r) /\ (Sign(r) \/ Save(r) \/ Delete(r))
  BY <1>1, OnlyTargetsChange
<1>3. ASSUME ~raced[r] PROVE actor[r].role = "super_admin"
  <2>1. RequestInv(r) /\ Unraced(r)
    BY <1>3 DEF Inv, RequestInv
  <2>2. ~Sign(r)
    BY <1>1, <1>2, <2>1 DEF Sign, Unraced, Store, Written
  <2>3. CASE Save(r)
    <3>1. /\ accounts'[u] = draft[r] /\ draft[r].live /\ accounts[u].live
          /\ MayChangeRole(actor[r].role, accounts[u].role, draft[r].role)
      BY <1>2, <2>1, <2>3 DEF Save, Store, Written, Unraced, RequestInv
    <3>2. (accounts[u].role = "super_admin") # (draft[r].role = "super_admin")
      BY <1>1, <3>1 DEF SuperAdmins
    <3> QED
      BY <3>1, <3>2 DEF MayChangeRole
  <2>4. CASE Delete(r)
    <3>1. accounts[u] \in Account
      BY RowType DEF Inv
    <3>2. ~accounts'[u].live
      BY <1>2, <2>4, <3>1 DEF Delete, Store, Account
    <3>3. accounts[u].role = "super_admin"
      BY <1>1, <3>2 DEF SuperAdmins
    <3> QED
      BY <1>2, <2>1, <2>4, <3>3 DEF Unraced, Delete
  <2> QED
    BY <1>2, <2>2, <2>3, <2>4
<1> QED
  BY <1>2, <1>3

(* Only the target of a request can leave; a PUT about another one leaves its actor. *)
LEMMA LastLeaves ==
    ASSUME Inv, [Next]_vars, SuperAdmins # {}, SuperAdmins' = {}
    PROVE  \E r \in Requests :
              /\ Finishes(r)
              /\ \/ /\ actor[r].role = "super_admin"
                    /\ \/ pc[r] = "save" /\ target[r] = actor[r].user
                       \/ actor[r].user \notin SuperAdmins
                 \/ raced[r]
<1>1. PICK u \in DOMAIN accounts : u \in SuperAdmins
  BY DEF SuperAdmins
<1>2. accounts'[u] # accounts[u] /\ u \notin SuperAdmins'
  BY <1>1, MembershipIsRow
<1>3. PICK r \in Requests :
         /\ target[r] = u /\ Finishes(r) /\ (Sign(r) \/ Save(r) \/ Delete(r))
         /\ \A v \in DOMAIN accounts \ {u} : accounts'[v] = accounts[v]
  BY <1>2, OnlyTargetsChange
<1>4. RequestInv(r)
  BY DEF Inv
<1>5. \A v \in SuperAdmins : v = u
  BY <1>3, MembershipIsRow DEF SuperAdmins
<1>6. ASSUME ~raced[r]
      PROVE  /\ actor[r].role = "super_admin"
             /\ \/ pc[r] = "save" /\ target[r] = actor[r].user
                \/ actor[r].user \notin SuperAdmins
  <2>1. Unraced(r)
    BY <1>4, <1>6 DEF RequestInv
  <2>2. ~Sign(r)
    BY <1>2, <1>3, <2>1 DEF Sign, Unraced, Store, Written
  <2>3. actor[r].role = "super_admin"
    <3>1. CASE Save(r)
      <4>1. accounts'[u] = draft[r] /\ draft[r].live /\ u \in DOMAIN accounts'
        BY <1>3, <1>4, <3>1, RowsStay DEF Save, Store, Written, RequestInv
      <4>2. draft[r].role # "super_admin" /\ accounts[u].role = "super_admin"
        BY <1>1, <1>2, <4>1 DEF SuperAdmins
      <4> QED
        BY <1>3, <2>1, <3>1, <4>2 DEF Save, Unraced, MayChangeRole
    <3>2. CASE Delete(r)
      BY <1>1, <1>3, <2>1, <3>2 DEF Delete, Unraced, SuperAdmins
    <3> QED
      BY <1>3, <2>2, <3>1, <3>2
  <2>4. CASE Save(r)
    BY <1>3, <1>5, <2>3, <2>4 DEF Save
  <2>5. CASE Delete(r)
    BY <1>3, <1>4, <1>5, <2>3, <2>5 DEF Delete, RequestInv
  <2> QED
    BY <1>3, <2>2, <2>4, <2>5
<1> QED
  BY <1>3, <1>6

(* A row in the role that it is stored in, for all that r may change. *)
LEMMA RaceRestores ==
    ASSUME Inv, [Next]_vars, NEW u \in SuperAdmins' \ SuperAdmins
    PROVE  \/ server = "down"
           \/ \E r \in Requests :
                 pc[r] # "idle" /\ pc'[r] = "idle" /\ actor[r].role = "super_admin"
           \/ u \in DOMAIN accounts /\ since[u]["super_admin"] = 0
<1>1. CASE u \in DOMAIN accounts
  <2>1. accounts'[u] # accounts[u]
    BY <1>1, MembershipIsRow
  <2>2. PICK r \in Requests : target[r] = u /\ Finishes(r) /\ (Sign(r) \/ Save(r) \/ Delete(r))
    BY <1>1, <2>1, OnlyTargetsChange
  <2>3. RequestInv(r)
    BY DEF Inv
  <2>4. accounts'[u].live /\ accounts'[u].role = "super_admin"
    BY DEF SuperAdmins
  <2>5. CASE Sign(r)
    <3>1. accounts'[u] = draft[r]
      BY <1>1, <2>1, <2>2, <2>5 DEF Sign, Store, Written
    <3> QED
      BY <1>1, <2>2, <2>3, <2>4, <2>5, <3>1 DEF Sign, RequestInv
  <2>6. CASE Save(r)
    <3>1. accounts'[u] = draft[r]
      BY <1>1, <2>2, <2>6 DEF Save, Store, Written
    <3> QED
      BY <1>1, <2>2, <2>3, <2>4, <2>6, <3>1 DEF Save, RequestInv, Finishes
  <2>7. CASE Delete(r)
    <3>1. accounts[u] \in Account
      BY <1>1, RowType DEF Inv
    <3> QED
      BY <1>1, <2>2, <2>4, <2>7, <3>1 DEF Delete, Store, Account
  <2> QED
    BY <2>2, <2>5, <2>6, <2>7
<1>2. CASE u \notin DOMAIN accounts
  <2>1. ~UNCHANGED accounts /\ u \in DOMAIN accounts' /\ accounts'[u].role = "super_admin"
    BY <1>2 DEF SuperAdmins
  <2>2. \A r \in Requests : ~(Sign(r) \/ Save(r) \/ Delete(r))
    BY <1>2, <2>1 DEF Sign, Save, Delete, Store, Written
  <2>3. CASE Boot
    BY <2>3 DEF Boot
  <2>4. ASSUME NEW role \in Roles, NEW boot \in BOOLEAN, Insert(Inactive(role, boot))
        PROVE  role = "super_admin"
    <3>1. Inactive(role, boot) \in Account /\ Inactive(role, boot).role = role
      BY DEF Inactive, Account
    <3>2. accounts' = Append(accounts, Inactive(role, boot)) /\ accounts \in Seq(Account)
      BY <2>4, <3>1, InsertKeeps DEF Inv, TableInv
    <3>3. u = Len(accounts) + 1 /\ accounts'[u] = Inactive(role, boot)
      BY <1>2, <2>1, <3>1, <3>2, AppendProperties, LenProperties
    <3> QED
      BY <2>1, <3>1, <3>3
  <2>5. ~Register
    BY <2>4 DEF Register, Roles
  <2>6. ASSUME NEW r \in Requests, CreateUser(r)
        PROVE  pc[r] # "idle" /\ pc'[r] = "idle" /\ actor[r].role = "super_admin"
    <3>1. PICK role \in Roles, boot \in BOOLEAN :
             /\ role = "super_admin" => actor[r].role = "super_admin"
             /\ Insert(Inactive(role, boot))
      BY <2>6 DEF CreateUser
    <3> QED
      BY <2>4, <2>6, <3>1 DEF CreateUser, AdminOnly, Answer, Inv, RequestTypes
  <2> QED
    BY <2>1, <2>2, <2>3, <2>5, <2>6
       DEF Next, vars, Login, Authenticate, Refuse, UpdateUser, GetProfile, VerifyEmail,
           DeleteUser, Tick, Stop, Read
<1> QED
  BY <1>1, <1>2

-----------------------------------------------------------------------------
(* The theorems *)

(***************************************************************************)
(* The accounts, tokens and requests have their types; no address is that  *)
(* of two live accounts.                                                   *)
(***************************************************************************)
THEOREM AdministratorTypes == Spec => []TypeOK
<1>1. Inv => TypeOK
  <2> SUFFICES ASSUME Inv PROVE TypeOK
    OBVIOUS
  <2>1. tokens \subseteq Token /\ \A t \in tokens : t.user \in DOMAIN accounts
    BY DEF Inv, Honest
  <2> QED
    BY <2>1 DEF Inv, TableInv, RequestTypes, RequestInv, TypeOK, PC
<1> QED
  BY InvStart, InvStep, <1>1, PTL DEF Spec

(***************************************************************************)
(* However logins, changes of roles and restarts interleave, a token opens *)
(* nothing for a role that was lost longer ago than its lifetime.          *)
(***************************************************************************)
THEOREM LostRolesExpire == Spec => []RoleHeldRecently
<1>1. Inv => RoleHeldRecently
  BY DEF Inv, Honest, RequestInv, RoleHeldRecently
<1> QED
  BY InvStart, InvStep, <1>1, PTL DEF Spec

(***************************************************************************)
(* Super administrators are made and unmade by super administrators, by    *)
(* the start of the server, or by a write that overtook another one.       *)
(***************************************************************************)
THEOREM PeersMakeSuperAdmins == Spec => SuperAdminsByPeers
<1> DEFINE ByPeers ==
        \A u \in DOMAIN accounts :
           (u \in SuperAdmins) # (u \in SuperAdmins') =>
              \E r \in Requests :
                  Finishes(r) /\ target[r] = u /\ (actor[r].role = "super_admin" \/ raced[r])
<1>1. Inv /\ [Next]_vars => [ByPeers]_vars
  BY PeersOnly
<1> QED
  BY InvStart, InvStep, <1>1, PTL DEF Spec, SuperAdminsByPeers

(***************************************************************************)
(* No race makes a super administrator of somebody who has not just been   *)
(* one: a row is saved in the role it was read in, unless a super          *)
(* administrator says otherwise, and is read where it still has the role.  *)
(***************************************************************************)
THEOREM RacesRestore == Spec => RacesOnlyRestore
<1> DEFINE Restore ==
        \A u \in SuperAdmins' \ SuperAdmins :
           \/ server = "down"
           \/ \E r \in Requests :
                 pc[r] # "idle" /\ pc'[r] = "idle" /\ actor[r].role = "super_admin"
           \/ u \in DOMAIN accounts /\ since[u]["super_admin"] = 0
<1>1. Inv /\ [Next]_vars => [Restore]_vars
  BY RaceRestores
<1> QED
  BY InvStart, InvStep, <1>1, PTL DEF Spec, RacesOnlyRestore

(***************************************************************************)
(* The check against self-deletion keeps a super administrator, but for a  *)
(* PUT on the own account and for the races that the property names.       *)
(***************************************************************************)
THEOREM LastOneStays == Spec => LastSuperAdmin
<1> DEFINE Last ==
        SuperAdmins # {} /\ SuperAdmins' = {} =>
          \E r \in Requests :
              /\ Finishes(r)
              /\ \/ /\ actor[r].role = "super_admin"
                    /\ \/ pc[r] = "save" /\ target[r] = actor[r].user
                       \/ actor[r].user \notin SuperAdmins
                 \/ raced[r]
<1>1. Inv /\ [Next]_vars => [Last]_vars
  BY LastLeaves
<1> QED
  BY InvStart, InvStep, <1>1, PTL DEF Spec, LastSuperAdmin
=============================================================================
