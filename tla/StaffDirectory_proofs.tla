------------------------ MODULE StaffDirectory_proofs ------------------------
(***************************************************************************)
(* Proofs about StaffDirectory: an account opens at most one live staff    *)
(* record, a link that was checked stays free except for records written   *)
(* since and deleted ones, and a start adds links and changes none.        *)
(***************************************************************************)
EXTENDS StaffDirectory, TLAPS, SequenceTheorems

LEMMA BlankType == Blank \in Record
  BY StaffAssumption DEF Blank, Record, NoUser

(* A record put at the end of the table, or in the place of one of its rows. *)
LEMMA StoredType ==
    ASSUME TypeOK, NEW r \in Requests
    PROVE  /\ Stored(r) \in Seq(Record)
           /\ DOMAIN staff \subseteq DOMAIN Stored(r)
           /\ LET id == IF target[r] = New THEN Len(Stored(r)) ELSE target[r]
              IN  /\ id \in DOMAIN Stored(r)
                  /\ Stored(r)[id] = draft[r]
                  /\ \A t \in DOMAIN Stored(r) \ {id} :
                        t \in DOMAIN staff /\ Stored(r)[t] = staff[t]
           /\ Len(Stored(r)) = (IF target[r] = New THEN Len(staff) + 1 ELSE Len(staff))
  <1>1. staff \in Seq(Record) /\ draft[r] \in Record /\ target[r] \in DOMAIN staff \cup {New}
    BY DEF TypeOK
  <1>2. Len(staff) \in Nat /\ DOMAIN staff = 1..Len(staff)
    BY <1>1
  <1>3. CASE target[r] = New
    <2> DEFINE new == Append(staff, draft[r])
    <2>1. /\ new \in Seq(Record) /\ Len(new) = Len(staff) + 1
          /\ DOMAIN new = 1..(Len(staff) + 1)
          /\ new[Len(staff) + 1] = draft[r]
          /\ \A t \in 1..Len(staff) : new[t] = staff[t]
      BY <1>1, <1>2
    <2>2. Stored(r) = new
      BY <1>3 DEF Stored
    <2> HIDE DEF new
    <2> QED BY <1>2, <1>3, <2>1, <2>2
  <1>4. CASE target[r] # New
    <2> DEFINE new == [staff EXCEPT ![target[r]] = draft[r]]
    <2>1. target[r] \in DOMAIN staff
      BY <1>1, <1>4
    <2>2. /\ new \in Seq(Record) /\ Len(new) = Len(staff) /\ DOMAIN new = DOMAIN staff
          /\ new[target[r]] = draft[r]
          /\ \A t \in DOMAIN staff \ {target[r]} : new[t] = staff[t]
      BY <1>1, <1>2, <2>1
    <2>3. Stored(r) = new
      BY <1>4 DEF Stored
    <2> HIDE DEF new
    <2> QED BY <1>4, <2>1, <2>2, <2>3
  <1> QED BY <1>3, <1>4

(* The backfill gives links to accounts that exist. *)
LEMMA BackfilledType ==
    ASSUME TypeOK
    PROVE  /\ Backfilled \in Seq(Record) /\ Len(Backfilled) = Len(staff)
           /\ DOMAIN Backfilled = DOMAIN staff
           /\ \A s \in DOMAIN staff : Backfilled[s].user \in DOMAIN users \cup {NoUser}
  <1> DEFINE n == Len(staff)
  <1>1. staff \in Seq(Record) /\ n \in Nat /\ DOMAIN staff = 1..n
    BY DEF TypeOK
  <1>2. DOMAIN users \subseteq Nat
    BY DEF TypeOK
  <1>3. \A s \in 1..n : Backfilled[s] \in Record
                        /\ Backfilled[s].user \in DOMAIN users \cup {NoUser}
    <2> SUFFICES ASSUME NEW s \in 1..n
                 PROVE  Backfilled[s] \in Record
                        /\ Backfilled[s].user \in DOMAIN users \cup {NoUser}
      OBVIOUS
    <2>1. staff[s] \in Record /\ staff[s].user \in DOMAIN users \cup {NoUser}
      BY <1>1 DEF TypeOK
    <2>2. CASE staff[s].live /\ staff[s].user = NoUser /\ AccountsOf(staff[s].email) # {}
      <3> DEFINE u == CHOOSE v \in AccountsOf(staff[s].email) : TRUE
      <3>1. u \in DOMAIN users
        BY <2>2 DEF AccountsOf
      <3>2. Backfilled[s] = [staff[s] EXCEPT !.user = u]
        BY <1>1, <2>2 DEF Backfilled
      <3> HIDE DEF u
      <3> QED BY <1>2, <2>1, <3>1, <3>2 DEF Record
    <2>3. CASE ~(staff[s].live /\ staff[s].user = NoUser /\ AccountsOf(staff[s].email) # {})
      <3>1. Backfilled[s] = staff[s]
        BY <1>1, <2>3 DEF Backfilled
      <3> QED BY <2>1, <3>1
    <2> QED BY <2>2, <2>3
  <1>4. DOMAIN Backfilled = 1..n /\ Backfilled = [s \in 1..n |-> Backfilled[s]]
    BY <1>1 DEF Backfilled
  <1>5. Backfilled \in [1..n -> Record]
    BY <1>3, <1>4
  <1>6. Backfilled \in Seq(Record) /\ Len(Backfilled) = n
    BY <1>1, <1>4, <1>5, SeqDef, LenProperties
  <1> QED BY <1>1, <1>3, <1>4, <1>6

LEMMA TypeInit == Init => TypeOK
  <1> SUFFICES ASSUME Init PROVE TypeOK
    OBVIOUS
  <1>1. staff = <<>> /\ users = <<>> /\ <<>> \in Seq(Record) /\ <<>> \in Seq(Account)
    BY DEF Init
  <1>2. Blank.user = NoUser
    BY DEF Blank
  <1>3. Len(<<>>) = 0 /\ DOMAIN <<>> = {}
    OBVIOUS
  <1> QED BY <1>1, <1>2, <1>3, BlankType, StaffAssumption DEF Init, TypeOK, New

(* What CreateStaff and UpdateStaff do to the variables. *)
LEMMA CheckedType ==
    ASSUME TypeOK, NEW r \in Requests, NEW record \in Record, NEW id,
           id \in DOMAIN staff \cup {New}, record.user \in DOMAIN users \cup {NoUser},
           NEW seen, Checked(r, record, id, seen)
    PROVE  TypeOK'
  <1>1. UNCHANGED <<staff, users, server>> /\ raced' \in [Requests -> SUBSET DOMAIN staff]
    BY DEF Checked, TypeOK
  <1>2. pc' \in [Requests -> {"idle", "store"}] /\ draft' \in [Requests -> Record]
        /\ target' \in [Requests -> DOMAIN staff \cup {New}]
    BY DEF Checked, TypeOK
  <1>3. \A q \in Requests : draft'[q].user \in DOMAIN users \cup {NoUser}
    BY DEF Checked, TypeOK
  <1> QED BY <1>1, <1>2, <1>3 DEF TypeOK

(* A step that changes accounts and deletes no row of users. *)
LEMMA UsersType ==
    ASSUME TypeOK, UNCHANGED <<staff, pc, draft, target, server, raced>>,
           users' \in Seq(Account), Len(users') <= MaxUsers, DOMAIN users \subseteq DOMAIN users'
    PROVE  TypeOK'
  BY DEF TypeOK

LEMMA TypeStep == TypeOK /\ [Next]_vars => TypeOK'
  <1> SUFFICES ASSUME TypeOK, [Next]_vars PROVE TypeOK'
    OBVIOUS
  <1>0. users \in Seq(Account) /\ Len(users) \in Nat /\ DOMAIN users = 1..Len(users)
        /\ DOMAIN users \subseteq Nat /\ staff \in Seq(Record)
    BY DEF TypeOK
  <1>1. ASSUME NEW r \in Requests, CreateStaff(r) PROVE TypeOK'
    <2>1. PICK e \in Emails, u \in DOMAIN users \cup {NoUser}, seen \in Lookups :
             Checked(r, [live |-> TRUE, email |-> e, user |-> u], New, seen)
      BY <1>1 DEF CreateStaff
    <2>2. [live |-> TRUE, email |-> e, user |-> u] \in Record
      BY <1>0 DEF Record, NoUser
    <2> QED BY <2>1, <2>2, CheckedType
  <1>2. ASSUME NEW r \in Requests, UpdateStaff(r) PROVE TypeOK'
    <2>0. PICK s \in DOMAIN staff :
             \E e \in Emails, u \in DOMAIN users \cup {staff[s].user}, seen \in Lookups :
                Checked(r, [live |-> TRUE, email |-> e, user |-> u], s, seen)
      BY <1>2 DEF UpdateStaff
    <2>1. PICK e \in Emails, u \in DOMAIN users \cup {staff[s].user}, seen \in Lookups :
             Checked(r, [live |-> TRUE, email |-> e, user |-> u], s, seen)
      BY <2>0
    <2>2. u \in DOMAIN users \cup {NoUser}
      BY DEF TypeOK
    <2>3. [live |-> TRUE, email |-> e, user |-> u] \in Record
      BY <1>0, <2>2 DEF Record, NoUser
    <2> QED BY <2>1, <2>2, <2>3, CheckedType
  <1>3. ASSUME NEW r \in Requests, StoreStaff(r) PROVE TypeOK'
    <2> DEFINE new == Stored(r)
               id == IF target[r] = New THEN Len(new) ELSE target[r]
    <2>1. /\ pc' \in [Requests -> {"idle", "store"}]
          /\ draft' \in [Requests -> Record]
          /\ \A q \in Requests : draft'[q].user \in DOMAIN users \cup {NoUser}
          /\ target' \in [Requests -> DOMAIN staff \cup {New}]
          /\ UNCHANGED <<users, server>>
      BY <1>3, BlankType DEF StoreStaff, TypeOK, Blank
    <2>2. CASE UniqueIndexes(new)
      <3>1. staff' = new
            /\ raced' = [q \in Requests |->
                   IF q = r \/ pc[q] = "idle" THEN {} ELSE raced[q] \cup {id}]
        BY <1>3, <2>2 DEF StoreStaff
      <3> HIDE DEF new
      <3>2. /\ new \in Seq(Record) /\ DOMAIN staff \subseteq DOMAIN new /\ id \in DOMAIN new
            /\ new[id] = draft[r]
            /\ \A t \in DOMAIN new \ {id} : t \in DOMAIN staff /\ new[t] = staff[t]
            /\ Len(new) = (IF target[r] = New THEN Len(staff) + 1 ELSE Len(staff))
        BY StoredType DEF new
      <3>3. \A t \in DOMAIN new : new[t].user \in DOMAIN users \cup {NoUser}
        BY <3>2 DEF TypeOK
      <3>4. raced' \in [Requests -> SUBSET DOMAIN new]
        BY <3>1, <3>2 DEF TypeOK
      <3>5. Len(new) <= MaxStaff
        <4>1. Len(staff) \in Nat /\ Len(staff) <= MaxStaff
              /\ (target[r] = New => Len(staff) < MaxStaff)
          BY <1>0, <1>3 DEF StoreStaff, TypeOK
        <4> QED BY <3>2, <4>1, StaffAssumption
      <3>6. target' \in [Requests -> DOMAIN new \cup {New}]
        BY <2>1, <3>2
      <3> QED BY <2>1, <3>1, <3>2, <3>3, <3>4, <3>5, <3>6 DEF TypeOK
    <2>3. CASE ~UniqueIndexes(new)
      <3>1. staff' = staff /\ raced' = [raced EXCEPT ![r] = {}]
        BY <1>3, <2>3 DEF StoreStaff
      <3> QED BY <2>1, <3>1 DEF TypeOK
    <2> QED BY <2>2, <2>3
  <1>4. ASSUME NEW s \in 1..MaxStaff, DeleteStaff(s) PROVE TypeOK'
    <2> DEFINE new == [staff EXCEPT ![s].live = FALSE]
    <2>1. s \in DOMAIN staff /\ staff[s] \in Record
      BY <1>0, <1>4 DEF DeleteStaff
    <2> DEFINE row == [staff[s] EXCEPT !.live = FALSE]
    <2>2. row \in Record /\ row.user = staff[s].user
      BY <2>1 DEF Record
    <2>3. new = [staff EXCEPT ![s] = row]
      OBVIOUS
    <2> HIDE DEF new, row
    <2>4. new \in Seq(Record) /\ Len(new) = Len(staff) /\ DOMAIN new = DOMAIN staff
      BY <1>0, <2>1, <2>2, <2>3
    <2>5. \A t \in DOMAIN new : new[t].user = staff[t].user
      BY <1>0, <2>1, <2>2, <2>3
    <2>6. staff' = new /\ UNCHANGED <<users, pc, draft, target, server, raced>>
      BY <1>4 DEF DeleteStaff, new
    <2> QED BY <2>4, <2>5, <2>6 DEF TypeOK
  <1>5. ASSUME CreateUser PROVE TypeOK'
    <2>1. PICK e \in Emails : users' = Append(users, [live |-> TRUE, email |-> e])
      BY <1>5 DEF CreateUser
    <2>2. [live |-> TRUE, email |-> e] \in Account
      BY DEF Account
    <2>3. /\ users' \in Seq(Account) /\ Len(users') = Len(users) + 1
          /\ DOMAIN users \subseteq DOMAIN users'
      BY <1>0, <2>1, <2>2
    <2>4. Len(users') <= MaxUsers /\ UNCHANGED <<staff, pc, draft, target, server, raced>>
      BY <1>0, <1>5, <2>3, StaffAssumption DEF CreateUser
    <2> QED BY <2>3, <2>4, UsersType
  <1>6. ASSUME SaveUser \/ DeleteUser PROVE TypeOK'
    <2>1. PICK u \in DOMAIN users, a \in Account : users' = [users EXCEPT ![u] = a]
      <3>1. CASE SaveUser
        BY <3>1 DEF SaveUser, Account
      <3>2. CASE DeleteUser
        <4>1. PICK u \in DOMAIN users : users' = [users EXCEPT ![u].live = FALSE]
          BY <3>2 DEF DeleteUser
        <4>2. users[u] \in Account
          BY <1>0
        <4>3. [users[u] EXCEPT !.live = FALSE] \in Account
          BY <4>2 DEF Account
        <4> QED BY <4>1, <4>3
      <3> QED BY <1>6, <3>1, <3>2
    <2>2. /\ users' \in Seq(Account) /\ Len(users') = Len(users) /\ DOMAIN users' = DOMAIN users
      BY <1>0, <2>1
    <2>3. UNCHANGED <<staff, pc, draft, target, server, raced>> /\ Len(users') <= MaxUsers
      BY <1>6, <2>2 DEF SaveUser, DeleteUser, TypeOK
    <2> QED BY <2>2, <2>3, UsersType
  <1>7. ASSUME Stop PROVE TypeOK'
    <2>1. Blank.user = NoUser
      BY DEF Blank
    <2> QED BY <1>7, <2>1, BlankType DEF Stop, TypeOK
  <1>8. ASSUME Start PROVE TypeOK'
    <2>1. UNCHANGED <<users, pc, draft, target, raced>> /\ server' \in {"up", "down", "failed"}
      BY <1>8 DEF Start
    <2>2. CASE staff' = Backfilled
      BY <2>1, <2>2, BackfilledType DEF TypeOK
    <2>3. CASE staff' = staff
      BY <2>1, <2>3 DEF TypeOK
    <2> QED BY <1>8, <2>2, <2>3 DEF Start
  <1>9. CASE UNCHANGED vars
    BY <1>9 DEF vars, TypeOK
  <1> QED BY <1>1, <1>2, <1>3, <1>4, <1>5, <1>6, <1>7, <1>8, <1>9 DEF Next

(* The variables always have their types; in particular every link is to an account. *)
THEOREM StaffTypes == Spec => []TypeOK
  BY TypeInit, TypeStep, PTL DEF Spec

-----------------------------------------------------------------------------
(***************************************************************************)
(* Neither property is inductive alone.  The index keeps every row, a      *)
(* deleted one included, from sharing its account; that a PUT which leaves *)
(* the link alone holds an account nobody else has follows from it.  And   *)
(* no request outlives the process, so a start races with none.            *)
(***************************************************************************)
LinksGood ==
    /\ UserOnce(staff)
    /\ server # "up" => \A r \in Requests : pc[r] = "idle"
    /\ LinkFreeUnlessRaced

LinkInv == TypeOK /\ LinksGood

(* A link that ValidUserLink accepts is held by no other live record. *)
LEMMA CheckedLink ==
    ASSUME LinkInv, NEW r \in Requests, NEW record, NEW id, NEW seen, Checked(r, record, id, seen),
           record.user # NoUser =>
              \A t \in DOMAIN staff \ {id} :
                 staff[t].user = record.user => ~staff[t].live \/ t \notin seen
    PROVE  LinksGood'
  <1>1. TypeOK /\ UNCHANGED <<staff, users, server>> /\ server = "up"
        /\ pc' = [pc EXCEPT ![r] = "store"]
        /\ draft' = [draft EXCEPT ![r] = record]
        /\ target' = [target EXCEPT ![r] = id]
        /\ raced' = [raced EXCEPT ![r] = DOMAIN staff \ seen]
    BY DEF Checked, LinkInv, LinksGood
  <1>2. UserOnce(staff)' /\ server' = "up"
    BY <1>1 DEF LinkInv, LinksGood, UserOnce
  <1>3. LinkFreeUnlessRaced'
    <2> SUFFICES ASSUME NEW q \in Requests, pc'[q] = "store", draft'[q].user # NoUser,
                        NEW t \in DOMAIN staff \ {target'[q]},
                        staff[t].user = draft'[q].user
                 PROVE  ~staff[t].live \/ t \in raced'[q]
      BY <1>1 DEF LinkFreeUnlessRaced
    <2>1. CASE q = r
      BY <1>1, <2>1 DEF TypeOK
    <2>2. CASE q # r
      <3>1. /\ pc[q] = "store" /\ draft'[q] = draft[q] /\ target'[q] = target[q]
            /\ raced'[q] = raced[q]
        BY <1>1, <2>2 DEF TypeOK
      <3> QED BY <3>1 DEF LinkInv, LinksGood, LinkFreeUnlessRaced
    <2> QED BY <2>1, <2>2
  <1> QED BY <1>2, <1>3 DEF LinksGood

(* A step that leaves the requests alone and gives no record an account it had not. *)
LEMMA UnlinkedStep ==
    ASSUME LinkInv, UNCHANGED <<pc, draft, target, raced>>,
           UserOnce(staff'),
           server' # "up" => \A r \in Requests : pc[r] = "idle",
           (\A r \in Requests : pc[r] = "idle")
           \/ /\ DOMAIN staff' = DOMAIN staff
              /\ \A t \in DOMAIN staff : /\ staff'[t].user = staff[t].user
                                         /\ staff'[t].live => staff[t].live
    PROVE  LinksGood'
  <1>1. UserOnce(staff)'
    BY DEF UserOnce
  <1>2. LinkFreeUnlessRaced'
    BY DEF LinkInv, LinksGood, LinkFreeUnlessRaced
  <1> QED BY <1>1, <1>2 DEF LinksGood

LEMMA LinkInit == Init => LinkInv
  <1> SUFFICES ASSUME Init PROVE LinkInv
    OBVIOUS
  <1>1. TypeOK
    BY TypeInit
  <1>2. DOMAIN staff = {}
    BY DEF Init
  <1> QED BY <1>1, <1>2 DEF Init, LinkInv, LinksGood, UserOnce, LinkFreeUnlessRaced

LEMMA LinkStep == LinkInv /\ [Next]_vars => LinkInv'
  <1> SUFFICES ASSUME LinkInv, [Next]_vars PROVE LinksGood'
    BY TypeStep DEF LinkInv
  <1>0. TypeOK /\ LinksGood /\ UserOnce(staff)
    BY DEF LinkInv, LinksGood
  <1>1. ASSUME NEW r \in Requests, CreateStaff(r) PROVE LinksGood'
    <2>1. PICK e \in Emails, u \in DOMAIN users \cup {NoUser}, seen \in Lookups :
             /\ IF u = NoUser THEN seen = DOMAIN staff ELSE ValidUserLink(u, New, seen)
             /\ Checked(r, [live |-> TRUE, email |-> e, user |-> u], New, seen)
      BY <1>1 DEF CreateStaff
    <2>2. New \notin DOMAIN staff
      BY <1>0 DEF New, TypeOK
    <2>3. u # NoUser => \A t \in DOMAIN staff : staff[t].user = u => ~staff[t].live \/ t \notin seen
      BY <1>0, <2>1, <2>2 DEF ValidUserLink, TypeOK, Record
    <2> QED BY <2>1, <2>3, CheckedLink
  <1>2. ASSUME NEW r \in Requests, UpdateStaff(r) PROVE LinksGood'
    <2>1. PICK s \in DOMAIN staff :
             \E e \in Emails, u \in DOMAIN users \cup {staff[s].user}, seen \in Lookups :
                /\ IF u = staff[s].user THEN seen = DOMAIN staff ELSE ValidUserLink(u, s, seen)
                /\ Checked(r, [live |-> TRUE, email |-> e, user |-> u], s, seen)
      BY <1>2 DEF UpdateStaff
    <2>2. PICK e \in Emails, u \in DOMAIN users \cup {staff[s].user}, seen \in Lookups :
             /\ IF u = staff[s].user THEN seen = DOMAIN staff ELSE ValidUserLink(u, s, seen)
             /\ Checked(r, [live |-> TRUE, email |-> e, user |-> u], s, seen)
      BY <2>1
    <2>3. u # NoUser => \A t \in DOMAIN staff \ {s} : staff[t].user = u => ~staff[t].live \/ t \notin seen
      <3>1. CASE u = staff[s].user
        BY <1>0, <3>1 DEF UserOnce
      <3>2. CASE u # staff[s].user
        BY <1>0, <2>2, <3>2 DEF ValidUserLink, TypeOK, Record
      <3> QED BY <3>1, <3>2
    <2> QED BY <2>2, <2>3, CheckedLink
  <1>3. ASSUME NEW r \in Requests, StoreStaff(r) PROVE LinksGood'
    <2> DEFINE new == Stored(r)
               id == IF target[r] = New THEN Len(new) ELSE target[r]
    <2>1. /\ pc[r] = "store" /\ pc'[r] = "idle" /\ UNCHANGED <<users, server>>
          /\ \A q \in Requests \ {r} :
                pc'[q] = pc[q] /\ draft'[q] = draft[q] /\ target'[q] = target[q]
      BY <1>0, <1>3 DEF StoreStaff, TypeOK
    <2>2. server' = "up"
      BY <1>0, <2>1 DEF LinksGood
    <2>3. CASE UniqueIndexes(new)
      <3>1. /\ staff' = new
            /\ \A q \in Requests \ {r} : pc[q] = "store" => raced'[q] = raced[q] \cup {id}
        BY <1>3, <2>3 DEF StoreStaff
      <3>2. UserOnce(staff)'
        BY <2>3, <3>1 DEF UniqueIndexes, UserOnce
      <3> HIDE DEF new
      <3>3. \A t \in DOMAIN new \ {id} : t \in DOMAIN staff /\ new[t] = staff[t]
        BY <1>0, StoredType DEF new
      <3>4. LinkFreeUnlessRaced'
        <4> SUFFICES ASSUME NEW q \in Requests \ {r}, pc[q] = "store",
                            draft[q].user # NoUser, NEW t \in DOMAIN new \ {target[q]},
                            new[t].user = draft[q].user
                     PROVE  ~new[t].live \/ t \in raced'[q]
          BY <2>1, <3>1 DEF LinkFreeUnlessRaced
        <4>1. CASE t = id
          BY <3>1, <4>1
        <4>2. CASE t # id
          BY <1>0, <3>1, <3>3, <4>2 DEF LinksGood, LinkFreeUnlessRaced
        <4> QED BY <4>1, <4>2
      <3> QED BY <2>2, <3>2, <3>4 DEF LinksGood
    <2>4. CASE ~UniqueIndexes(new)
      <3>1. staff' = staff /\ raced' = [raced EXCEPT ![r] = {}]
        BY <1>3, <2>4 DEF StoreStaff
      <3>2. UserOnce(staff)'
        BY <1>0, <3>1 DEF UserOnce
      <3>3. LinkFreeUnlessRaced'
        BY <1>0, <2>1, <3>1 DEF LinksGood, LinkFreeUnlessRaced, TypeOK
      <3> QED BY <2>2, <3>2, <3>3 DEF LinksGood
    <2> QED BY <2>3, <2>4
  <1>4. ASSUME NEW s \in 1..MaxStaff, DeleteStaff(s) PROVE LinksGood'
    <2>1. /\ server = "up" /\ UNCHANGED <<pc, draft, target, server, raced>>
          /\ DOMAIN staff' = DOMAIN staff
          /\ \A t \in DOMAIN staff : /\ staff'[t].user = staff[t].user
                                     /\ staff'[t].live => staff[t].live
      <3>1. staff \in Seq(Record) /\ s \in DOMAIN staff
            /\ staff' = [staff EXCEPT ![s].live = FALSE]
            /\ server = "up" /\ UNCHANGED <<pc, draft, target, server, raced>>
        BY <1>0, <1>4 DEF DeleteStaff, TypeOK
      <3>2. DOMAIN staff' = DOMAIN staff
            /\ \A t \in DOMAIN staff \ {s} : staff'[t] = staff[t]
        BY <3>1
      <3>3. staff'[s] = [staff[s] EXCEPT !.live = FALSE] /\ staff[s] \in Record
        BY <3>1
      <3>4. staff'[s].user = staff[s].user /\ ~staff'[s].live
        BY <3>3 DEF Record
      <3> QED BY <3>1, <3>2, <3>4
    <2>2. UserOnce(staff')
      BY <1>0, <2>1 DEF UserOnce
    <2> QED BY <2>1, <2>2, UnlinkedStep
  <1>5. ASSUME CreateUser \/ SaveUser \/ DeleteUser PROVE LinksGood'
    <2>1. UNCHANGED <<staff, pc, draft, target, server, raced>>
      BY <1>5 DEF CreateUser, SaveUser, DeleteUser
    <2> QED BY <1>0, <2>1, UnlinkedStep DEF LinksGood
  <1>6. ASSUME Stop PROVE LinksGood'
    <2>1. staff' = staff /\ \A r \in Requests : pc'[r] = "idle"
      BY <1>6 DEF Stop
    <2> QED BY <1>0, <2>1 DEF LinksGood, UserOnce, LinkFreeUnlessRaced
  <1>7. ASSUME Start PROVE LinksGood'
    <2>1. \A r \in Requests : pc[r] = "idle"
      BY <1>0, <1>7 DEF Start, LinksGood
    <2>2. UNCHANGED <<pc, draft, target, raced>>
      BY <1>7 DEF Start
    <2>3. UserOnce(staff')
      BY <1>0, <1>7 DEF Start, UniqueIndexes
    <2> QED BY <2>1, <2>2, <2>3, UnlinkedStep
  <1>8. CASE UNCHANGED vars
    <2>1. UNCHANGED <<staff, pc, draft, target, server, raced>>
      BY <1>8 DEF vars
    <2> QED BY <1>0, <2>1, UnlinkedStep DEF LinksGood
  <1> QED BY <1>1, <1>2, <1>3, <1>4, <1>5, <1>6, <1>7, <1>8 DEF Next

(***************************************************************************)
(* For any number of requests, records and accounts, what validateUserLink *)
(* has found free is taken only by a record written since or held by a     *)
(* deleted one.                                                            *)
(***************************************************************************)
THEOREM LinksStayFree == Spec => []LinkFreeUnlessRaced
  <1>1. LinkInv => LinkFreeUnlessRaced
    BY DEF LinkInv, LinksGood
  <1> QED BY <1>1, LinkInit, LinkStep, PTL DEF Spec

(* An account opens at most one live staff record. *)
THEOREM OneRecordPerAccount == Spec => []OneStaffPerUser
  <1>1. LinkInv => OneStaffPerUser
    BY DEF LinkInv, LinksGood, UserOnce, OneStaffPerUser
  <1> QED BY <1>1, LinkInit, LinkStep, PTL DEF Spec

-----------------------------------------------------------------------------
(* The backfill leaves a linked record alone, and links another one only to *)
(* an account with its email.                                              *)
LEMMA BackfilledLinks ==
    ASSUME TypeOK, NEW s \in DOMAIN staff
    PROVE  /\ staff[s].user # NoUser => Backfilled[s] = staff[s]
           /\ Backfilled[s].user # staff[s].user =>
                 staff[s].live /\ Backfilled[s].user \in AccountsOf(staff[s].email)
  <1>1. staff[s] \in Record
    <2>1. staff \in Seq(Record)
      BY DEF TypeOK
    <2> QED BY <2>1
  <1>2. CASE staff[s].live /\ staff[s].user = NoUser /\ AccountsOf(staff[s].email) # {}
    <2> DEFINE u == CHOOSE v \in AccountsOf(staff[s].email) : TRUE
    <2>1. u \in AccountsOf(staff[s].email)
      BY <1>2
    <2>2. Backfilled[s] = [staff[s] EXCEPT !.user = u]
      BY <1>2 DEF Backfilled
    <2> HIDE DEF u
    <2> QED BY <1>1, <1>2, <2>1, <2>2 DEF Record
  <1>3. CASE ~(staff[s].live /\ staff[s].user = NoUser /\ AccountsOf(staff[s].email) # {})
    <2>1. Backfilled[s] = staff[s]
      BY <1>3 DEF Backfilled
    <2> QED BY <2>1
  <1> QED BY <1>2, <1>3

(* While the server is not up no request is in flight, so only a start does anything. *)
LEMMA StartStep ==
    ASSUME LinkInv, [Next]_vars, server # "up"
    PROVE  Start \/ UNCHANGED vars
  <1>1. \A r \in Requests : pc[r] = "idle"
    BY DEF LinkInv, LinksGood
  <1> QED BY <1>1 DEF Next, CreateStaff, UpdateStaff, Checked, StoreStaff, DeleteStaff,
                      CreateUser, SaveUser, DeleteUser, Stop

(***************************************************************************)
(* However many records and accounts there are, and whatever requests the  *)
(* end of the process cut off, a start never overwrites a link, and gives  *)
(* a record without one only the live account that has its email.          *)
(***************************************************************************)
THEOREM StartsOnlyLink == Spec => StartOnlyAddsLinks
  <1>1. ASSUME LinkInv, [Next]_vars, ~ UNCHANGED vars, server # "up", NEW s \in DOMAIN staff
        PROVE  /\ staff[s].user # NoUser => staff'[s] = staff[s]
               /\ staff'[s].user # staff[s].user =>
                     staff[s].live /\ staff'[s].user \in AccountsOf(staff[s].email)
    <2>1. staff' = Backfilled \/ staff' = staff
      BY <1>1, StartStep DEF Start
    <2>2. CASE staff' = staff
      BY <2>2
    <2>3. CASE staff' = Backfilled
      BY <1>1, <2>3, BackfilledLinks DEF LinkInv
    <2> QED BY <2>1, <2>2, <2>3
  <1>2. LinkInv /\ [Next]_vars =>
           [server # "up" =>
              \A s \in DOMAIN staff :
                 /\ staff[s].user # NoUser => staff'[s] = staff[s]
                 /\ staff'[s].user # staff[s].user =>
                       staff[s].live /\ staff'[s].user \in AccountsOf(staff[s].email)]_vars
    BY <1>1
  <1> QED BY <1>2, LinkInit, LinkStep, PTL DEF Spec, StartOnlyAddsLinks
=============================================================================
