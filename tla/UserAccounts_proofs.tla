------------------------ MODULE UserAccounts_proofs ------------------------
(***************************************************************************)
(* Proofs about UserAccounts: for every number of requests and whatever    *)
(* passwords, the row of an account has the type of the table, and what an *)
(* administrator or the account's owner has asked for is undone only by a  *)
(* request that writes back a row it had read before.                      *)
(***************************************************************************)
EXTENDS UserAccounts, TLAPS

(***************************************************************************)
(* ChangesLostOnlyToRacer is not inductive: whether a Save keeps it        *)
(* depends on the draft.  Where a draft differs from the row, either its   *)
(* own request changes the field or others have changed it behind its back.*)
(***************************************************************************)
DraftCurrent(r) ==
    pc[r] # "idle" =>
        \A f \in Fields \ gives[r] : draft[r][f] # user[f] => f \in behind[r]

UserInv ==
    /\ TypeOK
    /\ ChangesLostOnlyToRacer
    /\ \A r \in Requests : DraftCurrent(r)

-----------------------------------------------------------------------------
(* A row is a function of its fields. *)
LEMMA Merged ==
    ASSUME NEW u \in User, NEW v \in User, NEW W
    PROVE  [f \in Fields |-> IF f \in W THEN u[f] ELSE v[f]] \in User
BY DEF User, Fields, Roles

LEMMA StartCounts ==
    ASSUME TypeOK, NEW r \in Requests, Start(r)
    PROVE  started' \in Nat
BY DEF Start, TypeOK

LEMMA ReadKeeps ==
    ASSUME UserInv, NEW r \in Requests, NEW next \in PC, NEW row \in User,
           NEW fields \in SUBSET Fields, \A f \in Fields \ fields : row[f] = user[f],
           Read(r, next, row, fields), started' \in Nat
    PROVE  UserInv'
<1>1. TypeOK'
  BY DEF Read, UserInv, TypeOK
<1>2. ChangesLostOnlyToRacer'
  BY DEF Read, UserInv, ChangesLostOnlyToRacer
<1>3. ASSUME NEW c \in Requests PROVE DraftCurrent(c)'
  <2>1. CASE c = r
    <3>1. draft'[r] = row /\ gives'[r] = fields /\ user' = user
      BY DEF Read, UserInv, TypeOK
    <3> QED
      BY <2>1, <3>1 DEF DraftCurrent
  <2>2. CASE c # r
    <3>1. /\ pc'[c] = pc[c] /\ draft'[c] = draft[c] /\ gives'[c] = gives[c]
          /\ behind'[c] = behind[c] /\ user' = user
      BY <2>2 DEF Read, UserInv, TypeOK
    <3> QED
      BY <3>1 DEF UserInv, DraftCurrent
  <2> QED
    BY <2>1, <2>2
<1> QED
  BY <1>1, <1>2, <1>3 DEF UserInv

(* The row with some fields changed. *)
LEMMA ChangedType ==
    ASSUME NEW u \in User
    PROVE  /\ [u EXCEPT !.verified = TRUE, !.active = TRUE] \in User
           /\ \A p \in Passwords : [u EXCEPT !.password = p] \in User
           /\ [u EXCEPT !.live = FALSE] \in User
           /\ \A x \in Roles, on \in BOOLEAN : [u EXCEPT !.role = x, !.active = on] \in User
BY DEF User

LEMMA ArriveKeeps ==
    ASSUME UserInv, NEW r \in Requests, Arrive(r)
    PROVE  UserInv'
<1>1. user \in User /\ (Start(r) => started' \in Nat)
  BY StartCounts DEF UserInv, TypeOK
<1>2. CASE Login(r) \/ Authenticate(r)
  BY <1>1, <1>2, ReadKeeps DEF Login, Authenticate, PC
<1>3. CASE VerifyEmail(r)
  <2> DEFINE row == [user EXCEPT !.verified = TRUE, !.active = TRUE]
  <2>1. \A f \in Fields \ {"verified", "active"} : row[f] = user[f]
    BY <1>1 DEF Fields, User
  <2>2. row \in User /\ {"verified", "active"} \in SUBSET Fields /\ "save" \in PC
    BY <1>1, ChangedType DEF Fields, PC
  <2>3. Read(r, "save", row, {"verified", "active"}) /\ started' \in Nat
    BY <1>1, <1>3 DEF VerifyEmail
  <2> HIDE DEF row
  <2> QED
    BY <2>1, <2>2, <2>3, ReadKeeps
<1>4. CASE ResetPassword(r)
  <2>1. PICK p \in Passwords : Read(r, "column", [user EXCEPT !.password = p], {"password"})
    BY <1>4 DEF ResetPassword
  <2> DEFINE row == [user EXCEPT !.password = p]
  <2>2. \A f \in Fields \ {"password"} : row[f] = user[f]
    BY <1>1 DEF Fields, User
  <2>3. row \in User /\ {"password"} \in SUBSET Fields /\ "column" \in PC
    BY <1>1, ChangedType DEF Fields, PC
  <2>4. Read(r, "column", row, {"password"}) /\ started' \in Nat
    BY <1>1, <1>4, <2>1 DEF ResetPassword
  <2> HIDE DEF row
  <2> QED
    BY <2>2, <2>3, <2>4, ReadKeeps
<1>5. CASE UpdateUser(r)
  <2>1. PICK body \in SUBSET {"role", "active"}, new \in Roles, on \in BOOLEAN :
           Read(r, "save",
                [user EXCEPT !.role   = IF "role" \in body THEN new ELSE @,
                             !.active = IF "active" \in body THEN on ELSE @],
                body)
    BY <1>5 DEF UpdateUser
  <2> DEFINE row == [user EXCEPT !.role   = IF "role" \in body THEN new ELSE @,
                                 !.active = IF "active" \in body THEN on ELSE @]
  <2>2. \A f \in Fields \ body : row[f] = user[f]
    BY <1>1 DEF Fields, User
  <2>3. row \in User /\ body \in SUBSET Fields /\ "save" \in PC
    BY <1>1 DEF Fields, PC, User
  <2>4. Read(r, "save", row, body) /\ started' \in Nat
    BY <1>1, <1>5, <2>1 DEF UpdateUser
  <2> HIDE DEF row
  <2> QED
    BY <2>2, <2>3, <2>4, ReadKeeps
<1>6. CASE DeleteUser(r)
  <2> DEFINE row == [user EXCEPT !.live = FALSE]
  <2>1. \A f \in Fields \ {"live"} : row[f] = user[f]
    BY <1>1 DEF Fields, User
  <2>2. row \in User /\ {"live"} \in SUBSET Fields /\ "delete" \in PC
    BY <1>1, ChangedType DEF Fields, PC
  <2>3. Read(r, "delete", row, {"live"}) /\ started' \in Nat
    BY <1>1, <1>6 DEF DeleteUser
  <2> HIDE DEF row
  <2> QED
    BY <2>1, <2>2, <2>3, ReadKeeps
<1> QED
  BY <1>2, <1>3, <1>4, <1>5, <1>6 DEF Arrive

(***************************************************************************)
(* A request writes the fields it gives, and perhaps others: of these it   *)
(* overwrites only the ones that were changed behind its back.             *)
(***************************************************************************)
LEMMA CommitKeeps ==
    ASSUME UserInv, NEW r \in Requests, pc[r] # "idle", NEW written \in SUBSET Fields,
           gives[r] \subseteq written, Commit(r, written)
    PROVE  UserInv'
<1>1. TypeOK'
  <2>1. draft[r] \in User /\ user \in User /\ wanted \in User
    BY DEF UserInv, TypeOK
  <2>2. user' \in User /\ wanted' \in User
    BY <2>1, Merged DEF Commit
  <2>3. behind' \in [Requests -> SUBSET Fields]
    BY DEF Commit, UserInv, TypeOK
  <2>4. clobbered' \in SUBSET Fields
    BY DEF Commit, UserInv, TypeOK
  <2>5. pc' \in [Requests -> PC]
    BY DEF Commit, UserInv, TypeOK, PC
  <2> QED
    BY <2>2, <2>3, <2>4, <2>5 DEF Commit, UserInv, TypeOK
<1>2. ChangesLostOnlyToRacer'
  <2> SUFFICES ASSUME NEW f \in Fields, user'[f] # wanted'[f] PROVE f \in clobbered'
    BY DEF ChangesLostOnlyToRacer
  <2>1. /\ user'[f] = IF f \in written THEN draft[r][f] ELSE user[f]
        /\ wanted'[f] = IF f \in gives[r] THEN draft[r][f] ELSE wanted[f]
        /\ f \in clobbered' <=>
              (f \in clobbered \/ (f \in behind[r] /\ f \in written)) /\ f \notin gives[r]
    BY DEF Commit
  <2>2. f \notin gives[r]
    BY <2>1
  <2>3. draft[r][f] # user[f] => f \in behind[r]
    BY <2>2 DEF UserInv, DraftCurrent
  <2>4. user[f] # wanted[f] => f \in clobbered
    BY DEF UserInv, ChangesLostOnlyToRacer
  <2> QED
    BY <2>1, <2>2, <2>3, <2>4
<1>3. ASSUME NEW c \in Requests PROVE DraftCurrent(c)'
  <2>1. CASE c = r
    BY <2>1 DEF Commit, DraftCurrent, UserInv, TypeOK
  <2>2. CASE c # r
    <3>1. /\ pc'[c] = pc[c] /\ draft'[c] = draft[c] /\ gives'[c] = gives[c]
          /\ pc[c] # "idle" => behind'[c] = behind[c] \cup {f \in Fields : user'[f] # user[f]}
      BY <2>2 DEF Commit, UserInv, TypeOK
    <3> QED
      BY <3>1 DEF UserInv, DraftCurrent
  <2> QED
    BY <2>1, <2>2
<1> QED
  BY <1>1, <1>2, <1>3 DEF UserInv

(* A request that ends without a write. *)
LEMMA EndKeeps ==
    ASSUME UserInv, NEW r \in Requests, pc' = [pc EXCEPT ![r] = "idle"],
           UNCHANGED <<user, draft, gives, started, wanted, behind, clobbered>>
    PROVE  UserInv'
<1>1. TypeOK' /\ ChangesLostOnlyToRacer'
  BY DEF UserInv, TypeOK, PC, ChangesLostOnlyToRacer
<1>2. \A c \in Requests : pc'[c] = pc[c] \/ pc'[c] = "idle"
  BY DEF UserInv, TypeOK
<1>3. \A c \in Requests : DraftCurrent(c)'
  BY <1>2 DEF UserInv, DraftCurrent
<1> QED
  BY <1>1, <1>3 DEF UserInv

LEMMA StepKeeps ==
    ASSUME UserInv, NEW r \in Requests, Step(r)
    PROVE  UserInv'
<1>1. user \in User /\ started \in Nat /\ gives[r] \in SUBSET Fields
  BY DEF UserInv, TypeOK
<1>2. CASE GetProfile(r)
  BY <1>1, <1>2, ReadKeeps DEF GetProfile, PC
<1>3. CASE ChangePassword(r)
  <2>1. PICK p \in Passwords : Read(r, "column", [user EXCEPT !.password = p], {"password"})
    BY <1>3 DEF ChangePassword
  <2> DEFINE row == [user EXCEPT !.password = p]
  <2>2. \A f \in Fields \ {"password"} : row[f] = user[f]
    BY <1>1 DEF Fields, User
  <2>3. row \in User /\ {"password"} \in SUBSET Fields /\ "column" \in PC
    BY <1>1, ChangedType DEF Fields, PC
  <2>4. Read(r, "column", row, {"password"}) /\ started' \in Nat
    BY <1>1, <1>3, <2>1 DEF ChangePassword
  <2> HIDE DEF row
  <2> QED
    BY <2>2, <2>3, <2>4, ReadKeeps
<1>4. CASE Save(r)
  BY <1>1, <1>4, CommitKeeps DEF Save
<1>5. CASE WriteColumn(r)
  BY <1>1, <1>5, CommitKeeps, EndKeeps DEF WriteColumn
<1>6. CASE NotFound(r) \/ WriteFails(r)
  BY <1>6, EndKeeps DEF NotFound, WriteFails
<1> QED
  BY <1>2, <1>3, <1>4, <1>5, <1>6 DEF Step

LEMMA UserStart == Init => UserInv
<1> SUFFICES ASSUME Init PROVE UserInv
  OBVIOUS
<1>1. user \in User
  BY UserAssumption DEF Init
<1>2. TypeOK
  BY <1>1 DEF Init, TypeOK, PC
<1> QED
  BY <1>2 DEF Init, UserInv, ChangesLostOnlyToRacer, DraftCurrent

LEMMA UserStep == UserInv /\ [Next]_vars => UserInv'
<1> SUFFICES ASSUME UserInv, [Next]_vars PROVE UserInv'
  OBVIOUS
<1>1. CASE Next
  BY <1>1, ArriveKeeps, StepKeeps DEF Next
<1>2. CASE UNCHANGED vars
  BY <1>2 DEF vars, UserInv, TypeOK, ChangesLostOnlyToRacer, DraftCurrent
<1> QED
  BY <1>1, <1>2

-----------------------------------------------------------------------------
(***************************************************************************)
(* The row and every request in flight have the types of the table users.  *)
(***************************************************************************)
THEOREM AccountTypes == Spec => []TypeOK
<1>1. UserInv => TypeOK
  BY DEF UserInv
<1> QED
  BY UserStart, UserStep, <1>1, PTL DEF Spec

(***************************************************************************)
(* For any number of requests: a password, a role, an activation or a      *)
(* deletion is lost only to a request that had read the row before it.     *)
(***************************************************************************)
THEOREM ChangesSurvive == Spec => []ChangesLostOnlyToRacer
<1>1. UserInv => ChangesLostOnlyToRacer
  BY DEF UserInv
<1> QED
  BY UserStart, UserStep, <1>1, PTL DEF Spec
=============================================================================
