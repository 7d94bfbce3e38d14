----------------------- MODULE OtpVerification_proofs -----------------------
(***************************************************************************)
(* Proofs about OtpVerification: for every number of requests and every    *)
(* lifetime and limit, the keys in Redis are consistent with their         *)
(* lifetimes, no counter locks an address out for ever unless a restart or *)
(* a failing command came between its INCR and its EXPIRE, and both the    *)
(* wrong guesses at a code and the uses of it are bounded.                 *)
(***************************************************************************)
EXTENDS OtpVerification, TLAPS, FiniteSetTheorems

(* Less than half a second is never taken for a lifetime. *)
TtlsInv == \A r \in Requests : ttl[r] > Half

Inv == TypeOK /\ TtlsInv /\ LockoutEnds

-----------------------------------------------------------------------------
(* Rounding *)

LEMMA SecondType == Second \in Nat \ {0}
BY OtpAssumption

LEMMA WholeSeconds == Lifetime \in Nat \ {0} /\ Lifetime % Second = 0
BY OtpAssumption

LEMMA DivMod ==
    ASSUME NEW n \in Nat
    PROVE  /\ n \div Second \in Nat /\ n % Second \in 0..(Second - 1)
           /\ n = Second * (n \div Second) + (n % Second)
BY SecondType, SMTT(30)

LEMMA Times ==
    ASSUME NEW a \in Nat, NEW b \in Nat
    PROVE  /\ Second * a \in Nat /\ a * Second = Second * a
           /\ a <= b => Second * a <= Second * b
           /\ a < b => Second * a + Second <= Second * b
           /\ a # 0 => Second * a >= Second
           /\ a = 0 => Second * a = 0
BY SecondType, SMTT(30)

LEMMA HalfType ==
    /\ Half \in Nat /\ Second \div 2 \in Nat /\ Second \in Nat
    /\ Half + Second \div 2 + 1 = Second /\ Second \div 2 < Second
<1>1. /\ Second \div 2 \in Nat /\ (Second - 1) \div 2 \in Nat
      /\ Second % 2 \in 0..1 /\ (Second - 1) % 2 \in 0..1
  BY SecondType
<1>2. Second = 2 * (Second \div 2) + (Second % 2)
  BY SecondType
<1>3. Second - 1 = 2 * ((Second - 1) \div 2) + ((Second - 1) % 2)
  BY SecondType
<1> QED
  BY <1>1, <1>2, <1>3, SecondType DEF Half

LEMMA LifetimeSeconds ==
    Lifetime \div Second \in Nat /\ Lifetime = Second * (Lifetime \div Second)
<1> DEFINE k == Lifetime \div Second
<1>1. k \in Nat /\ Lifetime = Second * k + (Lifetime % Second)
  BY WholeSeconds, DivMod
<1> HIDE DEF k
<1>2. Second * k \in Nat
  BY <1>1, Times
<1>3. Lifetime = Second * k
  BY <1>1, <1>2, WholeSeconds
<1> QED
  BY <1>1, <1>3 DEF k

LEMMA LifetimeType == Lifetime \in Nat /\ Lifetime > Half
<1>1. PICK k \in Nat : Lifetime = Second * k
  BY LifetimeSeconds
<1>2. k # 0
  BY <1>1, Times, WholeSeconds
<1>3. Lifetime >= Second
  BY <1>1, <1>2, Times
<1> QED
  BY <1>3, HalfType, WholeSeconds

(* Rounding takes off or adds at most half a second, and less is 0. *)
LEMMA RoundedType ==
    ASSUME NEW n \in 0..Lifetime
    PROVE  /\ Rounded(n) \in 0..Lifetime
           /\ Rounded(n) + Half >= n
           /\ Rounded(n) > 0 => Rounded(n) > Half
           /\ Rounded(n) > 0 <=> n > Half
<1> DEFINE m == n + Second \div 2
           q == m \div Second
           k == Lifetime \div Second
<1>0. n \in Nat /\ n <= Lifetime /\ m \in Nat
  BY LifetimeType, HalfType
<1>1. PICK left \in 0..(Second - 1) : q \in Nat /\ m = Second * q + left
  BY <1>0, DivMod
<1>2. k \in Nat /\ Lifetime = Second * k
  BY LifetimeSeconds
<1>3. Rounded(n) = Second * q /\ Second * q \in Nat
  BY <1>1, Times DEF Rounded
<1> HIDE DEF q, k
<1>4. q <= k
  <2> SUFFICES ASSUME k < q PROVE FALSE
    BY <1>1, <1>2
  <2>1. Second * k + Second <= Second * q
    BY <1>1, <1>2, Times
  <2> QED
    BY <2>1, <1>0, <1>1, <1>2, <1>3, HalfType
<1>5. Second * q <= Second * k
  BY <1>1, <1>2, <1>4, Times
<1>6. (q # 0 => Second * q >= Second) /\ (q = 0 => Second * q = 0)
  BY <1>1, Times
<1> QED
  BY <1>0, <1>1, <1>2, <1>3, <1>5, <1>6, HalfType

(* The lifetime that a counter is given. *)
LEMMA RemainingType ==
    ASSUME TypeOK
    PROVE  RemainingTTL \in 1..Lifetime /\ RemainingTTL > Half /\ RemainingTTL + Half >= otpTTL
<1>1. otpTTL \in 0..Lifetime
  BY DEF TypeOK
<1> QED
  BY <1>1, RoundedType, LifetimeType, HalfType DEF RemainingTTL

-----------------------------------------------------------------------------
LEMMA GoToType ==
    ASSUME TypeOK, NEW r \in Requests, NEW next \in PC, GoTo(r, next)
    PROVE  pc' \in [Requests -> PC]
BY DEF GoTo, TypeOK

LEMMA CountType ==
    ASSUME NEW n \in 0..Cap
    PROVE  Count(n) \in 0..Cap
BY OtpAssumption DEF Count

LEMMA StepType ==
    ASSUME TypeOK, NEW r \in Requests, Step(r)
    PROVE  TypeOK'
<1>1. CASE CheckAttempts(r)
  BY <1>1, GoToType DEF CheckAttempts, TypeOK, PC
<1>2. CASE Lockout(r) \/ DeleteCode(r)
  <2>1. pc' \in [Requests -> PC]
    BY <1>2, GoToType DEF Lockout, DeleteCode, PC
  <2>2. /\ otp' = NoCode /\ otpTTL' = 0
        /\ UNCHANGED <<attempts, attemptsTTL, codes, guess, ttl, crashes, faults, wrongs,
                        uses, overlap>>
    BY <1>2 DEF Lockout, DeleteCode
  <2>3. otp' \in 0..codes /\ otpTTL' \in 0..Lifetime
    BY <2>2, OtpAssumption DEF TypeOK, NoCode
  <2> QED
    BY <2>1, <2>2, <2>3 DEF TypeOK
<1>3. CASE GetCode(r)
  <2>1. pc' \in [Requests -> PC]
    BY <1>3, GoToType DEF GetCode, PC
  <2>2. wrongs' \in [1..MaxCodes -> 0..Cap]
    BY <1>3, CountType DEF GetCode, TypeOK, NoCode
  <2> QED
    BY <1>3, <2>1, <2>2 DEF GetCode, TypeOK
<1>4. CASE ReadTTL(r)
  <2>1. RemainingTTL \in 1..Lifetime
    BY RemainingType
  <2>2. pc' \in [Requests -> PC]
    BY <1>4, GoToType DEF ReadTTL, PC
  <2> QED
    BY <1>4, <2>1, <2>2 DEF ReadTTL, TypeOK
<1>5. CASE Incr(r)
  <2>1. pc' \in [Requests -> PC]
    BY <1>5, GoToType DEF Incr, PC
  <2>2. /\ attempts' \in Nat /\ attempts' > 0
        /\ attemptsTTL' \in {Forever} \cup (0..Lifetime) /\ attemptsTTL' # 0
    BY <1>5 DEF Incr, TypeOK, Forever
  <2> QED
    BY <1>5, <2>1, <2>2 DEF Incr, TypeOK
<1>6. CASE Expire(r)
  <2>1. pc' \in [Requests -> PC]
    BY <1>6, GoToType DEF Expire, PC
  <2>2. ttl[r] \in 1..Lifetime
    BY DEF TypeOK
  <2>3. attemptsTTL' \in 0..Lifetime /\ (attempts > 0 <=> attemptsTTL' # 0)
    BY <1>6, <2>2, OtpAssumption DEF Expire, TypeOK
  <2>4. /\ attempts' \in Nat /\ (attempts' > 0 <=> attemptsTTL' # 0)
        /\ attemptsTTL' \in {Forever} \cup (0..Lifetime)
    BY <1>6, <2>3 DEF Expire, TypeOK
  <2> QED
    BY <1>6, <2>1, <2>4 DEF Expire, TypeOK
<1>7. CASE Accept(r) \/ AcceptFails(r)
  <2>1. pc' \in [Requests -> PC]
    BY <1>7, GoToType DEF Accept, AcceptFails, PC
  <2>2. uses' \in [1..MaxCodes -> 0..Cap]
    <3>1. uses \in [1..MaxCodes -> 0..Cap]
      BY DEF TypeOK
    <3>2. \A n \in 1..MaxCodes : Count(uses[n]) \in 0..Cap
      BY <3>1, CountType
    <3>3. CASE Accept(r)
      BY <3>1, <3>2, <3>3 DEF Accept
    <3>4. CASE AcceptFails(r)
      BY <3>1, <3>4 DEF AcceptFails
    <3> QED
      BY <1>7, <3>3, <3>4
  <2> QED
    BY <1>7, <2>1, <2>2 DEF Accept, AcceptFails, TypeOK
<1>8. CASE Reset(r)
  <2>1. pc' \in [Requests -> PC]
    BY <1>8, GoToType DEF Reset, PC
  <2> QED
    BY <1>8, <2>1, LifetimeType DEF Reset, TypeOK
<1> QED
  BY <1>1, <1>2, <1>3, <1>4, <1>5, <1>6, <1>7, <1>8 DEF Step

LEMMA FaultType ==
    ASSUME TypeOK, NEW r \in Requests, CommandFails(r)
    PROVE  TypeOK'
<1>1. AfterFault[pc[r]] \in PC
  BY DEF CommandFails, AfterFault, PC
<1>2. pc' \in [Requests -> PC]
  BY <1>1, GoToType DEF CommandFails, PC
<1>3. ttl' \in [Requests -> 1..Lifetime]
  BY OtpAssumption DEF CommandFails, TypeOK
<1> QED
  BY <1>2, <1>3 DEF CommandFails, TypeOK

(* A key and its lifetime end in the same tick. *)
LEMMA TickType ==
    ASSUME TypeOK, Tick
    PROVE  TypeOK'
<1>1. otpTTL' \in 0..Lifetime /\ (otpTTL' > 0 => otpTTL > 0)
  BY OtpAssumption DEF Tick, Elapsed, TypeOK
<1>2. otp' \in 0..codes /\ (otp' # NoCode <=> otpTTL' > 0)
  BY <1>1 DEF Tick, TypeOK, NoCode
<1>3. attemptsTTL' \in {Forever} \cup (0..Lifetime) /\ (attemptsTTL' # 0 => attemptsTTL # 0)
  BY OtpAssumption DEF Tick, Elapsed, TypeOK, Forever
<1>4. attempts' \in Nat /\ (attempts' > 0 <=> attemptsTTL' # 0)
  BY <1>3 DEF Tick, TypeOK
<1> QED
  BY <1>1, <1>2, <1>3, <1>4 DEF Tick, TypeOK

LEMMA NextType == TypeOK /\ [Next]_vars => TypeOK'
<1> SUFFICES ASSUME TypeOK, [Next]_vars PROVE TypeOK'
  OBVIOUS
<1>1. CASE IssueCode
  BY <1>1, OtpAssumption DEF IssueCode, TypeOK, NoCode
<1>2. ASSUME NEW r \in Requests, Verify(r) PROVE TypeOK'
  <2>1. pc' \in [Requests -> PC]
    BY <1>2, GoToType DEF Verify, PC
  <2>2. guess' \in [Requests -> 0..MaxCodes]
    BY <1>2, OtpAssumption DEF Verify, TypeOK
  <2> QED
    BY <1>2, <2>1, <2>2 DEF Verify, TypeOK
<1>3. CASE Crash
  BY <1>3 DEF Crash, TypeOK, PC
<1>4. CASE UNCHANGED vars
  BY <1>4 DEF vars, TypeOK
<1> QED
  BY <1>1, <1>2, <1>3, <1>4, StepType, FaultType, TickType DEF Next

(* What a counter is given is a whole number of seconds, and at least one. *)
LEMMA NextTtls == TypeOK /\ TtlsInv /\ [Next]_vars => TtlsInv'
<1> SUFFICES ASSUME TypeOK, TtlsInv, [Next]_vars PROVE TtlsInv'
  OBVIOUS
<1>1. ASSUME NEW r \in Requests, ReadTTL(r) PROVE TtlsInv'
  BY <1>1, RemainingType DEF ReadTTL, TtlsInv, TypeOK
<1>2. ASSUME NEW r \in Requests, CommandFails(r) PROVE TtlsInv'
  BY <1>2, LifetimeType DEF CommandFails, TtlsInv, TypeOK
<1>3. CASE UNCHANGED ttl
  BY <1>3 DEF TtlsInv
<1> QED
  BY <1>1, <1>2, <1>3
     DEF Next, vars, IssueCode, Verify, Step, CheckAttempts, Lockout, GetCode, Incr, Expire, Accept,
         AcceptFails, DeleteCode, Reset, Tick, Crash

-----------------------------------------------------------------------------
(* A request moves on; the others are where they were. *)
LEMMA StepLockout ==
    ASSUME Inv, NEW r \in Requests, Verify(r) \/ Step(r)
    PROVE  LockoutEnds'
<1>0. crashes' = crashes /\ faults' = faults
  BY DEF Verify, Step, CheckAttempts, Lockout, GetCode, ReadTTL, Incr, Expire, Accept, AcceptFails,
         DeleteCode, Reset
<1> SUFFICES ASSUME attemptsTTL' = Forever, ~(crashes + faults > 0)
             PROVE  \E q \in Requests : pc'[q] = "expire"
  BY <1>0 DEF LockoutEnds
<1>1. CASE Incr(r)
  BY <1>1 DEF Incr, GoTo, Inv, TypeOK
<1>2. CASE Expire(r)
  <2>1. ttl[r] \in 1..Lifetime
    BY DEF Inv, TypeOK
  <2> QED
    BY <1>2, <2>1 DEF Expire, Forever
<1>3. CASE Reset(r)
  BY <1>3 DEF Reset, Forever
<1>4. CASE Verify(r) \/ (Step(r) /\ ~Incr(r) /\ ~Expire(r) /\ ~Reset(r))
  <2>1. /\ UNCHANGED <<attemptsTTL, crashes, faults>>
        /\ pc[r] # "expire" /\ \E next : GoTo(r, next)
    BY <1>0, <1>4
       DEF Verify, Step, CheckAttempts, Lockout, GetCode, ReadTTL, Accept, AcceptFails, DeleteCode
  <2>2. PICK q \in Requests : pc[q] = "expire"
    BY <2>1 DEF Inv, LockoutEnds, TypeOK
  <2>3. pc'[q] = "expire"
    BY <2>1, <2>2 DEF GoTo, Inv, TypeOK
  <2> QED
    BY <2>3
<1> QED
  BY <1>1, <1>2, <1>3, <1>4

LEMMA NextLockout == Inv /\ [Next]_vars => LockoutEnds'
<1> SUFFICES ASSUME Inv, [Next]_vars PROVE LockoutEnds'
  OBVIOUS
<1>1. CASE IssueCode \/ UNCHANGED vars
  BY <1>1 DEF IssueCode, vars, Inv, LockoutEnds
<1>2. ASSUME NEW r \in Requests, CommandFails(r) PROVE LockoutEnds'
  BY <1>2 DEF CommandFails, Inv, TypeOK, LockoutEnds
<1>3. CASE Tick
  <2>1. attemptsTTL' = Forever => attemptsTTL = Forever
    BY <1>3, OtpAssumption DEF Tick, Elapsed, Forever, Inv, TypeOK
  <2> QED
    BY <1>3, <2>1 DEF Tick, Inv, LockoutEnds
<1>4. CASE Crash
  BY <1>4 DEF Crash, Inv, TypeOK, LockoutEnds
<1> QED
  BY <1>1, <1>2, <1>3, <1>4, StepLockout DEF Next

-----------------------------------------------------------------------------
LEMMA Start == Init => Inv
<1> SUFFICES ASSUME Init PROVE Inv
  OBVIOUS
<1>1. /\ codes \in 0..MaxCodes /\ otp \in 0..codes /\ otpTTL \in 0..Lifetime
      /\ otp = NoCode /\ otpTTL = 0 /\ attempts = 0 /\ attemptsTTL = 0
      /\ crashes = 0 /\ faults = 0
  BY OtpAssumption DEF Init, NoCode
<1>2. /\ guess \in [Requests -> 0..MaxCodes] /\ ttl \in [Requests -> 1..Lifetime]
      /\ wrongs \in [1..MaxCodes -> 0..Cap] /\ uses \in [1..MaxCodes -> 0..Cap]
  BY OtpAssumption DEF Init, NoCode
<1>3. pc \in [Requests -> PC] /\ overlap \in BOOLEAN
  BY DEF Init, PC
<1>4. 0 \in 0..Lifetime /\ 0 # Forever
  BY OtpAssumption DEF Forever
<1>5. TypeOK
  BY <1>1, <1>2, <1>3, <1>4 DEF TypeOK
<1>6. LockoutEnds
  BY <1>1, <1>4 DEF LockoutEnds
<1>7. TtlsInv
  BY LifetimeType DEF Init, TtlsInv
<1> QED
  BY <1>5, <1>6, <1>7 DEF Inv

(***************************************************************************)
(* Codes, counters and lifetimes have their types, and a key exists as     *)
(* long as its lifetime lasts.                                             *)
(***************************************************************************)
THEOREM OtpTypes == Spec => []TypeOK
<1>1. Inv => TypeOK
  BY DEF Inv
<1>2. Init => TypeOK
  BY Start DEF Inv
<1> QED
  BY <1>2, NextType, PTL DEF Spec

(***************************************************************************)
(* For any number of requests: a lockout without an end takes a restart or *)
(* a failing Redis command between the INCR and the EXPIRE.                *)
(***************************************************************************)
THEOREM LockoutsExpire == Spec => []LockoutEnds
<1>1. Inv /\ [Next]_vars => Inv'
  BY NextType, NextTtls, NextLockout DEF Inv
<1>2. Inv => LockoutEnds
  BY DEF Inv
<1> QED
  BY Start, <1>1, <1>2, PTL DEF Spec

-----------------------------------------------------------------------------
(* What bounds the guesses and the uses of a code *)

At(commands) == {r \in Requests : pc[r] \in commands}
AtWith(command, n) == {r \in Requests : pc[r] = command /\ guess[r] = n}

(* 1 when a request is at one of the commands, for one request at a time. *)
Busy(commands) == IF \E r \in Requests : pc[r] \in commands THEN 1 ELSE 0

(* No code has been accepted, so that the counter has never been reset. *)
Quiet == \A n \in 1..MaxCodes : uses[n] = 0

(* The counter outlives the stored code, unless it expires with it, or     *)
(* misses that by less than half a second.                                 *)
Outlives == attemptsTTL = Forever \/ attemptsTTL >= otpTTL
NearlyOutlives == attemptsTTL = Forever \/ attemptsTTL + Half >= otpTTL

(* The code is in its last half second, and the counter lasts as long. *)
Closing == otpTTL <= Half /\ (attempts > 0 => Outlives)

(* Where requests can be, and what they can hold. *)
PlacesInv ==
    /\ codes = 0 => attempts = 0 /\ \A r \in Requests : pc[r] \in {"idle", "check", "get"}
    /\ \A n \in 1..MaxCodes : n > codes => wrongs[n] = 0 /\ uses[n] = 0
    /\ \A r \in Requests :
          /\ pc[r] \in {"accept", "del", "reset"} => guess[r] \in 1..codes
          /\ pc[r] \in {"del", "reset"} => uses[guess[r]] > 0
          /\ pc[r] = "reset" /\ faults = 0 => otp # 1
    /\ ~overlap => \A q, r \in Requests : pc[q] # "idle" /\ pc[r] # "idle" => q = r

(* How many requests have read another code and not yet counted it, and    *)
(* how many have passed the check and not yet read the code.               *)
Underway == Cardinality(At({"ttl", "incr"}))
Passed == Cardinality(At({"get"}))

(* The guesses that restarts may have kept from being counted. *)
LostGuesses == Cardinality(Requests) * crashes

(* What one counter allows, apart from restarts and faults. *)
Allowed == MaxAttempts + Cardinality(Requests) - 1

(***************************************************************************)
(* The first code.  The counter began with it, so it nearly outlives it,   *)
(* and a wrong guess is in the counter, on its way there, or lost to a     *)
(* restart or a fault.  Every request past the check may add one more.     *)
(* A counter that is gone before the code leaves less than half a second   *)
(* to it, which the next one outlives: it starts at a base that the first  *)
(* one had allowed.                                                        *)
(***************************************************************************)
FirstLasts ==
    otp = 1 =>
        /\ attempts > 0 => NearlyOutlives
        /\ \A r \in Requests : pc[r] \in {"incr", "expire"} => ttl[r] + Half >= otpTTL

FirstCounted ==
    otp = 1 /\ otpTTL > Half /\ (Quiet \/ (crashes = 0 /\ faults = 0)) =>
        wrongs[1] <= attempts + Underway + LostGuesses + faults

Counted(base) ==
    /\ wrongs[1] <= base + attempts + Underway + LostGuesses + faults
    /\ wrongs[1] + Passed <= base + Allowed + LostGuesses + faults
    /\ base # 0 => Closing

FirstBounded ==
    Quiet =>
        /\ wrongs[1] <= 2 * Allowed + LostGuesses + faults
        /\ otp = 1 => Counted(0) \/ Counted(Allowed)

FirstInv == FirstLasts /\ FirstCounted /\ FirstBounded

(***************************************************************************)
(* A later code, one request at a time.  A counter begun for an earlier    *)
(* code may be gone before the stored one, and a wrong guess with it; once *)
(* it nearly outlives the code, it does so until the code is replaced.     *)
(***************************************************************************)
CountedLater(base) ==
    /\ attempts = 0 =>
          wrongs[otp] <= base + 1 + Busy({"ttl", "incr"}) + crashes + faults
    /\ attempts > 0 /\ ~NearlyOutlives =>
          wrongs[otp] <= base + Busy({"ttl", "incr", "expire"}) + crashes + faults
    /\ attempts > 0 /\ NearlyOutlives =>
          wrongs[otp] <= base + attempts + 1 + Busy({"ttl", "incr"}) + crashes + faults
    /\ wrongs[otp] + Busy({"get"}) <= base + MaxAttempts + 1 + crashes + faults
    /\ base # 0 => Closing

LaterInv ==
    ~overlap =>
        /\ otp # NoCode =>
              \A r \in Requests :
                  pc[r] \in {"incr", "expire"} => ttl[r] + Half >= otpTTL \/ wrongs[otp] = 0
        /\ Quiet /\ otp # NoCode => CountedLater(0) \/ CountedLater(MaxAttempts)
        /\ Quiet => \A n \in 1..MaxCodes : wrongs[n] <= 2 * MaxAttempts + 1 + crashes + faults

(* The requests that can be in flight at once. *)
Width == IF overlap THEN Cardinality(Requests) ELSE 1

(* The deletions of a used code that restarts may have prevented. *)
LostDeletions == Width * crashes

(***************************************************************************)
(* While a code is stored, whoever accepted it is about to delete it, or a *)
(* restart or a fault kept him from that.  When it is gone, only those may *)
(* still accept it that had read it before.                                *)
(***************************************************************************)
UsesInv ==
    \A n \in 1..codes :
        /\ otp = n => uses[n] <= Cardinality(AtWith("del", n)) + LostDeletions + faults
        /\ otp # n => uses[n] + Cardinality(AtWith("accept", n))
                         <= Width + LostDeletions + faults

(* Sets that differ in one element. *)
LEMMA CardMove ==
    ASSUME NEW S, IsFiniteSet(S), NEW T, NEW x, \A y : y # x => (y \in S <=> y \in T)
    PROVE  /\ IsFiniteSet(T) /\ Cardinality(T) \in Nat /\ Cardinality(S) \in Nat
           /\ x \in S <=> x \in T => Cardinality(T) = Cardinality(S)
           /\ x \in S /\ x \notin T => Cardinality(T) = Cardinality(S) - 1
           /\ x \notin S /\ x \in T => Cardinality(T) = Cardinality(S) + 1
<1>1. CASE x \in S <=> x \in T
  <2>1. S = T
    BY <1>1
  <2> QED
    BY <1>1, <2>1, FS_CardinalityType
<1>2. CASE x \in S /\ x \notin T
  <2>1. T = S \ {x}
    BY <1>2
  <2>2. IsFiniteSet(T) /\ Cardinality(T) = Cardinality(S) - 1
    BY <1>2, <2>1, FS_RemoveElement
  <2> QED
    BY <1>2, <2>2, FS_CardinalityType
<1>3. CASE x \notin S /\ x \in T
  <2>1. T = S \cup {x}
    BY <1>3
  <2>2. IsFiniteSet(T) /\ Cardinality(T) = Cardinality(S) + 1
    BY <1>3, <2>1, FS_AddElement
  <2> QED
    BY <1>3, <2>2, FS_CardinalityType
<1> QED
  BY <1>1, <1>2, <1>3

LEMMA RequestsFinite ==
    ASSUME NEW S, S \subseteq Requests
    PROVE  /\ IsFiniteSet(S) /\ Cardinality(S) \in Nat
           /\ Cardinality(S) <= Cardinality(Requests) /\ Cardinality(Requests) \in Nat
BY OtpAssumption, FS_Subset, FS_CardinalityType

(* Two groups of requests that have none in common are no more than all of them. *)
LEMMA Apart ==
    ASSUME NEW S, NEW T, S \subseteq Requests, T \subseteq Requests, S \cap T = {}
    PROVE  Cardinality(S) + Cardinality(T) <= Cardinality(Requests)
<1>1. /\ IsFiniteSet(S) /\ IsFiniteSet(T) /\ Cardinality(S) \in Nat /\ Cardinality(T) \in Nat
      /\ S \cup T \subseteq Requests
  BY RequestsFinite
<1>2. Cardinality(S \cup T) = Cardinality(S) + Cardinality(T) - Cardinality(S \cap T)
  BY <1>1, FS_Union
<1>3. Cardinality(S \cap T) = 0
  BY FS_EmptySet
<1>4. Cardinality(S \cup T) <= Cardinality(Requests)
  BY <1>1, RequestsFinite
<1> QED
  BY <1>1, <1>2, <1>3, <1>4

(* A request that goes on is counted where it is then, and no longer where it was. *)
LEMMA AtMove ==
    ASSUME TypeOK, NEW r \in Requests, NEW next \in PC, GoTo(r, next), NEW C
    PROVE  /\ Cardinality(At(C)) \in Nat /\ Cardinality(At(C)') \in Nat
           /\ pc[r] \in C <=> next \in C => Cardinality(At(C)') = Cardinality(At(C))
           /\ pc[r] \in C /\ next \notin C => Cardinality(At(C)') = Cardinality(At(C)) - 1
           /\ pc[r] \notin C /\ next \in C => Cardinality(At(C)') = Cardinality(At(C)) + 1
<1> DEFINE before == At(C)
<1>1. PICK after : after = At(C)'
  OBVIOUS
<1>2. /\ r \in before <=> pc[r] \in C
      /\ r \in after <=> next \in C
      /\ \A q : q # r => (q \in before <=> q \in after)
  BY <1>1 DEF At, GoTo, TypeOK
<1>3. IsFiniteSet(before)
  BY RequestsFinite DEF At
<1> HIDE DEF before
<1> QED
  BY <1>1, <1>2, <1>3, CardMove DEF before

LEMMA AtWithMove ==
    ASSUME TypeOK, NEW r \in Requests, NEW next \in PC, GoTo(r, next), NEW c, NEW n,
           \A q \in Requests : guess'[q] = guess[q] \/ (pc[q] # c /\ pc'[q] # c)
    PROVE  /\ Cardinality(AtWith(c, n)) \in Nat /\ Cardinality(AtWith(c, n)') \in Nat
           /\ (pc[r] = c /\ guess[r] = n) <=> (next = c /\ guess[r] = n) =>
                 Cardinality(AtWith(c, n)') = Cardinality(AtWith(c, n))
           /\ pc[r] = c /\ guess[r] = n /\ next # c =>
                 Cardinality(AtWith(c, n)') = Cardinality(AtWith(c, n)) - 1
           /\ pc[r] # c /\ guess[r] = n /\ next = c =>
                 Cardinality(AtWith(c, n)') = Cardinality(AtWith(c, n)) + 1
<1> DEFINE before == AtWith(c, n)
<1>1. PICK after : after = AtWith(c, n)'
  OBVIOUS
<1>2. /\ r \in before <=> pc[r] = c /\ guess[r] = n
      /\ r \in after <=> next = c /\ guess[r] = n
      /\ \A q : q # r => (q \in before <=> q \in after)
  BY <1>1 DEF AtWith, GoTo, TypeOK
<1>3. IsFiniteSet(before)
  BY RequestsFinite DEF AtWith
<1> HIDE DEF before
<1> QED
  BY <1>1, <1>2, <1>3, CardMove DEF before

(* No step takes a use, a restart, a fault or an overlap back. *)
LEMMA HistoryGrows ==
    ASSUME TypeOK, [Next]_vars
    PROVE  /\ codes' \in 0..MaxCodes /\ codes <= codes'
           /\ \A n \in 1..MaxCodes : uses'[n] = 0 => uses[n] = 0
           /\ crashes <= crashes' /\ faults <= faults'
           /\ overlap => overlap'
<1>1. CASE IssueCode \/ Tick \/ Crash \/ UNCHANGED vars
  <2>1. UNCHANGED <<uses, faults, overlap>>
    BY <1>1 DEF IssueCode, Tick, Crash, vars
  <2>2. crashes' = crashes \/ crashes' = crashes + 1
    BY <1>1 DEF IssueCode, Tick, Crash, vars
  <2>3. codes' = codes \/ (codes < MaxCodes /\ codes' = codes + 1)
    BY <1>1 DEF IssueCode, Tick, Crash, vars
  <2>4. codes \in 0..MaxCodes /\ MaxCodes \in Nat /\ crashes \in Nat /\ faults \in Nat
    BY OtpAssumption DEF TypeOK
  <2> QED
    BY <2>1, <2>2, <2>3, <2>4
<1>2. ASSUME NEW r \in Requests, Accept(r)
      PROVE  /\ UNCHANGED <<codes, crashes, faults, overlap>>
             /\ \A n \in 1..MaxCodes : uses'[n] = 0 => uses[n] = 0
  BY <1>2, OtpAssumption DEF Accept, Count, TypeOK
<1>3. ASSUME NEW r \in Requests,
             Verify(r) \/ (Step(r) /\ ~Accept(r)) \/ CommandFails(r)
      PROVE  /\ UNCHANGED <<codes, uses, crashes>>
             /\ faults <= faults' /\ (overlap => overlap')
  BY <1>3 DEF Verify, Step, CheckAttempts, Lockout, GetCode, ReadTTL, Incr, Expire, AcceptFails,
              DeleteCode, Reset, CommandFails, TypeOK
<1>4. codes \in 0..MaxCodes /\ crashes \in Nat /\ faults \in Nat
  BY DEF TypeOK
<1> QED
  BY <1>1, <1>2, <1>3, <1>4 DEF Next

LEMMA PlacesInit == Init => PlacesInv
BY OtpAssumption DEF Init, PlacesInv

(* A request that goes on leaves the others in their places. *)
LEMMA PlacesFrame ==
    ASSUME TypeOK, PlacesInv, NEW r \in Requests, NEW next \in PC, GoTo(r, next),
           UNCHANGED <<codes, wrongs, uses, guess, overlap>>,
           faults' \in Nat, faults <= faults',
           codes = 0 => attempts' = 0 /\ next \in {"idle", "check", "get"},
           pc[r] # "idle",
           next \in {"accept", "del", "reset"} => guess[r] \in 1..codes,
           next \in {"del", "reset"} => uses[guess[r]] > 0,
           next = "reset" /\ faults' = 0 => otp' # 1,
           faults' = 0 /\ otp' = 1 => otp = 1
    PROVE  PlacesInv'
<1>1. pc' = [pc EXCEPT ![r] = next] /\ faults \in Nat
  BY DEF GoTo, TypeOK
<1>2. codes' = 0 =>
         attempts' = 0 /\ \A q \in Requests : pc'[q] \in {"idle", "check", "get"}
  BY <1>1 DEF PlacesInv, TypeOK
<1>3. \A n \in 1..MaxCodes : n > codes' => wrongs'[n] = 0 /\ uses'[n] = 0
  BY DEF PlacesInv
<1>4. ASSUME NEW q \in Requests
      PROVE  /\ pc'[q] \in {"accept", "del", "reset"} => guess'[q] \in 1..codes'
             /\ pc'[q] \in {"del", "reset"} => uses'[guess'[q]] > 0
             /\ pc'[q] = "reset" /\ faults' = 0 => otp' # 1
  BY <1>1 DEF PlacesInv, TypeOK
<1>5. ~overlap' => \A p, q \in Requests : pc'[p] # "idle" /\ pc'[q] # "idle" => p = q
  BY <1>1 DEF PlacesInv, TypeOK
<1> QED
  BY <1>2, <1>3, <1>4, <1>5 DEF PlacesInv

LEMMA PlacesStep == TypeOK /\ PlacesInv /\ [Next]_vars => PlacesInv'
<1> SUFFICES ASSUME TypeOK, PlacesInv, [Next]_vars PROVE PlacesInv'
  OBVIOUS
<1>1. CASE IssueCode
  BY <1>1 DEF IssueCode, PlacesInv, TypeOK
<1>2. ASSUME NEW r \in Requests, Verify(r) PROVE PlacesInv'
  <2>1. /\ pc[r] = "idle" /\ pc' = [pc EXCEPT ![r] = "check"]
        /\ \A q \in Requests \ {r} : guess'[q] = guess[q]
        /\ overlap' = (overlap \/ \E q \in Requests : pc[q] # "idle")
        /\ UNCHANGED <<otp, attempts, codes, faults, wrongs, uses>>
    BY <1>2 DEF Verify, GoTo, TypeOK
  <2> QED
    BY <2>1 DEF PlacesInv, TypeOK
<1>3. ASSUME NEW r \in Requests,
             \/ CheckAttempts(r) \/ Lockout(r) \/ ReadTTL(r) \/ Incr(r) \/ Expire(r)
             \/ AcceptFails(r) \/ DeleteCode(r) \/ Reset(r)
      PROVE  PlacesInv'
  <2>1. PICK next \in {"get", "lockout", "idle", "incr", "expire", "reset"} :
           /\ GoTo(r, next)
           /\ next = "lockout" => attempts > 0
           /\ next \in {"lockout", "get"} => pc[r] = "check" /\ attempts' = attempts
           /\ next = "reset" => pc[r] = "del" /\ otp' = NoCode
           /\ next \in {"incr", "expire"} => pc[r] \in {"ttl", "incr"}
    <3>1. CASE CheckAttempts(r)
      BY <3>1, OtpAssumption DEF CheckAttempts, AttemptsExceeded, TypeOK
    <3>2. CASE Lockout(r) \/ Expire(r) \/ AcceptFails(r) \/ Reset(r)
      BY <3>2 DEF Lockout, Expire, AcceptFails, Reset
    <3>3. CASE ReadTTL(r) \/ Incr(r) \/ DeleteCode(r)
      BY <3>3 DEF ReadTTL, Incr, DeleteCode
    <3> QED
      BY <1>3, <3>1, <3>2, <3>3
  <2>2. /\ pc[r] # "idle" /\ faults' = faults /\ faults \in Nat
        /\ otp' = otp \/ otp' = NoCode
        /\ UNCHANGED <<codes, guess, wrongs, uses, overlap>>
        /\ attempts' = attempts \/ attempts' = 0 \/ pc[r] = "incr"
    BY <1>3 DEF CheckAttempts, Lockout, ReadTTL, Incr, Expire, AcceptFails, DeleteCode, Reset,
                TypeOK
  <2>3. codes = 0 => attempts = 0 /\ pc[r] \in {"idle", "check", "get"}
    BY DEF PlacesInv
  <2>4. next = "reset" => guess[r] \in 1..codes /\ uses[guess[r]] > 0
    BY <2>1 DEF PlacesInv
  <2>5. codes = 0 => attempts' = 0 /\ next \in {"idle", "check", "get"}
    BY <2>1, <2>2, <2>3
  <2>6. /\ next = "reset" /\ faults' = 0 => otp' # 1
        /\ faults' = 0 /\ otp' = 1 => otp = 1
    BY <2>1, <2>2 DEF NoCode
  <2>7. next \in PC /\ next \notin {"accept", "del"} /\ faults' \in Nat /\ faults <= faults'
    BY <2>1, <2>2 DEF PC
  <2> QED
    BY <2>1, <2>2, <2>4, <2>5, <2>6, <2>7, PlacesFrame
<1>4. ASSUME NEW r \in Requests, GetCode(r) PROVE PlacesInv'
  <2>1. pc[r] = "get" /\ UNCHANGED <<otp, attempts, codes, guess, faults, uses, overlap>>
    BY <1>4 DEF GetCode
  <2>2. CASE UNCHANGED wrongs
    <3>1. PICK next \in {"idle", "accept", "ttl"} :
             GoTo(r, next) /\ (next # "idle" => otp # NoCode)
             /\ (next = "accept" => guess[r] = otp)
      BY <1>4 DEF GetCode
    <3>2. codes \in Nat /\ (otp # NoCode => otp \in 1..codes) /\ faults \in Nat
      BY DEF TypeOK, NoCode
    <3>3. next = "accept" => guess[r] \in 1..codes
      BY <3>1, <3>2
    <3>4. codes = 0 => attempts = 0 /\ next = "idle"
      BY <3>1, <3>2 DEF PlacesInv
    <3> QED
      BY <2>1, <2>2, <3>1, <3>2, <3>3, <3>4, PlacesFrame DEF PC
  <2>3. CASE otp # NoCode /\ GoTo(r, "ttl") /\ wrongs' = [wrongs EXCEPT ![otp] = Count(@)]
    <3>1. codes \in 1..MaxCodes /\ otp \in 1..codes
      BY <2>3 DEF TypeOK, NoCode
    <3>2. \A n \in 1..MaxCodes : n > codes => wrongs'[n] = wrongs[n]
      BY <2>3, <3>1 DEF TypeOK
    <3>3. pc' = [pc EXCEPT ![r] = "ttl"]
      BY <2>3 DEF GoTo
    <3> QED
      BY <2>1, <3>1, <3>2, <3>3 DEF PlacesInv, TypeOK
  <2> QED
    BY <1>4, <2>2, <2>3 DEF GetCode
<1>5. ASSUME NEW r \in Requests, Accept(r) PROVE PlacesInv'
  <2>1. /\ pc[r] = "accept" /\ pc' = [pc EXCEPT ![r] = "del"]
        /\ uses' = [uses EXCEPT ![guess[r]] = Count(@)]
        /\ UNCHANGED <<otp, attempts, codes, guess, faults, wrongs, overlap>>
    BY <1>5 DEF Accept, GoTo
  <2>2. guess[r] \in 1..codes /\ codes \in 1..MaxCodes
    BY <2>1 DEF PlacesInv, TypeOK
  <2>3. \A n \in 1..MaxCodes : uses[n] \in 0..Cap /\ Count(uses[n]) > 0
    BY OtpAssumption DEF TypeOK, Count
  <2>4. /\ uses'[guess[r]] > 0
        /\ \A n \in 1..MaxCodes : uses[n] > 0 => uses'[n] > 0
        /\ \A n \in 1..MaxCodes : n > codes => uses'[n] = uses[n]
    BY <2>1, <2>2, <2>3 DEF TypeOK
  <2>5. \A g : g \in 1..codes => g \in 1..MaxCodes
    BY <2>2, OtpAssumption
  <2> QED
    BY <2>1, <2>2, <2>4, <2>5 DEF PlacesInv, TypeOK
<1>6. ASSUME NEW r \in Requests, CommandFails(r) PROVE PlacesInv'
  <2>1. PICK next \in {"get", "incr", "expire", "idle", "reset"} :
           /\ GoTo(r, next)
           /\ next = "reset" => pc[r] = "del"
           /\ next \in {"incr", "expire"} => pc[r] \in {"ttl", "incr"}
    BY <1>6 DEF CommandFails, AfterFault
  <2>2. /\ pc[r] # "idle" /\ faults' = faults + 1 /\ faults \in Nat
        /\ UNCHANGED <<otp, attempts, codes, guess, wrongs, uses, overlap>>
    BY <1>6 DEF CommandFails, AfterFault, TypeOK
  <2> QED
    BY <2>1, <2>2, PlacesFrame DEF PlacesInv, PC
<1>7. CASE Tick
  <2>1. /\ UNCHANGED <<codes, pc, guess, faults, wrongs, uses, overlap>>
        /\ attempts' = 0 \/ attempts' = attempts
        /\ otp' = NoCode \/ otp' = otp
    BY <1>7 DEF Tick
  <2> QED
    BY <2>1 DEF PlacesInv, NoCode
<1>8. CASE Crash
  BY <1>8 DEF Crash, PlacesInv
<1>9. CASE UNCHANGED vars
  BY <1>9 DEF vars, PlacesInv
<1> QED
  BY <1>1, <1>2, <1>3, <1>4, <1>5, <1>6, <1>7, <1>8, <1>9 DEF Next, Step

-----------------------------------------------------------------------------
(* The first code *)

LEMMA LostGuessesType ==
    ASSUME TypeOK
    PROVE  LostGuesses \in Nat /\ Cardinality(Requests) \in Nat
<1>1. Cardinality(Requests) \in Nat /\ crashes \in Nat
  BY RequestsFinite DEF TypeOK
<1>2. \A a, b \in Nat : a * b \in Nat
  OBVIOUS
<1> QED
  BY <1>1, <1>2 DEF LostGuesses

LEMMA LostByRestart ==
    ASSUME TypeOK, crashes' = crashes + 1
    PROVE  LostGuesses' = LostGuesses + Cardinality(Requests)
<1>1. Cardinality(Requests) \in Nat /\ crashes \in Nat
  BY RequestsFinite DEF TypeOK
<1>2. \A a, b \in Nat : a * (b + 1) = a * b + a
  OBVIOUS
<1> QED
  BY <1>1, <1>2 DEF LostGuesses

LEMMA LanesMove ==
    ASSUME TypeOK, NEW r \in Requests, NEW next \in PC, GoTo(r, next)
    PROVE  /\ Underway \in Nat /\ Underway' \in Nat /\ Passed \in Nat /\ Passed' \in Nat
           /\ Underway' = Underway + (IF next \in {"ttl", "incr"} THEN 1 ELSE 0)
                                   - (IF pc[r] \in {"ttl", "incr"} THEN 1 ELSE 0)
           /\ Passed' = Passed + (IF next = "get" THEN 1 ELSE 0)
                               - (IF pc[r] = "get" THEN 1 ELSE 0)
<1>1. /\ Underway \in Nat /\ Underway' \in Nat
      /\ Underway' = Underway + (IF next \in {"ttl", "incr"} THEN 1 ELSE 0)
                              - (IF pc[r] \in {"ttl", "incr"} THEN 1 ELSE 0)
  <2> DEFINE C == {"ttl", "incr"}
  <2>1. /\ Underway = Cardinality(At(C)) /\ Underway' = Cardinality(At(C)')
    BY DEF Underway
  <2> HIDE DEF C
  <2>2. /\ Underway \in Nat /\ Underway' \in Nat
        /\ Underway' = Underway + (IF next \in C THEN 1 ELSE 0) - (IF pc[r] \in C THEN 1 ELSE 0)
    BY <2>1, AtMove
  <2> QED
    BY <2>2 DEF C
<1>2. /\ Passed \in Nat /\ Passed' \in Nat
      /\ Passed' = Passed + (IF next = "get" THEN 1 ELSE 0) - (IF pc[r] = "get" THEN 1 ELSE 0)
  <2> DEFINE C == {"get"}
  <2>1. /\ Passed = Cardinality(At(C)) /\ Passed' = Cardinality(At(C)')
    BY DEF Passed
  <2> HIDE DEF C
  <2>2. /\ Passed \in Nat /\ Passed' \in Nat
        /\ Passed' = Passed + (IF next \in C THEN 1 ELSE 0) - (IF pc[r] \in C THEN 1 ELSE 0)
    BY <2>1, AtMove
  <2> QED
    BY <2>2 DEF C
<1> QED
  BY <1>1, <1>2

LEMMA LanesRoom ==
    ASSUME TypeOK
    PROVE  /\ Underway \in Nat /\ Passed \in Nat
           /\ Underway + Passed <= Cardinality(Requests)
           /\ Underway' + Passed' <= Cardinality(Requests)
<1>1. At({"ttl", "incr"}) \subseteq Requests /\ At({"get"}) \subseteq Requests
      /\ At({"ttl", "incr"}) \cap At({"get"}) = {}
  BY DEF At
<1>2. PICK S, T : S = At({"ttl", "incr"})' /\ T = At({"get"})'
  OBVIOUS
<1>3. S \subseteq Requests /\ T \subseteq Requests /\ S \cap T = {}
  BY <1>2 DEF At
<1>4. Underway' = Cardinality(S) /\ Passed' = Cardinality(T)
  BY <1>2 DEF Underway, Passed
<1> QED
  BY <1>1, <1>3, <1>4, Apart, RequestsFinite DEF Underway, Passed

LEMMA AllowedType == Allowed \in Nat
BY RequestsFinite, OtpAssumption DEF Allowed

LEMMA FirstInit == Init => FirstInv
<1> SUFFICES ASSUME Init PROVE FirstInv
  OBVIOUS
<1>1. TypeOK /\ otp = 0 /\ faults = 0 /\ wrongs[1] = 0
  BY Start, OtpAssumption DEF Init, Inv, NoCode
<1>2. LostGuesses \in Nat /\ Allowed \in Nat
  BY <1>1, LostGuessesType, AllowedType
<1> QED
  BY <1>1, <1>2 DEF FirstInv, FirstLasts, FirstCounted, FirstBounded

LEMMA FirstLastsStep ==
    TypeOK /\ PlacesInv /\ FirstLasts /\ [Next]_vars => FirstLasts'
<1> SUFFICES ASSUME TypeOK, PlacesInv, FirstLasts, [Next]_vars, otp' = 1
             PROVE  /\ attempts' > 0 => NearlyOutlives'
                    /\ \A r \in Requests : pc'[r] \in {"incr", "expire"} => ttl'[r] + Half >= otpTTL'
  BY DEF FirstLasts
<1>0. /\ otpTTL \in Nat /\ attempts \in Nat /\ attemptsTTL \in Int /\ otp \in Nat /\ codes \in Nat
      /\ Half \in Nat
  BY OtpAssumption, HalfType DEF TypeOK, Forever
<1>1. CASE IssueCode
  <2>1. codes = 0 /\ UNCHANGED <<attempts, pc>>
    BY <1>0, <1>1 DEF IssueCode
  <2> QED
    BY <2>1 DEF PlacesInv
<1>2. ASSUME NEW r \in Requests,
             \/ Verify(r) \/ CheckAttempts(r) \/ Lockout(r) \/ GetCode(r) \/ Accept(r)
             \/ AcceptFails(r) \/ DeleteCode(r)
      PROVE  FirstLasts'
  <2>1. UNCHANGED <<otp, otpTTL, attempts, attemptsTTL, ttl>>
    BY <1>2 DEF Verify, CheckAttempts, Lockout, GetCode, Accept, AcceptFails, DeleteCode, NoCode
  <2>2. PICK next : GoTo(r, next) /\ next \notin {"incr", "expire"}
    BY <1>2 DEF Verify, CheckAttempts, Lockout, GetCode, Accept, AcceptFails, DeleteCode
  <2>3. \A q \in Requests : pc'[q] \in {"incr", "expire"} => pc[q] = pc'[q]
    BY <2>2 DEF GoTo, TypeOK
  <2> QED
    BY <2>1, <2>3 DEF FirstLasts, NearlyOutlives
<1>3. ASSUME NEW r \in Requests, ReadTTL(r) PROVE FirstLasts'
  <2>1. /\ UNCHANGED <<otp, otpTTL, attempts, attemptsTTL>>
        /\ ttl' = [ttl EXCEPT ![r] = RemainingTTL] /\ pc' = [pc EXCEPT ![r] = "incr"]
    BY <1>3 DEF ReadTTL, GoTo
  <2>2. \A q \in Requests \ {r} : ttl'[q] = ttl[q] /\ pc'[q] = pc[q]
    BY <2>1 DEF TypeOK
  <2>3. ttl'[r] = RemainingTTL
    BY <2>1 DEF TypeOK
  <2>4. ttl'[r] + Half >= otpTTL
    BY <2>3, RemainingType
  <2> QED
    BY <1>0, <2>1, <2>2, <2>4 DEF FirstLasts, NearlyOutlives
<1>4. ASSUME NEW r \in Requests, Incr(r) PROVE FirstLasts'
  <2>1. /\ UNCHANGED <<otp, otpTTL, ttl>> /\ pc[r] = "incr" /\ pc' = [pc EXCEPT ![r] = "expire"]
        /\ attemptsTTL' = IF attempts = 0 THEN Forever ELSE attemptsTTL
    BY <1>4 DEF Incr, GoTo
  <2>2. \A q \in Requests : pc'[q] \in {"incr", "expire"} => pc[q] \in {"incr", "expire"}
    BY <2>1 DEF TypeOK
  <2> QED
    BY <1>0, <2>1, <2>2 DEF FirstLasts, NearlyOutlives
<1>5. ASSUME NEW r \in Requests, Expire(r) PROVE FirstLasts'
  <2>1. /\ UNCHANGED <<otp, otpTTL, ttl, attempts>> /\ pc[r] = "expire"
        /\ pc' = [pc EXCEPT ![r] = "idle"]
        /\ attemptsTTL' = IF attempts > 0 THEN ttl[r] ELSE 0
    BY <1>5 DEF Expire, GoTo
  <2>2. \A q \in Requests : pc'[q] \in {"incr", "expire"} => pc[q] \in {"incr", "expire"}
    BY <2>1 DEF TypeOK
  <2>3. ttl[r] + Half >= otpTTL
    BY <2>1 DEF FirstLasts
  <2> QED
    BY <2>1, <2>2, <2>3 DEF FirstLasts, NearlyOutlives
<1>6. ASSUME NEW r \in Requests, Reset(r) PROVE FirstLasts'
  <2>1. /\ UNCHANGED <<otp, otpTTL, ttl>> /\ attempts' = 0 /\ pc' = [pc EXCEPT ![r] = "idle"]
    BY <1>6 DEF Reset, GoTo
  <2>2. \A q \in Requests : pc'[q] \in {"incr", "expire"} => pc[q] \in {"incr", "expire"}
    BY <2>1 DEF TypeOK
  <2> QED
    BY <2>1, <2>2 DEF FirstLasts
<1>7. ASSUME NEW r \in Requests, CommandFails(r) PROVE FirstLasts'
  <2>1. /\ UNCHANGED <<otp, otpTTL, attempts, attemptsTTL>>
        /\ ttl' = IF pc[r] = "ttl" THEN [ttl EXCEPT ![r] = Lifetime] ELSE ttl
    BY <1>7 DEF CommandFails
  <2>2. PICK next : /\ pc' = [pc EXCEPT ![r] = next]
                    /\ next \in {"incr", "expire"} => pc[r] \in {"ttl", "incr"}
    BY <1>7 DEF CommandFails, AfterFault, GoTo
  <2>3. \A q \in Requests \ {r} : pc'[q] = pc[q] /\ ttl'[q] = ttl[q]
    BY <2>1, <2>2 DEF TypeOK
  <2>4. Lifetime + Half >= otpTTL
    BY <1>0, OtpAssumption DEF TypeOK
  <2>5. pc'[r] \in {"incr", "expire"} => ttl'[r] + Half >= otpTTL
    BY <2>1, <2>2, <2>4 DEF FirstLasts, TypeOK
  <2> QED
    BY <2>1, <2>3, <2>5 DEF FirstLasts, NearlyOutlives
<1>8. CASE Tick
  <2>1. /\ UNCHANGED <<pc, ttl>> /\ otp = 1 /\ otpTTL' > 0 /\ otpTTL' = otpTTL - 1
        /\ attemptsTTL' = Elapsed(attemptsTTL)
        /\ attempts' > 0 => attempts > 0
    BY <1>0, <1>8 DEF Tick, Elapsed, NoCode, TypeOK
  <2>2. attempts' > 0 => NearlyOutlives'
    <3>1. attempts' > 0 => attemptsTTL' # 0
      BY <1>8 DEF Tick
    <3> QED
      BY <1>0, <2>1, <3>1 DEF FirstLasts, NearlyOutlives, Elapsed, Forever
  <2>3. \A q \in Requests : pc'[q] \in {"incr", "expire"} => ttl'[q] + Half >= otpTTL'
    <3>1. \A q \in Requests : ttl[q] \in Int
      BY OtpAssumption DEF TypeOK
    <3> QED
      BY <1>0, <2>1, <3>1 DEF FirstLasts
  <2> QED
    BY <2>2, <2>3
<1>9. CASE Crash \/ UNCHANGED vars
  <2>1. UNCHANGED <<otp, otpTTL, attempts, attemptsTTL, ttl>>
        /\ \A q \in Requests : pc'[q] = "idle" \/ pc'[q] = pc[q]
    BY <1>9 DEF Crash, vars
  <2> QED
    BY <2>1 DEF FirstLasts, NearlyOutlives
<1> QED
  BY <1>1, <1>2, <1>3, <1>4, <1>5, <1>6, <1>7, <1>8, <1>9 DEF Next, Step, FirstLasts

(* In the last half second of a code a counter that is begun outlives it. *)
LEMMA ClosingStep ==
    ASSUME TypeOK, TtlsInv, NEW r \in Requests,
           Verify(r) \/ Step(r) \/ CommandFails(r), otp' # NoCode, Closing
    PROVE  Closing' /\ otpTTL' = otpTTL
<1>0. otpTTL \in 0..Lifetime /\ Half \in Nat /\ attempts \in Nat /\ ttl[r] \in 1..Lifetime
      /\ Lifetime \in Nat
  BY HalfType, LifetimeType DEF TypeOK
<1>1. CASE Incr(r)
  BY <1>0, <1>1 DEF Incr, Closing, Outlives
<1>2. CASE Expire(r)
  <2>1. ttl[r] > Half
    BY DEF TtlsInv
  <2>2. attempts' > 0 => attemptsTTL' >= otpTTL
    BY <1>0, <1>2, <2>1 DEF Expire, Closing
  <2> QED
    BY <1>2, <2>2 DEF Expire, Closing, Outlives
<1>3. CASE Reset(r)
  BY <1>3 DEF Reset, Closing
<1>4. CASE UNCHANGED <<otpTTL, attempts, attemptsTTL>>
  BY <1>4 DEF Closing, Outlives
<1> QED
  BY <1>1, <1>2, <1>3, <1>4
     DEF Verify, Step, CommandFails, CheckAttempts, Lockout, GetCode, ReadTTL, Accept, AcceptFails,
         DeleteCode

LEMMA FirstCountedStep ==
    TypeOK /\ TtlsInv /\ PlacesInv /\ FirstInv /\ [Next]_vars => FirstCounted' /\ FirstBounded'
<1> SUFFICES ASSUME TypeOK, TtlsInv, PlacesInv, FirstInv, [Next]_vars
             PROVE  FirstCounted' /\ FirstBounded'
  OBVIOUS
<1> DEFINE N == Cardinality(Requests)
           A == Allowed
           Undisturbed == Quiet \/ (crashes = 0 /\ faults = 0)
<1>0. /\ otp \in Nat /\ codes \in 0..MaxCodes /\ attempts \in Nat /\ faults \in Nat
      /\ crashes \in Nat /\ otpTTL \in Nat
      /\ wrongs[1] \in Nat /\ 1 \in 1..MaxCodes
      /\ N \in Nat /\ LostGuesses \in Nat /\ Underway \in Nat /\ Passed \in Nat
      /\ Underway + Passed <= N /\ Underway' + Passed' <= N
      /\ MaxAttempts \in Nat \ {0} /\ A \in Nat /\ A = MaxAttempts + N - 1 /\ Half \in Nat
  <2>1. 1 \in 1..MaxCodes /\ MaxAttempts \in Nat \ {0} /\ Cap \in Nat /\ Half \in Nat
    BY OtpAssumption, HalfType
  <2>2. /\ otp \in Nat /\ codes \in 0..MaxCodes /\ attempts \in Nat /\ faults \in Nat
        /\ crashes \in Nat /\ otpTTL \in Nat
    BY DEF TypeOK
  <2>3. wrongs[1] \in Nat
    BY <2>1 DEF TypeOK
  <2>4. N \in Nat /\ LostGuesses \in Nat
    BY LostGuessesType
  <2>5. /\ Underway \in Nat /\ Passed \in Nat
        /\ Underway + Passed <= N /\ Underway' + Passed' <= N
    BY LanesRoom
  <2>6. A \in Nat /\ A = MaxAttempts + N - 1
    BY AllowedType DEF Allowed
  <2> QED
    BY <2>1, <2>2, <2>3, <2>4, <2>5, <2>6
<1>a. /\ Quiet' => Quiet
      /\ Undisturbed' => Undisturbed
  BY HistoryGrows DEF TypeOK, Quiet
<1>b. /\ otp = 1 /\ otpTTL > Half /\ Undisturbed =>
            wrongs[1] <= attempts + Underway + LostGuesses + faults
      /\ Quiet => wrongs[1] <= 2 * A + LostGuesses + faults
  BY DEF FirstInv, FirstCounted, FirstBounded
<1>d. PICK base \in {0, A} :
         Quiet /\ otp = 1 =>
            /\ wrongs[1] <= base + attempts + Underway + LostGuesses + faults
            /\ wrongs[1] + Passed <= base + A + LostGuesses + faults
            /\ base # 0 => Closing
  <2>1. Quiet /\ otp = 1 => \E base \in {0, A} : Counted(base)
    BY DEF FirstInv, FirstBounded
  <2> QED
    BY <2>1 DEF Counted
<1>c. ASSUME NEW next_base \in {0, A},
             /\ otp' = 1 /\ otpTTL' > Half /\ Undisturbed' =>
                    wrongs'[1] <= attempts' + Underway' + LostGuesses' + faults'
             /\ Quiet' => wrongs'[1] <= 2 * A + LostGuesses' + faults'
             /\ Quiet' /\ otp' = 1 =>
                    /\ wrongs'[1] <= next_base + attempts' + Underway' + LostGuesses' + faults'
                    /\ wrongs'[1] + Passed' <= next_base + A + LostGuesses' + faults'
                    /\ next_base # 0 => Closing'
      PROVE  FirstCounted' /\ FirstBounded'
  <2>1. FirstCounted'
    BY <1>c DEF FirstCounted
  <2>2. Quiet' /\ otp' = 1 => Counted(next_base)'
    BY <1>c DEF Counted, Allowed
  <2>3. Quiet' /\ otp' = 1 => Counted(0)' \/ Counted(Allowed)'
    <3>1. CASE next_base = 0
      BY <1>c, <3>1 DEF Counted, Allowed
    <3>2. CASE next_base = A
      BY <1>c, <3>2 DEF Counted, Allowed
    <3> QED
      BY <1>c, <3>1, <3>2
  <2> QED
    BY <1>c, <2>1, <2>3 DEF FirstBounded, Allowed
<1> HIDE DEF N, A, Undisturbed
<1>1. CASE IssueCode
  <2>1. /\ UNCHANGED <<attempts, pc, wrongs, faults, crashes>> /\ codes' = codes + 1
        /\ otp' = codes'
    BY <1>1 DEF IssueCode
  <2>2. LostGuesses' = LostGuesses /\ Underway' = Underway /\ Passed' = Passed
    BY <2>1 DEF LostGuesses, Underway, Passed, At
  <2>3. otp' = 1 => wrongs[1] = 0
    BY <1>0, <2>1 DEF PlacesInv
  <2>4. Passed <= A
    BY <1>0
  <2> QED
    BY <1>0, <1>a, <1>b, <1>c, <2>1, <2>2, <2>3, <2>4
<1>2. ASSUME NEW r \in Requests, NEW next \in PC, GoTo(r, next), UNCHANGED crashes,
             Verify(r) \/ Step(r) \/ CommandFails(r),
             otp' = 1 => otp = 1 /\ otpTTL' = otpTTL, faults' \in Nat, faults <= faults',
             wrongs'[1] = wrongs[1],
             attempts' = attempts
             \/ (otp' = 1 /\ Undisturbed' => FALSE)
             \/ (attempts' = attempts + 1 /\ pc[r] = "incr"),
             pc[r] \in {"ttl", "incr"} =>
                \/ next \in {"ttl", "incr"} \/ faults < faults'
                \/ attempts' = attempts + 1,
             next = "get" =>
                \/ faults < faults'
                \/ pc[r] = "check" /\ attempts < MaxAttempts /\ attempts' = attempts
      PROVE  FirstCounted' /\ FirstBounded'
  <2>1. LostGuesses' = LostGuesses
    BY <1>2 DEF LostGuesses
  <2>2. /\ Underway \in Nat /\ Underway' \in Nat /\ Passed \in Nat /\ Passed' \in Nat
        /\ Underway' = Underway + (IF next \in {"ttl", "incr"} THEN 1 ELSE 0)
                                - (IF pc[r] \in {"ttl", "incr"} THEN 1 ELSE 0)
        /\ Passed' = Passed + (IF next = "get" THEN 1 ELSE 0)
                            - (IF pc[r] = "get" THEN 1 ELSE 0)
    BY <1>2, LanesMove
  <2>3. otp' = 1 /\ otpTTL' > Half /\ Undisturbed' =>
           wrongs'[1] <= attempts' + Underway' + LostGuesses' + faults'
    BY <1>0, <1>2, <1>a, <1>b, <2>1, <2>2
  <2>4. Quiet' => wrongs'[1] <= 2 * A + LostGuesses' + faults'
    BY <1>0, <1>2, <1>a, <1>b, <2>1
  <2>5. Quiet' /\ otp' = 1 =>
           /\ wrongs'[1] <= base + attempts' + Underway' + LostGuesses' + faults'
           /\ wrongs'[1] + Passed' <= base + A + LostGuesses' + faults'
           /\ base # 0 => Closing'
    <3> SUFFICES ASSUME Quiet', otp' = 1
                 PROVE  /\ wrongs[1] <= base + attempts' + Underway' + LostGuesses + faults'
                        /\ wrongs[1] + Passed' <= base + A + LostGuesses + faults'
                        /\ base # 0 => Closing'
      BY <1>2, <2>1
    <3>1. /\ wrongs[1] <= base + attempts + Underway + LostGuesses + faults
          /\ wrongs[1] + Passed <= base + A + LostGuesses + faults
          /\ base # 0 => Closing
      BY <1>2, <1>a, <1>d
    <3>2. base # 0 => Closing'
      BY <1>2, <3>1, ClosingStep DEF NoCode
    <3>3. base \in Nat
      BY <1>0
    <3>4. Undisturbed'
      BY DEF Undisturbed
    <3>5. wrongs[1] <= base + attempts' + Underway' + LostGuesses + faults'
      BY <1>0, <1>2, <2>2, <3>1, <3>3, <3>4
    <3>6. CASE next # "get"
      BY <1>0, <1>2, <2>2, <3>1, <3>2, <3>3, <3>5, <3>6
    <3>7. CASE next = "get" /\ faults < faults'
      BY <1>0, <1>2, <2>2, <3>1, <3>2, <3>3, <3>5, <3>7
    <3>8. CASE next = "get" /\ pc[r] = "check" /\ attempts < MaxAttempts
      <4>1. Passed' = Passed + 1 /\ Underway + Passed' <= N
        BY <1>0, <2>2, <3>8
      <4>2. wrongs[1] + Passed' <= base + A + LostGuesses + faults
        BY <1>0, <2>2, <3>1, <3>3, <3>8, <4>1
      <4> QED
        BY <1>0, <1>2, <2>2, <3>2, <3>3, <3>5, <4>2
    <3> QED
      BY <1>2, <3>6, <3>7, <3>8
  <2> QED
    BY <1>c, <2>3, <2>4, <2>5
<1>3. ASSUME NEW r \in Requests,
             \/ Verify(r) \/ CheckAttempts(r) \/ Lockout(r) \/ ReadTTL(r) \/ Incr(r)
             \/ Expire(r) \/ Accept(r) \/ AcceptFails(r) \/ DeleteCode(r) \/ Reset(r)
      PROVE  FirstCounted' /\ FirstBounded'
  <2>1. /\ UNCHANGED <<crashes, faults, wrongs>>
        /\ (otp' = otp /\ otpTTL' = otpTTL) \/ otp' = NoCode
        /\ Verify(r) \/ Step(r)
    BY <1>3 DEF Verify, CheckAttempts, Lockout, ReadTTL, Incr, Expire, Accept, AcceptFails,
                DeleteCode, Reset, Step
  <2>2. PICK next \in PC :
           /\ GoTo(r, next)
           /\ pc[r] \in {"ttl", "incr"} => next = "incr" \/ attempts' = attempts + 1
           /\ next = "get" =>
                 pc[r] = "check" /\ attempts < MaxAttempts /\ attempts' = attempts
    <3>1. CASE CheckAttempts(r)
      BY <3>1, <1>0 DEF CheckAttempts, AttemptsExceeded, PC
    <3>2. CASE Verify(r) \/ Lockout(r) \/ Accept(r) \/ AcceptFails(r) \/ DeleteCode(r) \/ Reset(r)
      BY <3>2 DEF Verify, Lockout, Accept, AcceptFails, DeleteCode, Reset, PC
    <3>3. CASE ReadTTL(r) \/ Incr(r) \/ Expire(r)
      BY <3>3 DEF ReadTTL, Incr, Expire, PC
    <3> QED
      BY <1>3, <3>1, <3>2, <3>3
  <2>3. \/ attempts' = attempts
        \/ attempts' = attempts + 1 /\ pc[r] = "incr"
        \/ pc[r] = "reset" /\ otp' = otp
    BY <1>3 DEF Verify, CheckAttempts, Lockout, ReadTTL, Incr, Expire, Accept, AcceptFails,
                DeleteCode, Reset
  <2>4. pc[r] = "reset" /\ otp' = otp /\ otp' = 1 /\ Undisturbed' => FALSE
    <3>1. pc[r] = "reset" => guess[r] \in 1..codes /\ uses[guess[r]] > 0 /\ (faults = 0 => otp # 1)
      BY DEF PlacesInv
    <3>2. pc[r] = "reset" => ~Quiet
      <4>1. \A g : g \in 1..codes => g \in 1..MaxCodes
        BY <1>0, OtpAssumption
      <4> QED
        BY <3>1, <4>1 DEF Quiet
    <3> QED
      BY <1>a, <3>1, <3>2 DEF Undisturbed
  <2> QED
    BY <1>0, <1>2, <2>1, <2>2, <2>3, <2>4 DEF NoCode
<1>4. ASSUME NEW r \in Requests, GetCode(r) PROVE FirstCounted' /\ FirstBounded'
  <2>1. pc[r] = "get" /\ UNCHANGED <<otp, otpTTL, attempts, attemptsTTL, faults, crashes>>
        /\ Step(r)
    BY <1>4 DEF GetCode, Step
  <2>2. CASE UNCHANGED wrongs \/ otp # 1
    <3>1. PICK next \in PC : GoTo(r, next) /\ next # "get"
      BY <1>4 DEF GetCode, PC
    <3>2. wrongs'[1] = wrongs[1]
      <4>1. CASE UNCHANGED wrongs
        BY <4>1
      <4>2. CASE otp # 1
        BY <1>0, <1>4, <4>2 DEF GetCode, TypeOK
      <4> QED
        BY <2>2, <4>1, <4>2
    <3> QED
      BY <1>0, <1>2, <2>1, <3>1, <3>2
  <2>3. CASE otp = 1 /\ GoTo(r, "ttl") /\ wrongs' = [wrongs EXCEPT ![otp] = Count(@)]
    <3>1. wrongs'[1] \in Nat /\ wrongs'[1] <= wrongs[1] + 1
      BY <1>0, <2>3, OtpAssumption DEF Count, TypeOK
    <3>2. /\ Underway' = Underway + 1 /\ Passed' = Passed - 1
          /\ Passed \in Nat /\ Passed' \in Nat
      BY <1>0, <2>1, <2>3, LanesMove DEF PC
    <3>3. LostGuesses' = LostGuesses /\ (Closing' <=> Closing)
      BY <2>1 DEF LostGuesses, Closing, Outlives
    <3>4. otp' = 1 /\ otpTTL' > Half /\ Undisturbed' =>
             wrongs'[1] <= attempts' + Underway' + LostGuesses' + faults'
      BY <1>0, <1>a, <1>b, <2>1, <2>3, <3>1, <3>2, <3>3
    <3>5. base \in Nat /\ base <= A
      BY <1>0
    <3>6. Quiet' =>
           /\ wrongs'[1] <= base + attempts' + Underway' + LostGuesses' + faults'
           /\ wrongs'[1] + Passed' <= base + A + LostGuesses' + faults'
           /\ base # 0 => Closing'
      BY <1>0, <1>a, <1>d, <2>1, <2>3, <3>1, <3>2, <3>3, <3>5
    <3>7. Quiet' => wrongs'[1] <= 2 * A + LostGuesses' + faults'
      BY <1>0, <2>1, <3>1, <3>2, <3>3, <3>5, <3>6
    <3> QED
      BY <1>c, <3>4, <3>6, <3>7
  <2> QED
    BY <1>4, <2>2, <2>3 DEF GetCode
<1>5. ASSUME NEW r \in Requests, CommandFails(r) PROVE FirstCounted' /\ FirstBounded'
  <2>1. /\ UNCHANGED <<otp, otpTTL, attempts, crashes, wrongs>> /\ faults' = faults + 1
    BY <1>5 DEF CommandFails
  <2>2. PICK next \in PC : GoTo(r, next)
    BY <1>5 DEF CommandFails, AfterFault, PC
  <2> QED
    BY <1>0, <1>2, <1>5, <2>1, <2>2
<1>6. CASE Tick
  <2>1. UNCHANGED <<codes, pc, wrongs, crashes, faults>>
    BY <1>6 DEF Tick
  <2>2. LostGuesses' = LostGuesses /\ Underway' = Underway /\ Passed' = Passed
    BY <2>1 DEF LostGuesses, Underway, Passed, At
  <2>3. Quiet' => wrongs'[1] <= 2 * A + LostGuesses' + faults'
    BY <1>a, <1>b, <2>1, <2>2
  <2>4. CASE otp' # 1
    BY <1>c, <2>3, <2>4
  <2>5. CASE otp' = 1
    <3>1. otp = 1 /\ otpTTL' = otpTTL - 1 /\ otpTTL' > 0
      BY <1>0, <1>6, <2>5 DEF Tick, NoCode, Elapsed
    <3>2. /\ attemptsTTL \in {Forever} \cup (0..Lifetime) /\ (attempts > 0 <=> attemptsTTL # 0)
          /\ attemptsTTL' = Elapsed(attemptsTTL)
          /\ attempts' = IF attemptsTTL' = 0 THEN 0 ELSE attempts
          /\ Lifetime \in Nat
      BY <1>6, LifetimeType DEF Tick, TypeOK
    <3>3. attempts > 0 => NearlyOutlives
      BY <3>1 DEF FirstInv, FirstLasts
    <3>4. CASE attempts' = attempts
      <4>1. Closing => Closing'
        BY <1>0, <3>1, <3>2, <3>4 DEF Closing, Outlives, Elapsed, Forever
      <4> QED
        BY <1>0, <1>a, <1>b, <1>c, <1>d, <2>1, <2>2, <2>3, <3>1, <3>4, <4>1
    <3>5. CASE attempts' = 0 /\ attempts > 0
      <4>1. attemptsTTL = 1
        BY <3>2, <3>5 DEF Elapsed, Forever
      <4>2. otpTTL' <= Half
        BY <1>0, <3>1, <3>3, <3>5, <4>1 DEF NearlyOutlives, Forever
      <4>3. Closing'
        BY <3>5, <4>2 DEF Closing
      <4>4. ~Closing
        BY <1>0, <3>1, <3>5, <4>1 DEF Closing, Outlives, Forever
      <4>5. Quiet' => wrongs[1] + Passed <= A + LostGuesses + faults
        BY <1>0, <1>a, <1>d, <3>1, <4>4
      <4>6. Quiet' =>
              /\ wrongs'[1] <= A + attempts' + Underway' + LostGuesses' + faults'
              /\ wrongs'[1] + Passed' <= A + A + LostGuesses' + faults'
        BY <1>0, <2>1, <2>2, <3>5, <4>5
      <4>7. ~(otpTTL' > Half)
        BY <1>0, <3>1, <4>2
      <4> QED
        BY <1>c, <2>3, <4>3, <4>6, <4>7
    <3> QED
      BY <1>0, <3>2, <3>4, <3>5
  <2> QED
    BY <2>4, <2>5
<1>7. CASE Crash
  <2>1. /\ crashes' = crashes + 1 /\ UNCHANGED <<otp, otpTTL, attempts, attemptsTTL, faults, wrongs>>
        /\ \A q \in Requests : pc'[q] = "idle"
    BY <1>7 DEF Crash
  <2>2. LostGuesses' = LostGuesses + N
    BY <2>1, LostByRestart DEF N
  <2>3. Underway' = 0 /\ Passed' = 0
    <3>1. At({"ttl", "incr"})' = {} /\ At({"get"})' = {}
      BY <2>1 DEF At
    <3> QED
      BY <3>1, FS_EmptySet DEF Underway, Passed
  <2>4. Closing' <=> Closing
    BY <2>1 DEF Closing, Outlives
  <2>5. base \in Nat
    BY <1>0
  <2> QED
    BY <1>0, <1>a, <1>b, <1>c, <1>d, <2>1, <2>2, <2>3, <2>4, <2>5
<1>8. CASE UNCHANGED vars
  <2>1. /\ UNCHANGED <<otp, otpTTL, attempts, attemptsTTL, faults, wrongs>>
        /\ LostGuesses' = LostGuesses /\ Underway' = Underway /\ Passed' = Passed
    BY <1>8 DEF vars, LostGuesses, Underway, Passed, At
  <2>2. Closing' <=> Closing
    BY <2>1 DEF Closing, Outlives
  <2> QED
    BY <1>a, <1>b, <1>c, <1>d, <2>1, <2>2
<1> QED
  BY <1>1, <1>3, <1>4, <1>5, <1>6, <1>7, <1>8 DEF Next, Step

-----------------------------------------------------------------------------
(* A later code *)

(* When the others are idle, a command is busy when r is at it. *)
LEMMA BusyMove ==
    ASSUME TypeOK, NEW r \in Requests, NEW next \in PC, GoTo(r, next),
           \A q \in Requests : q # r => pc[q] = "idle"
    PROVE  /\ Busy({"ttl", "incr"}) = IF pc[r] \in {"ttl", "incr"} THEN 1 ELSE 0
           /\ Busy({"ttl", "incr", "expire"}) =
                 IF pc[r] \in {"ttl", "incr", "expire"} THEN 1 ELSE 0
           /\ Busy({"get"}) = IF pc[r] = "get" THEN 1 ELSE 0
           /\ Busy({"ttl", "incr"})' = IF next \in {"ttl", "incr"} THEN 1 ELSE 0
           /\ Busy({"ttl", "incr", "expire"})' =
                 IF next \in {"ttl", "incr", "expire"} THEN 1 ELSE 0
           /\ Busy({"get"})' = IF next = "get" THEN 1 ELSE 0
<1>1. /\ pc'[r] = next
      /\ \A q \in Requests : q # r => pc'[q] = "idle"
  BY DEF GoTo, TypeOK
<1> QED
  BY <1>1 DEF Busy

LEMMA BusyBit ==
    ASSUME NEW C
    PROVE  Busy(C) \in {0, 1} /\ Busy(C)' \in {0, 1}
BY DEF Busy

(* What a request that is alone has to see to, when no guess is compared. *)
LEMMA LaterFrame ==
    ASSUME TypeOK, LaterInv, ~overlap, NEW r \in Requests, NEW next \in PC, GoTo(r, next),
           \A q \in Requests : q # r => pc[q] = "idle",
           UNCHANGED <<wrongs, crashes>>, faults' \in Nat, faults <= faults', Quiet' => Quiet,
           otp' # NoCode => otp' = otp /\ otpTTL' = otpTTL,
           otp' # NoCode /\ next \in {"incr", "expire"} =>
              ttl'[r] + Half >= otpTTL \/ wrongs[otp] = 0,
           NEW base \in {0, MaxAttempts},
           otp' # NoCode /\ Quiet' =>
              /\ attempts' = 0 =>
                    wrongs[otp] <= base + 1 + (IF next \in {"ttl", "incr"} THEN 1 ELSE 0)
                                     + crashes + faults'
              /\ attempts' > 0 /\ ~NearlyOutlives' =>
                    wrongs[otp] <= base + (IF next \in {"ttl", "incr", "expire"} THEN 1 ELSE 0)
                                     + crashes + faults'
              /\ attempts' > 0 /\ NearlyOutlives' =>
                    wrongs[otp] <= base + attempts' + 1
                                     + (IF next \in {"ttl", "incr"} THEN 1 ELSE 0)
                                     + crashes + faults'
              /\ wrongs[otp] + (IF next = "get" THEN 1 ELSE 0)
                    <= base + MaxAttempts + 1 + crashes + faults'
              /\ base # 0 => Closing'
    PROVE  LaterInv'
<1>1. /\ pc'[r] = next
      /\ \A q \in Requests : q # r => pc'[q] = "idle"
  BY DEF GoTo, TypeOK
<1>2. otp' # NoCode =>
         \A q \in Requests :
            pc'[q] \in {"incr", "expire"} => ttl'[q] + Half >= otpTTL' \/ wrongs'[otp'] = 0
  BY <1>1
<1>3. /\ \A n \in 1..MaxCodes : wrongs[n] \in Nat
      /\ MaxAttempts \in Nat /\ crashes \in Nat /\ faults \in Nat
  BY OtpAssumption DEF TypeOK
<1>4. Quiet' => \A n \in 1..MaxCodes : wrongs'[n] <= 2 * MaxAttempts + 1 + crashes' + faults'
  BY <1>3 DEF LaterInv
<1>5. Quiet' /\ otp' # NoCode =>
              /\ attempts' = 0 =>
                    wrongs'[otp'] <= base + 1 + Busy({"ttl", "incr"})' + crashes' + faults'
              /\ attempts' > 0 /\ ~NearlyOutlives' =>
                    wrongs'[otp'] <= base + Busy({"ttl", "incr", "expire"})' + crashes' + faults'
              /\ attempts' > 0 /\ NearlyOutlives' =>
                    wrongs'[otp'] <= base + attempts' + 1 + Busy({"ttl", "incr"})'
                                       + crashes' + faults'
              /\ wrongs'[otp'] + Busy({"get"})' <= base + MaxAttempts + 1 + crashes' + faults'
              /\ base # 0 => Closing'
  BY BusyMove
<1>6. Quiet' /\ otp' # NoCode => CountedLater(0)' \/ CountedLater(MaxAttempts)'
  <2>1. CASE base = 0
    BY <1>5, <2>1 DEF CountedLater
  <2>2. CASE base = MaxAttempts
    BY <1>5, <2>2 DEF CountedLater
  <2> QED
    BY <2>1, <2>2
<1> QED
  BY <1>2, <1>4, <1>6 DEF LaterInv

(* A verification alone: what its next step finds. *)
LEMMA Alone ==
    ASSUME TypeOK, PlacesInv, NEW r \in Requests, ~overlap', [Next]_vars,
           Verify(r) \/ Step(r) \/ CommandFails(r)
    PROVE  ~overlap /\ \A q \in Requests : q # r => pc[q] = "idle"
<1>1. ~overlap
  BY HistoryGrows
<1>2. CASE Verify(r)
  BY <1>1, <1>2 DEF Verify, TypeOK
<1>3. CASE pc[r] # "idle"
  BY <1>1, <1>3 DEF PlacesInv
<1>4. Step(r) \/ CommandFails(r) => pc[r] # "idle"
  BY DEF Step, CommandFails, CheckAttempts, Lockout, GetCode, ReadTTL, Incr, Expire, Accept,
         AcceptFails, DeleteCode, Reset, AfterFault
<1> QED
  BY <1>2, <1>3, <1>4

LEMMA LaterInit == Init => LaterInv
<1> SUFFICES ASSUME Init PROVE LaterInv
  OBVIOUS
<1>1. /\ otp = NoCode /\ crashes = 0 /\ faults = 0
      /\ \A n \in 1..MaxCodes : wrongs[n] = 0
  BY DEF Init
<1> QED
  BY <1>1, OtpAssumption DEF LaterInv

LEMMA LaterAlone ==
    ASSUME TypeOK, TtlsInv, PlacesInv, LaterInv, ~overlap, [Next]_vars,
           NEW r \in Requests, \A q \in Requests : q # r => pc[q] = "idle",
           Verify(r) \/ Step(r) \/ CommandFails(r)
    PROVE  LaterInv'
<1>0. /\ otp \in Nat /\ otpTTL \in 0..Lifetime /\ attempts \in Nat /\ attemptsTTL \in Int
      /\ codes \in 0..MaxCodes /\ faults \in Nat /\ crashes \in Nat
      /\ ttl[r] \in 1..Lifetime /\ Lifetime \in Nat /\ MaxAttempts \in Nat \ {0}
      /\ Half \in Nat
      /\ otp # NoCode => otp \in 1..MaxCodes /\ wrongs[otp] \in Nat
  <2>1. /\ otp \in 0..codes /\ otpTTL \in 0..Lifetime /\ attempts \in Nat
        /\ attemptsTTL \in {Forever} \cup (0..Lifetime)
        /\ codes \in 0..MaxCodes /\ faults \in Nat /\ crashes \in Nat
        /\ ttl[r] \in 1..Lifetime
    BY DEF TypeOK
  <2>2. /\ Lifetime \in Nat /\ MaxAttempts \in Nat \ {0} /\ MaxCodes \in Nat /\ Cap \in Nat
        /\ Half \in Nat
    BY OtpAssumption, HalfType
  <2>3. \A n \in 1..MaxCodes : wrongs[n] \in 0..Cap
    BY DEF TypeOK
  <2>4. otp # NoCode => otp \in 1..MaxCodes
    BY <2>1, <2>2 DEF NoCode
  <2> QED
    BY <2>1, <2>2, <2>3, <2>4 DEF Forever
<1>a. Quiet' => Quiet
  BY HistoryGrows DEF TypeOK, Quiet
<1>b. otp # NoCode /\ pc[r] \in {"incr", "expire"} => ttl[r] + Half >= otpTTL \/ wrongs[otp] = 0
  BY DEF LaterInv
<1>c. PICK base \in {0, MaxAttempts} :
         Quiet /\ otp # NoCode =>
              /\ attempts = 0 =>
                    wrongs[otp] <= base + 1 + (IF pc[r] \in {"ttl", "incr"} THEN 1 ELSE 0)
                                     + crashes + faults
              /\ attempts > 0 /\ ~NearlyOutlives =>
                    wrongs[otp] <= base + (IF pc[r] \in {"ttl", "incr", "expire"} THEN 1 ELSE 0)
                                     + crashes + faults
              /\ attempts > 0 /\ NearlyOutlives =>
                    wrongs[otp] <= base + attempts + 1
                                     + (IF pc[r] \in {"ttl", "incr"} THEN 1 ELSE 0)
                                     + crashes + faults
              /\ wrongs[otp] + (IF pc[r] = "get" THEN 1 ELSE 0)
                    <= base + MaxAttempts + 1 + crashes + faults
              /\ base # 0 => Closing
  <2>1. PICK next \in PC : GoTo(r, next)
    BY DEF Verify, Step, CommandFails, CheckAttempts, Lockout, GetCode, ReadTTL, Incr, Expire,
           Accept, AcceptFails, DeleteCode, Reset, AfterFault, PC
  <2>2. Quiet /\ otp # NoCode => \E base \in {0, MaxAttempts} : CountedLater(base)
    BY DEF LaterInv
  <2> QED
    BY <2>1, <2>2, BusyMove DEF CountedLater
<1>d. otp' # NoCode /\ Closing => Closing'
  BY ClosingStep
<1>e. base \in Nat /\ base <= MaxAttempts
  BY <1>0
<1>1. CASE Verify(r)
  <2>1. /\ GoTo(r, "check") /\ pc[r] = "idle"
        /\ UNCHANGED <<otp, otpTTL, attempts, attemptsTTL, ttl, crashes, faults, wrongs>>
    BY <1>1 DEF Verify
  <2> QED
    BY <1>0, <1>a, <1>b, <1>c, <1>d, <1>e, <2>1, LaterFrame DEF PC, NearlyOutlives
<1>2. CASE CheckAttempts(r)
  <2>1. /\ pc[r] = "check"
        /\ UNCHANGED <<otp, otpTTL, attempts, attemptsTTL, ttl, crashes, faults, wrongs>>
        /\ GoTo(r, "lockout") \/ (GoTo(r, "get") /\ attempts < MaxAttempts)
    BY <1>0, <1>2 DEF CheckAttempts, AttemptsExceeded
  <2>2. NearlyOutlives' <=> NearlyOutlives
    BY <2>1 DEF NearlyOutlives
  <2>3. CASE GoTo(r, "lockout")
    BY <1>0, <1>a, <1>b, <1>c, <1>d, <1>e, <2>1, <2>2, <2>3, LaterFrame DEF PC
  <2>4. CASE GoTo(r, "get") /\ attempts < MaxAttempts
    <3>1. Quiet /\ otp # NoCode => wrongs[otp] + 1 <= base + MaxAttempts + 1 + crashes + faults
      BY <1>0, <1>a, <1>b, <1>c, <1>d, <1>e, <2>1, <2>4
    <3> QED
      BY <1>0, <1>a, <1>b, <1>c, <1>d, <1>e, <2>1, <2>2, <2>4, <3>1, LaterFrame DEF PC
  <2> QED
    BY <2>1, <2>3, <2>4
<1>3. CASE Lockout(r) \/ DeleteCode(r)
  <2>1. PICK next \in PC : GoTo(r, next)
    BY <1>3 DEF Lockout, DeleteCode, PC
  <2>2. otp' = NoCode /\ UNCHANGED <<wrongs, crashes, faults>>
    BY <1>3 DEF Lockout, DeleteCode
  <2> QED
    BY <1>0, <1>a, <1>d, <2>1, <2>2, LaterFrame
<1>4. CASE GetCode(r)
  <2>1. /\ pc[r] = "get"
        /\ UNCHANGED <<otp, otpTTL, attempts, attemptsTTL, ttl, crashes, faults, uses>>
    BY <1>4 DEF GetCode
  <2>2. (NearlyOutlives' <=> NearlyOutlives) /\ (Quiet' <=> Quiet)
    BY <2>1 DEF NearlyOutlives, Quiet
  <2>3. CASE UNCHANGED wrongs
    <3>1. PICK next \in {"idle", "accept", "ttl"} : GoTo(r, next)
      BY <1>4 DEF GetCode
    <3> QED
      BY <1>0, <1>a, <1>b, <1>c, <1>d, <1>e, <2>1, <2>2, <2>3, <3>1, LaterFrame DEF PC
  <2>4. CASE otp # NoCode /\ GoTo(r, "ttl") /\ wrongs' = [wrongs EXCEPT ![otp] = Count(@)]
    <3>1. /\ wrongs'[otp] \in Nat /\ wrongs'[otp] <= wrongs[otp] + 1
          /\ \A n \in 1..MaxCodes : n # otp => wrongs'[n] = wrongs[n]
      BY <1>0, <2>4, OtpAssumption DEF Count, TypeOK
    <3>2. /\ Busy({"ttl", "incr"})' = 1 /\ Busy({"ttl", "incr", "expire"})' = 1
          /\ Busy({"get"})' = 0
      BY <2>4, BusyMove DEF PC
    <3>3. \A q \in Requests : pc'[q] \notin {"incr", "expire"}
      BY <2>4 DEF GoTo, TypeOK
    <3>4. Quiet' =>
              /\ attempts' = 0 => wrongs'[otp] <= base + 1 + 1 + crashes' + faults'
              /\ attempts' > 0 /\ ~NearlyOutlives' => wrongs'[otp] <= base + 1 + crashes' + faults'
              /\ attempts' > 0 /\ NearlyOutlives' =>
                    wrongs'[otp] <= base + attempts' + 1 + 1 + crashes' + faults'
              /\ wrongs'[otp] + 0 <= base + MaxAttempts + 1 + crashes' + faults'
              /\ base # 0 => Closing'
      BY <1>0, <1>c, <1>d, <1>e, <2>1, <2>2, <2>4, <3>1
    <3>5. Quiet' => \A n \in 1..MaxCodes : wrongs'[n] <= 2 * MaxAttempts + 1 + crashes' + faults'
      BY <1>0, <1>e, <2>1, <2>2, <2>4, <3>1, <3>4 DEF LaterInv
    <3>6. Quiet' => CountedLater(0)' \/ CountedLater(MaxAttempts)'
      <4>1. CASE base = 0
        BY <2>1, <3>2, <3>4, <4>1 DEF CountedLater
      <4>2. CASE base = MaxAttempts
        BY <2>1, <3>2, <3>4, <4>2 DEF CountedLater
      <4> QED
        BY <4>1, <4>2
    <3> QED
      BY <2>1, <3>3, <3>5, <3>6 DEF LaterInv
  <2> QED
    BY <1>4, <2>3, <2>4 DEF GetCode
<1>5. CASE ReadTTL(r)
  <2>1. /\ pc[r] = "ttl" /\ GoTo(r, "incr")
        /\ UNCHANGED <<otp, otpTTL, attempts, attemptsTTL, crashes, faults, wrongs>>
        /\ ttl'[r] = RemainingTTL
    BY <1>5 DEF ReadTTL, TypeOK
  <2>2. ttl'[r] + Half >= otpTTL
    BY <2>1, RemainingType
  <2>3. NearlyOutlives' <=> NearlyOutlives
    BY <2>1 DEF NearlyOutlives
  <2> QED
    BY <1>0, <1>a, <1>b, <1>c, <1>d, <1>e, <2>1, <2>2, <2>3, LaterFrame DEF PC
<1>6. CASE Incr(r)
  <2>1. /\ pc[r] = "incr" /\ GoTo(r, "expire") /\ attempts' = attempts + 1
        /\ UNCHANGED <<otp, otpTTL, ttl, crashes, faults, wrongs>>
        /\ attemptsTTL' = IF attempts = 0 THEN Forever ELSE attemptsTTL
    BY <1>6 DEF Incr
  <2>2. attempts = 0 \/ NearlyOutlives => NearlyOutlives'
    BY <2>1 DEF NearlyOutlives
  <2>3. otp # NoCode /\ Quiet =>
              /\ ~NearlyOutlives' => wrongs[otp] <= base + 1 + crashes + faults
              /\ NearlyOutlives' => wrongs[otp] <= base + attempts' + 1 + crashes + faults
              /\ wrongs[otp] <= base + MaxAttempts + 1 + crashes + faults
    BY <1>0, <1>a, <1>b, <1>c, <1>d, <1>e, <2>1, <2>2
  <2> QED
    BY <1>0, <1>a, <1>b, <1>c, <1>d, <1>e, <2>1, <2>3, LaterFrame DEF PC
<1>7. CASE Expire(r)
  <2>1. /\ pc[r] = "expire" /\ GoTo(r, "idle")
        /\ UNCHANGED <<otp, otpTTL, ttl, attempts, crashes, faults, wrongs>>
        /\ attemptsTTL' = IF attempts > 0 THEN ttl[r] ELSE 0
    BY <1>7 DEF Expire
  <2>2. otp # NoCode /\ attempts > 0 => NearlyOutlives' \/ wrongs[otp] = 0
    BY <1>0, <1>a, <1>b, <1>c, <1>d, <1>e, <2>1 DEF NearlyOutlives
  <2>3. otp # NoCode /\ Quiet =>
              /\ attempts = 0 => wrongs[otp] <= base + 1 + crashes + faults
              /\ attempts > 0 /\ ~NearlyOutlives' => wrongs[otp] <= base + 0 + crashes + faults
              /\ attempts > 0 => wrongs[otp] <= base + attempts + 1 + crashes + faults
              /\ wrongs[otp] <= base + MaxAttempts + 1 + crashes + faults
    BY <1>0, <1>a, <1>b, <1>c, <1>d, <1>e, <2>1, <2>2
  <2> QED
    BY <1>0, <1>a, <1>b, <1>c, <1>d, <1>e, <2>1, <2>3, LaterFrame DEF PC
<1>8. CASE Accept(r) \/ Reset(r)
  <2>1. /\ pc[r] \in {"accept", "reset"}
        /\ UNCHANGED <<otp, otpTTL, ttl, crashes, faults, wrongs>>
    BY <1>8 DEF Accept, Reset
  <2>2. PICK next \in {"del", "idle"} : GoTo(r, next)
    BY <1>8 DEF Accept, Reset
  <2>3. guess[r] \in 1..MaxCodes
    <3>1. guess[r] \in 1..codes
      BY <2>1 DEF PlacesInv
    <3> QED
      BY <1>0, <3>1, OtpAssumption
  <2>4. uses'[guess[r]] # 0
    <3>1. CASE Accept(r)
      BY <2>3, <3>1, OtpAssumption DEF Accept, Count, TypeOK
    <3>2. CASE Reset(r)
      BY <3>2 DEF Reset, PlacesInv
    <3> QED
      BY <1>8, <3>1, <3>2
  <2>5. ~Quiet'
    BY <2>3, <2>4 DEF Quiet
  <2> QED
    BY <1>0, <2>1, <2>2, <2>5, LaterFrame DEF PC
<1>9. CASE AcceptFails(r)
  <2>1. /\ pc[r] = "accept" /\ GoTo(r, "idle")
        /\ UNCHANGED <<otp, otpTTL, attempts, attemptsTTL, ttl, crashes, faults, wrongs>>
    BY <1>9 DEF AcceptFails
  <2> QED
    BY <1>0, <1>a, <1>b, <1>c, <1>d, <1>e, <2>1, LaterFrame DEF PC, NearlyOutlives
<1>10. CASE CommandFails(r)
  <2>1. /\ UNCHANGED <<otp, otpTTL, attempts, attemptsTTL, crashes, wrongs>>
        /\ faults' = faults + 1
        /\ ttl'[r] = IF pc[r] = "ttl" THEN Lifetime ELSE ttl[r]
    BY <1>10 DEF CommandFails, TypeOK
  <2>2. PICK next \in {"get", "incr", "expire", "idle", "reset"} :
           /\ GoTo(r, next)
           /\ next = "get" => pc[r] = "check"
           /\ next = "incr" <=> pc[r] = "ttl"
           /\ next = "expire" <=> pc[r] = "incr"
    BY <1>10 DEF CommandFails, AfterFault
  <2>3. NearlyOutlives' <=> NearlyOutlives
    BY <2>1 DEF NearlyOutlives
  <2>4. otp # NoCode /\ next \in {"incr", "expire"} => ttl'[r] + Half >= otpTTL \/ wrongs[otp] = 0
    BY <1>0, <1>a, <1>b, <1>c, <1>d, <1>e, <2>1, <2>2
  <2> QED
    BY <1>0, <1>a, <1>b, <1>c, <1>d, <1>e, <2>1, <2>2, <2>3, <2>4, LaterFrame DEF PC
<1> QED
  BY <1>1, <1>2, <1>3, <1>4, <1>5, <1>6, <1>7, <1>8, <1>9, <1>10 DEF Step

LEMMA LaterStep == TypeOK /\ TtlsInv /\ PlacesInv /\ LaterInv /\ [Next]_vars => LaterInv'
<1> SUFFICES ASSUME TypeOK, TtlsInv, PlacesInv, LaterInv, [Next]_vars, ~overlap' PROVE LaterInv'
  BY DEF LaterInv
<1>0. /\ ~overlap /\ (Quiet' => Quiet)
      /\ codes \in 0..MaxCodes /\ otpTTL \in 0..Lifetime /\ attempts \in Nat
      /\ attemptsTTL \in {Forever} \cup (0..Lifetime) /\ (attempts > 0 <=> attemptsTTL # 0)
      /\ faults \in Nat /\ crashes \in Nat
      /\ otp # NoCode => otp \in 1..codes
      /\ \A n \in 1..MaxCodes : wrongs[n] \in Nat
      /\ Lifetime \in Nat /\ MaxAttempts \in Nat \ {0} /\ MaxCodes \in Nat /\ Half \in Nat
  <2>1. ~overlap /\ (Quiet' => Quiet)
    BY HistoryGrows DEF TypeOK, Quiet
  <2>2. \A n \in 1..MaxCodes : wrongs[n] \in Nat
    BY OtpAssumption DEF TypeOK
  <2> QED
    BY <2>1, <2>2, OtpAssumption, HalfType DEF TypeOK, NoCode
<1>a. /\ Busy({"ttl", "incr"}) \in {0, 1} /\ Busy({"ttl", "incr"})' \in {0, 1}
      /\ Busy({"ttl", "incr", "expire"}) \in {0, 1} /\ Busy({"ttl", "incr", "expire"})' \in {0, 1}
      /\ Busy({"get"}) \in {0, 1} /\ Busy({"get"})' \in {0, 1}
  BY BusyBit
<1>b. PICK base \in {0, MaxAttempts} :
         Quiet /\ otp # NoCode =>
            /\ attempts = 0 =>
                  wrongs[otp] <= base + 1 + Busy({"ttl", "incr"}) + crashes + faults
            /\ attempts > 0 /\ ~NearlyOutlives =>
                  wrongs[otp] <= base + Busy({"ttl", "incr", "expire"}) + crashes + faults
            /\ attempts > 0 /\ NearlyOutlives =>
                  wrongs[otp] <= base + attempts + 1 + Busy({"ttl", "incr"}) + crashes + faults
            /\ wrongs[otp] + Busy({"get"}) <= base + MaxAttempts + 1 + crashes + faults
            /\ base # 0 => Closing
  <2>1. Quiet /\ otp # NoCode => \E base \in {0, MaxAttempts} : CountedLater(base)
    BY <1>0 DEF LaterInv
  <2> QED
    BY <2>1 DEF CountedLater
<1>c. ASSUME NEW next_base \in {0, MaxAttempts},
             otp' # NoCode =>
                \A r \in Requests :
                   pc'[r] \in {"incr", "expire"} => ttl'[r] + Half >= otpTTL' \/ wrongs'[otp'] = 0,
             Quiet' => \A n \in 1..MaxCodes :
                          wrongs'[n] <= 2 * MaxAttempts + 1 + crashes' + faults',
             Quiet' /\ otp' # NoCode =>
                /\ attempts' = 0 =>
                      wrongs'[otp'] <= next_base + 1 + Busy({"ttl", "incr"})' + crashes' + faults'
                /\ attempts' > 0 /\ ~NearlyOutlives' =>
                      wrongs'[otp'] <= next_base + Busy({"ttl", "incr", "expire"})'
                                         + crashes' + faults'
                /\ attempts' > 0 /\ NearlyOutlives' =>
                      wrongs'[otp'] <= next_base + attempts' + 1 + Busy({"ttl", "incr"})'
                                         + crashes' + faults'
                /\ wrongs'[otp'] + Busy({"get"})'
                      <= next_base + MaxAttempts + 1 + crashes' + faults'
                /\ next_base # 0 => Closing'
      PROVE  LaterInv'
  <2>1. Quiet' /\ otp' # NoCode => CountedLater(0)' \/ CountedLater(MaxAttempts)'
    <3>1. CASE next_base = 0
      BY <1>c, <3>1 DEF CountedLater
    <3>2. CASE next_base = MaxAttempts
      BY <1>c, <3>2 DEF CountedLater
    <3> QED
      BY <1>c, <3>1, <3>2
  <2> QED
    BY <1>c, <2>1 DEF LaterInv
<1>1. CASE IssueCode
  <2>1. /\ UNCHANGED <<attempts, attemptsTTL, pc, ttl, wrongs, faults, crashes>>
        /\ otp' = codes + 1 /\ codes < MaxCodes
    BY <1>1 DEF IssueCode
  <2>2. otp' \in 1..MaxCodes /\ otp' > codes
    BY <1>0, <2>1
  <2>3. wrongs'[otp'] = 0
    BY <2>1, <2>2 DEF PlacesInv
  <2>4. Quiet' => \A n \in 1..MaxCodes : wrongs'[n] <= 2 * MaxAttempts + 1 + crashes' + faults'
    BY <1>0, <2>1 DEF LaterInv
  <2>5. /\ 0 <= 0 + 1 + Busy({"ttl", "incr"})' + crashes' + faults'
        /\ 0 <= 0 + Busy({"ttl", "incr", "expire"})' + crashes' + faults'
        /\ 0 <= 0 + attempts' + 1 + Busy({"ttl", "incr"})' + crashes' + faults'
        /\ 0 + Busy({"get"})' <= 0 + MaxAttempts + 1 + crashes' + faults'
    BY <1>0, <1>a, <2>1
  <2> QED
    BY <1>c, <2>3, <2>4, <2>5
<1>2. ASSUME NEW r \in Requests, Verify(r) \/ Step(r) \/ CommandFails(r) PROVE LaterInv'
  BY <1>2, Alone, LaterAlone
<1>3. CASE Tick
  <2>1. /\ UNCHANGED <<pc, ttl, wrongs, faults, crashes, uses>>
        /\ otpTTL' = Elapsed(otpTTL) /\ attemptsTTL' = Elapsed(attemptsTTL)
        /\ otp' = IF otpTTL' = 0 THEN NoCode ELSE otp
        /\ attempts' = IF attemptsTTL' = 0 THEN 0 ELSE attempts
    BY <1>3 DEF Tick
  <2>2. /\ Busy({"ttl", "incr"})' = Busy({"ttl", "incr"})
        /\ Busy({"ttl", "incr", "expire"})' = Busy({"ttl", "incr", "expire"})
        /\ Busy({"get"})' = Busy({"get"})
    BY <2>1 DEF Busy
  <2>3. Busy({"ttl", "incr", "expire"}) <= 1 + Busy({"ttl", "incr"})
    BY <1>a
  <2>4. otp' # NoCode => otp' = otp /\ otpTTL' = otpTTL - 1 /\ otpTTL' > 0
    BY <1>0, <2>1 DEF Elapsed
  <2>5. otp' # NoCode =>
              \A r \in Requests :
                  pc'[r] \in {"incr", "expire"} => ttl'[r] + Half >= otpTTL' \/ wrongs'[otp'] = 0
    <3>1. \A r \in Requests : ttl[r] \in Nat
      BY OtpAssumption DEF TypeOK
    <3> QED
      BY <1>0, <2>1, <2>4, <3>1 DEF LaterInv
  <2>6. Quiet' => \A n \in 1..MaxCodes : wrongs'[n] <= 2 * MaxAttempts + 1 + crashes' + faults'
    BY <1>0, <2>1 DEF LaterInv
  <2>7. CASE otp' = NoCode \/ ~Quiet'
    BY <1>c, <2>5, <2>6, <2>7
  <2>8. CASE otp' # NoCode /\ Quiet'
    <3>1. /\ attempts = 0 =>
                wrongs[otp] <= base + 1 + Busy({"ttl", "incr"}) + crashes + faults
          /\ attempts > 0 /\ ~NearlyOutlives =>
                wrongs[otp] <= base + Busy({"ttl", "incr", "expire"}) + crashes + faults
          /\ attempts > 0 /\ NearlyOutlives =>
                wrongs[otp] <= base + attempts + 1 + Busy({"ttl", "incr"}) + crashes + faults
          /\ wrongs[otp] + Busy({"get"}) <= base + MaxAttempts + 1 + crashes + faults
          /\ base # 0 => Closing
      BY <1>0, <1>b, <2>4, <2>8
    <3>2. otp \in 1..MaxCodes /\ wrongs[otp] \in Nat /\ base \in Nat
      BY <1>0, <2>4, <2>8
    <3>3. CASE attempts' = attempts
      <4>1. Closing => Closing'
        BY <1>0, <2>1, <2>4, <2>8, <3>3 DEF Closing, Outlives, Elapsed, Forever
      <4>2. attempts > 0 => (NearlyOutlives' <=> NearlyOutlives)
        <5>1. attempts > 0 => attemptsTTL' # 0
          BY <2>1, <3>3
        <5> QED
          BY <1>0, <2>1, <2>4, <2>8, <5>1 DEF NearlyOutlives, Elapsed, Forever
      <4> QED
        BY <1>c, <2>1, <2>2, <2>4, <2>5, <2>6, <2>8, <3>1, <3>3, <4>1, <4>2
    <3>4. CASE attempts' = 0 /\ attempts > 0
      <4>1. attemptsTTL = 1
        BY <1>0, <2>1, <3>4 DEF Elapsed, Forever
      <4>2. base = 0
        <5>1. ~Closing
          BY <1>0, <2>4, <2>8, <3>4, <4>1 DEF Closing, Outlives, Forever
        <5> QED
          BY <3>1, <5>1
      <4>3. CASE NearlyOutlives
        <5>1. Closing'
          BY <1>0, <2>4, <2>8, <3>4, <4>1, <4>3 DEF NearlyOutlives, Closing, Forever
        <5>2. /\ wrongs[otp] <= MaxAttempts + 1 + Busy({"ttl", "incr"}) + crashes + faults
              /\ wrongs[otp] + Busy({"get"}) <= MaxAttempts + MaxAttempts + 1 + crashes + faults
          BY <1>0, <1>a, <3>1, <3>2, <4>2
        <5> QED
          BY <1>c, <2>1, <2>2, <2>4, <2>5, <2>6, <2>8, <3>4, <5>1, <5>2
      <4>4. CASE ~NearlyOutlives
        <5>1. /\ wrongs[otp] <= 0 + 1 + Busy({"ttl", "incr"}) + crashes + faults
              /\ wrongs[otp] + Busy({"get"}) <= 0 + MaxAttempts + 1 + crashes + faults
          BY <1>0, <1>a, <2>3, <3>1, <3>2, <3>4, <4>2, <4>4
        <5> QED
          BY <1>c, <2>1, <2>2, <2>4, <2>5, <2>6, <2>8, <3>4, <5>1
      <4> QED
        BY <4>3, <4>4
    <3> QED
      BY <1>0, <2>1, <3>3, <3>4
  <2> QED
    BY <2>7, <2>8
<1>4. CASE Crash
  <2>1. /\ UNCHANGED <<otp, otpTTL, attempts, attemptsTTL, wrongs, faults>>
        /\ crashes' = crashes + 1 /\ \A q \in Requests : pc'[q] = "idle"
    BY <1>4 DEF Crash
  <2>2. /\ Busy({"ttl", "incr"})' = 0 /\ Busy({"ttl", "incr", "expire"})' = 0
        /\ Busy({"get"})' = 0
    BY <2>1 DEF Busy
  <2>3. (NearlyOutlives' <=> NearlyOutlives) /\ (Closing' <=> Closing)
    BY <2>1 DEF NearlyOutlives, Closing, Outlives
  <2>4. Quiet' => \A n \in 1..MaxCodes : wrongs'[n] <= 2 * MaxAttempts + 1 + crashes' + faults'
    BY <1>0, <2>1 DEF LaterInv
  <2>5. base \in Nat /\ (otp # NoCode => wrongs[otp] \in Nat)
    BY <1>0
  <2>6. Quiet' /\ otp' # NoCode =>
              /\ attempts' = 0 => wrongs'[otp'] <= base + 1 + 0 + crashes' + faults'
              /\ attempts' > 0 /\ ~NearlyOutlives' => wrongs'[otp'] <= base + 0 + crashes' + faults'
              /\ attempts' > 0 /\ NearlyOutlives' =>
                    wrongs'[otp'] <= base + attempts' + 1 + 0 + crashes' + faults'
              /\ wrongs'[otp'] + 0 <= base + MaxAttempts + 1 + crashes' + faults'
              /\ base # 0 => Closing'
    BY <1>0, <1>a, <1>b, <2>1, <2>3, <2>5
  <2> QED
    BY <1>c, <2>1, <2>2, <2>4, <2>6
<1>5. CASE UNCHANGED vars
  <2>1. /\ UNCHANGED <<otp, otpTTL, attempts, attemptsTTL, pc, ttl, wrongs, faults, crashes, uses,
                       overlap>>
    BY <1>5 DEF vars
  <2>2. /\ Busy({"ttl", "incr"})' = Busy({"ttl", "incr"})
        /\ Busy({"ttl", "incr", "expire"})' = Busy({"ttl", "incr", "expire"})
        /\ Busy({"get"})' = Busy({"get"})
    BY <2>1 DEF Busy
  <2>3. /\ NearlyOutlives' <=> NearlyOutlives
        /\ CountedLater(0)' <=> CountedLater(0)
        /\ CountedLater(MaxAttempts)' <=> CountedLater(MaxAttempts)
    BY <2>1, <2>2 DEF CountedLater, NearlyOutlives, Closing, Outlives
  <2> QED
    BY <1>0, <2>1, <2>3 DEF LaterInv
<1> QED
  BY <1>1, <1>2, <1>3, <1>4, <1>5 DEF Next

-----------------------------------------------------------------------------
(* The uses of a code *)

LEMMA WidthType ==
    ASSUME TypeOK
    PROVE  Width \in Nat /\ LostDeletions \in Nat
<1>1. Cardinality(Requests) \in Nat /\ crashes \in Nat
  BY RequestsFinite DEF TypeOK
<1>2. \A a, b \in Nat : a * b \in Nat
  OBVIOUS
<1>3. Width \in Nat
  BY <1>1 DEF Width
<1> QED
  BY <1>1, <1>2, <1>3 DEF LostDeletions

LEMMA WidthGrows ==
    ASSUME TypeOK, NEW r \in Requests, overlap' \in BOOLEAN, overlap => overlap',
           UNCHANGED crashes
    PROVE  /\ Width' \in Nat /\ LostDeletions' \in Nat
           /\ Width <= Width' /\ LostDeletions <= LostDeletions'
<1>1. Cardinality(Requests) \in Nat /\ Cardinality(Requests) # 0 /\ crashes \in Nat
  BY RequestsFinite, FS_EmptySet, OtpAssumption DEF TypeOK
<1>2. Width \in Nat /\ Width' \in Nat /\ Width <= Width'
  BY <1>1 DEF Width
<1>3. PICK more \in Nat : Width' = Width + more
  <2>1. \A a, b \in Nat : a <= b => \E more \in Nat : b = a + more
    <3> TAKE a, b \in Nat
    <3> HAVE a <= b
    <3>1. b - a \in Nat /\ b = a + (b - a)
      OBVIOUS
    <3> QED
      BY <3>1
  <2> QED
    BY <1>2, <2>1
<1>4. \A a, b, c \in Nat : (a + b) * c = a * c + b * c
  OBVIOUS
<1>5. \A a, b \in Nat : a * b \in Nat
  OBVIOUS
<1>6. LostDeletions' = Width * crashes + more * crashes
  BY <1>1, <1>2, <1>3, <1>4 DEF LostDeletions
<1>7. Width * crashes \in Nat /\ more * crashes \in Nat
  BY <1>1, <1>2, <1>5
<1> QED
  BY <1>2, <1>6, <1>7 DEF LostDeletions

LEMMA DeletionsByRestart ==
    ASSUME TypeOK, UNCHANGED overlap, crashes' = crashes + 1
    PROVE  LostDeletions' = LostDeletions + Width
<1>1. Width \in Nat /\ crashes \in Nat /\ Width' = Width
  BY WidthType DEF Width, TypeOK
<1>2. \A a, b \in Nat : a * (b + 1) = a * b + a
  OBVIOUS
<1> QED
  BY <1>1, <1>2 DEF LostDeletions

(* Those who will accept a code and those who will delete it are in flight. *)
LEMMA UsersRoom ==
    ASSUME TypeOK, PlacesInv, NEW n
    PROVE  /\ Cardinality(AtWith("accept", n)) \in Nat
           /\ Cardinality(AtWith("del", n)) \in Nat
           /\ Cardinality(AtWith("accept", n)) + Cardinality(AtWith("del", n)) <= Width
<1> DEFINE A == AtWith("accept", n)
           D == AtWith("del", n)
<1>1. A \subseteq Requests /\ D \subseteq Requests /\ A \cap D = {}
  BY DEF AtWith
<1>2. Cardinality(A) \in Nat /\ Cardinality(D) \in Nat /\ IsFiniteSet(A) /\ IsFiniteSet(D)
  BY <1>1, RequestsFinite
<1>3. CASE overlap
  BY <1>1, <1>2, <1>3, Apart DEF Width
<1>4. CASE ~overlap
  <2>1. \A p, q \in A \cup D : p = q
    BY <1>4 DEF AtWith, PlacesInv
  <2> HIDE DEF A, D
  <2>2. Cardinality(A \cup D) <= 1
    <3>1. CASE A \cup D = {}
      BY <3>1, FS_EmptySet
    <3>2. ASSUME NEW p \in A \cup D PROVE Cardinality(A \cup D) <= 1
      <4>1. A \cup D = {p}
        BY <2>1, <3>2
      <4> QED
        BY <4>1, FS_Singleton
    <3> QED
      BY <3>1, <3>2
  <2>3. Cardinality(A \cup D) = Cardinality(A) + Cardinality(D) - Cardinality(A \cap D)
    BY <1>2, FS_Union
  <2>4. Cardinality(A \cap D) = 0
    BY <1>1, FS_EmptySet
  <2>5. Cardinality(A) + Cardinality(D) <= 1
    BY <1>2, <2>2, <2>3, <2>4
  <2>6. Width = 1
    BY <1>4 DEF Width
  <2> QED
    BY <1>2, <2>5, <2>6 DEF A, D
<1> QED
  BY <1>2, <1>3, <1>4

LEMMA UsesInit == Init => UsesInv
BY DEF Init, UsesInv

(* A code that is deleted can be accepted by those alone who had read it. *)
LEMMA UsesWhenGone ==
    ASSUME TypeOK, PlacesInv, UsesInv, NEW n \in 1..codes
    PROVE  uses[n] + Cardinality(AtWith("accept", n)) <= Width + LostDeletions + faults
<1>1. n \in 1..MaxCodes /\ uses[n] \in Nat /\ faults \in Nat
  BY OtpAssumption DEF TypeOK
<1>2. Width \in Nat /\ LostDeletions \in Nat
  BY WidthType
<1>3. /\ Cardinality(AtWith("accept", n)) \in Nat /\ Cardinality(AtWith("del", n)) \in Nat
      /\ Cardinality(AtWith("accept", n)) + Cardinality(AtWith("del", n)) <= Width
  BY UsersRoom
<1>4. CASE otp = n
  BY <1>1, <1>2, <1>3, <1>4 DEF UsesInv
<1>5. CASE otp # n
  BY <1>5 DEF UsesInv
<1> QED
  BY <1>4, <1>5

LEMMA UsesFrame ==
    ASSUME TypeOK, PlacesInv, UsesInv, NEW r \in Requests, NEW next \in PC, GoTo(r, next),
           \A q \in Requests : guess'[q] = guess[q] \/ (pc[q] = "idle" /\ pc'[q] = "check"),
           UNCHANGED <<codes, crashes, uses>>, overlap' \in BOOLEAN, overlap => overlap',
           faults' \in Nat, faults <= faults',
           otp' \in {otp, NoCode},
           next # "del",
           pc[r] = "del" => otp' = NoCode \/ faults < faults',
           next = "accept" => otp' = otp /\ guess[r] = otp
    PROVE  UsesInv'
<1> SUFFICES ASSUME NEW n \in 1..codes
             PROVE  /\ otp' = n =>
                          uses[n] <= Cardinality(AtWith("del", n)') + LostDeletions' + faults'
                    /\ otp' # n => uses[n] + Cardinality(AtWith("accept", n)')
                                      <= Width' + LostDeletions' + faults'
  BY DEF UsesInv
<1>1. uses[n] \in Nat /\ faults \in Nat /\ n # NoCode
  BY OtpAssumption DEF TypeOK, NoCode
<1>2. Width \in Nat /\ LostDeletions \in Nat /\ Width' \in Nat /\ LostDeletions' \in Nat
      /\ Width <= Width' /\ LostDeletions <= LostDeletions'
  BY WidthType, WidthGrows
<1>3. uses[n] + Cardinality(AtWith("accept", n)) <= Width + LostDeletions + faults
  BY UsesWhenGone
<1>4. /\ Cardinality(AtWith("del", n)) \in Nat /\ Cardinality(AtWith("del", n)') \in Nat
      /\ Cardinality(AtWith("del", n)') >=
            Cardinality(AtWith("del", n)) - (IF pc[r] = "del" THEN 1 ELSE 0)
  BY AtWithMove
<1>5. /\ Cardinality(AtWith("accept", n)) \in Nat /\ Cardinality(AtWith("accept", n)') \in Nat
      /\ \/ next = "accept" /\ guess[r] = n
         \/ Cardinality(AtWith("accept", n)') <= Cardinality(AtWith("accept", n))
  BY AtWithMove
<1>6. ASSUME otp' = n
      PROVE  uses[n] <= Cardinality(AtWith("del", n)') + LostDeletions' + faults'
  <2>1. otp = n /\ uses[n] <= Cardinality(AtWith("del", n)) + LostDeletions + faults
    BY <1>1, <1>6 DEF UsesInv
  <2>2. pc[r] = "del" => faults < faults'
    BY <1>1, <1>6
  <2> QED
    BY <1>1, <1>2, <1>4, <2>1, <2>2
<1>7. ASSUME otp' # n
      PROVE  uses[n] + Cardinality(AtWith("accept", n)') <= Width' + LostDeletions' + faults'
  <2>1. Cardinality(AtWith("accept", n)') <= Cardinality(AtWith("accept", n))
    BY <1>5, <1>7
  <2> QED
    BY <1>1, <1>2, <1>3, <1>5, <2>1
<1> QED
  BY <1>6, <1>7

LEMMA UsesStep == TypeOK /\ PlacesInv /\ UsesInv /\ [Next]_vars => UsesInv'
<1> SUFFICES ASSUME TypeOK, PlacesInv, UsesInv, [Next]_vars PROVE UsesInv'
  OBVIOUS
<1>0. overlap \in BOOLEAN /\ faults \in Nat /\ codes \in 0..MaxCodes /\ MaxCodes \in Nat
  BY OtpAssumption DEF TypeOK
<1>a. ASSUME NEW n \in 1..codes, UNCHANGED <<pc, guess, crashes, overlap>>
      PROVE  /\ AtWith("accept", n)' = AtWith("accept", n)
             /\ AtWith("del", n)' = AtWith("del", n)
             /\ Width' = Width /\ LostDeletions' = LostDeletions
  BY <1>a DEF AtWith, Width, LostDeletions
<1>1. CASE IssueCode
  <2>1. /\ UNCHANGED <<pc, guess, crashes, faults, uses, overlap>>
        /\ codes' = codes + 1 /\ otp' = codes + 1 /\ codes < MaxCodes
    BY <1>1 DEF IssueCode
  <2>2. ASSUME NEW n \in 1..codes'
        PROVE  /\ otp' = n => uses'[n] <= Cardinality(AtWith("del", n)') + LostDeletions' + faults'
               /\ otp' # n => uses'[n] + Cardinality(AtWith("accept", n)')
                                 <= Width' + LostDeletions' + faults'
    <3>1. CASE n = codes + 1
      <4>1. n \in 1..MaxCodes /\ n > codes
        BY <1>0, <2>1, <3>1
      <4>2. uses'[n] = 0
        BY <2>1, <4>1 DEF PlacesInv
      <4>3. LostDeletions' = LostDeletions /\ LostDeletions \in Nat
        BY <2>1, WidthType DEF Width, LostDeletions
      <4>4. PICK D : D = AtWith("del", n)'
        OBVIOUS
      <4>5. D \subseteq Requests
        BY <4>4 DEF AtWith
      <4>6. Cardinality(AtWith("del", n)') \in Nat
        BY <4>4, <4>5, RequestsFinite
      <4> QED
        BY <1>0, <2>1, <3>1, <4>2, <4>3, <4>6
    <3>2. CASE n # codes + 1
      <4>1. n \in 1..codes
        BY <1>0, <2>1, <2>2, <3>2
      <4>2. uses[n] + Cardinality(AtWith("accept", n)) <= Width + LostDeletions + faults
        BY <4>1, UsesWhenGone
      <4> QED
        BY <1>a, <2>1, <3>2, <4>1, <4>2
    <3> QED
      BY <3>1, <3>2
  <2> QED
    BY <2>2 DEF UsesInv
<1>2. ASSUME NEW r \in Requests, Verify(r) PROVE UsesInv'
  <2>1. /\ pc[r] = "idle" /\ GoTo(r, "check")
        /\ \A q \in Requests \ {r} : guess'[q] = guess[q]
        /\ pc'[r] = "check"
        /\ UNCHANGED <<otp, codes, crashes, faults, uses>>
        /\ overlap' \in BOOLEAN /\ (overlap => overlap')
    BY <1>2 DEF Verify, GoTo, TypeOK
  <2> QED
    BY <1>0, <2>1, UsesFrame DEF PC
<1>3. ASSUME NEW r \in Requests,
             \/ CheckAttempts(r) \/ Lockout(r) \/ GetCode(r) \/ ReadTTL(r) \/ Incr(r)
             \/ Expire(r) \/ AcceptFails(r) \/ DeleteCode(r) \/ Reset(r)
      PROVE  UsesInv'
  <2>1. /\ UNCHANGED <<codes, guess, crashes, faults, uses, overlap>>
        /\ otp' \in {otp, NoCode}
        /\ pc[r] = "del" => otp' = NoCode
    BY <1>3 DEF CheckAttempts, Lockout, GetCode, ReadTTL, Incr, Expire, AcceptFails, DeleteCode,
                Reset
  <2>2. PICK next \in PC :
           /\ GoTo(r, next) /\ next # "del"
           /\ next = "accept" => otp' = otp /\ guess[r] = otp
    BY <1>3 DEF CheckAttempts, Lockout, GetCode, ReadTTL, Incr, Expire, AcceptFails, DeleteCode,
                Reset, PC
  <2> QED
    BY <1>0, <2>1, <2>2, UsesFrame
<1>4. ASSUME NEW r \in Requests, CommandFails(r) PROVE UsesInv'
  <2>1. /\ UNCHANGED <<otp, codes, guess, crashes, uses, overlap>> /\ faults' = faults + 1
    BY <1>4 DEF CommandFails
  <2>2. PICK next \in PC : GoTo(r, next) /\ next \notin {"accept", "del"}
    BY <1>4 DEF CommandFails, AfterFault, PC
  <2> QED
    BY <1>0, <2>1, <2>2, UsesFrame
<1>5. ASSUME NEW r \in Requests, Accept(r) PROVE UsesInv'
  <2>1. /\ pc[r] = "accept" /\ GoTo(r, "del") /\ uses' = [uses EXCEPT ![guess[r]] = Count(@)]
        /\ UNCHANGED <<otp, codes, guess, crashes, faults, overlap>>
    BY <1>5 DEF Accept
  <2>2. ASSUME NEW n \in 1..codes
        PROVE  /\ otp = n => uses'[n] <= Cardinality(AtWith("del", n)') + LostDeletions + faults
               /\ otp # n => uses'[n] + Cardinality(AtWith("accept", n)')
                                <= Width + LostDeletions + faults
    <3>1. /\ n \in 1..MaxCodes /\ uses[n] \in Nat /\ uses'[n] \in Nat
          /\ uses'[n] <= uses[n] + (IF guess[r] = n THEN 1 ELSE 0)
      <4>1. n \in 1..MaxCodes
        BY <1>0
      <4>2. uses[n] \in Nat /\ Count(uses[n]) \in Nat /\ Count(uses[n]) <= uses[n] + 1
        BY <4>1, OtpAssumption DEF TypeOK, Count
      <4>3. uses'[n] = IF guess[r] = n THEN Count(uses[n]) ELSE uses[n]
        BY <2>1, <4>1 DEF TypeOK
      <4> QED
        BY <4>1, <4>2, <4>3
    <3>2. Width \in Nat /\ LostDeletions \in Nat
      BY WidthType
    <3>3. /\ Cardinality(AtWith("del", n)) \in Nat /\ Cardinality(AtWith("del", n)') \in Nat
          /\ Cardinality(AtWith("del", n)')
                = Cardinality(AtWith("del", n)) + (IF guess[r] = n THEN 1 ELSE 0)
      BY <2>1, AtWithMove DEF PC
    <3>4. /\ Cardinality(AtWith("accept", n)) \in Nat /\ Cardinality(AtWith("accept", n)') \in Nat
          /\ Cardinality(AtWith("accept", n)')
                = Cardinality(AtWith("accept", n)) - (IF guess[r] = n THEN 1 ELSE 0)
      BY <2>1, AtWithMove DEF PC
    <3> QED
      BY <1>0, <3>1, <3>2, <3>3, <3>4 DEF UsesInv
  <2>3. Width' = Width /\ LostDeletions' = LostDeletions
    BY <2>1 DEF Width, LostDeletions
  <2> QED
    BY <2>1, <2>2, <2>3 DEF UsesInv
<1>6. CASE Tick \/ UNCHANGED vars
  <2>1. /\ UNCHANGED <<codes, pc, guess, crashes, faults, uses, overlap>>
        /\ otp' \in {otp, NoCode}
    BY <1>6 DEF Tick, vars
  <2>2. ASSUME NEW n \in 1..codes
        PROVE  /\ otp' = n => uses[n] <= Cardinality(AtWith("del", n)) + LostDeletions + faults
               /\ otp' # n => uses[n] + Cardinality(AtWith("accept", n))
                                <= Width + LostDeletions + faults
    <3>1. otp' = n => otp = n
      BY <2>1 DEF NoCode
    <3> QED
      BY <3>1, UsesWhenGone DEF UsesInv
  <2> QED
    BY <1>a, <2>1, <2>2 DEF UsesInv
<1>7. CASE Crash
  <2>1. /\ UNCHANGED <<otp, codes, guess, faults, uses, overlap>> /\ crashes' = crashes + 1
        /\ \A q \in Requests : pc'[q] = "idle"
    BY <1>7 DEF Crash
  <2>2. LostDeletions' = LostDeletions + Width /\ Width' = Width
    BY <2>1, DeletionsByRestart DEF Width
  <2>3. ASSUME NEW n \in 1..codes
        PROVE  /\ uses'[n] <= Cardinality(AtWith("del", n)') + LostDeletions' + faults'
               /\ uses'[n] + Cardinality(AtWith("accept", n)')
                     <= Width' + LostDeletions' + faults'
    <3>1. AtWith("del", n)' = {} /\ AtWith("accept", n)' = {}
      BY <2>1 DEF AtWith
    <3>2. Cardinality(AtWith("del", n)') = 0 /\ Cardinality(AtWith("accept", n)') = 0
      BY <3>1, FS_EmptySet
    <3>3. uses[n] + Cardinality(AtWith("accept", n)) <= Width + LostDeletions + faults
      BY UsesWhenGone
    <3>4. /\ Width \in Nat /\ LostDeletions \in Nat /\ Cardinality(AtWith("accept", n)) \in Nat
          /\ uses[n] \in Nat
      BY WidthType, UsersRoom, OtpAssumption DEF TypeOK
    <3> QED
      BY <1>0, <2>1, <2>2, <3>2, <3>3, <3>4
  <2> QED
    BY <2>1, <2>3 DEF UsesInv
<1> QED
  BY <1>1, <1>2, <1>3, <1>4, <1>5, <1>6, <1>7 DEF Next, Step

-----------------------------------------------------------------------------
(* Together they are preserved by every step. *)
LEMMA BoundsInit == Init => PlacesInv /\ FirstInv /\ LaterInv /\ UsesInv
BY PlacesInit, FirstInit, LaterInit, UsesInit

LEMMA BoundsStep ==
    Inv /\ PlacesInv /\ FirstInv /\ LaterInv /\ UsesInv /\ [Next]_vars
        => Inv' /\ PlacesInv' /\ FirstInv' /\ LaterInv' /\ UsesInv'
BY NextType, NextTtls, NextLockout, PlacesStep, FirstLastsStep, FirstCountedStep, LaterStep, UsesStep
   DEF Inv, FirstInv

(***************************************************************************)
(* For any number of requests, any lifetime and any precision of the       *)
(* clock: while nothing has failed, the counter has every wrong guess at   *)
(* the first code between requests until the last half second of the code, *)
(* and it does not expire half a second or more before the code does.      *)
(***************************************************************************)
THEOREM CounterCovers == Spec => []CounterCoversCode
<1>1. Inv /\ FirstInv => CounterCoversCode
  <2> SUFFICES ASSUME Inv, FirstInv,
                      \A r \in Requests : pc[r] = "idle", otp = 1, crashes = 0, faults = 0
               PROVE  /\ otpTTL > Half => wrongs[1] <= attempts
                      /\ attempts > 0 => attemptsTTL + Half >= otpTTL
    BY DEF CounterCoversCode
  <2>1. Underway = 0
    <3>1. At({"ttl", "incr"}) = {}
      BY DEF At
    <3> QED
      BY <3>1, FS_EmptySet DEF Underway
  <2>2. LostGuesses = 0
    <3>1. Cardinality(Requests) \in Nat
      BY RequestsFinite
    <3>2. \A a \in Nat : a * 0 = 0
      OBVIOUS
    <3> QED
      BY <3>1, <3>2 DEF LostGuesses
  <2>3. attempts \in Nat /\ wrongs[1] \in Nat
    <3>1. 1 \in 1..MaxCodes
      BY OtpAssumption
    <3> QED
      BY <3>1, OtpAssumption DEF Inv, TypeOK
  <2>4. otpTTL > Half => wrongs[1] <= attempts
    BY <2>1, <2>2, <2>3 DEF FirstInv, FirstCounted
  <2>5. attemptsTTL # Forever
    BY DEF Inv, LockoutEnds
  <2> QED
    BY <2>4, <2>5 DEF FirstInv, FirstLasts, NearlyOutlives
<1> QED
  BY Start, BoundsInit, BoundsStep, <1>1, PTL DEF Spec

(***************************************************************************)
(* For any number of requests, restarts and failing commands: as long as   *)
(* no code was accepted, the first code is compared with fewer than        *)
(* OTP_MAX_ATTEMPTS wrong guesses and one more for each request at the     *)
(* same time, and each of a restart, and for each failure, before its last *)
(* half second, and with at most as many again in it.  Without overlap     *)
(* every later code is compared with that limit and one more, and in its   *)
(* last half second with at most the limit again.                          *)
(***************************************************************************)
THEOREM GuessesAreBounded == Spec => []GuessesBounded
<1>1. Inv /\ FirstInv /\ LaterInv => GuessesBounded
  <2> SUFFICES ASSUME Inv, FirstInv, LaterInv, Quiet
               PROVE  /\ wrongs[1] <= Counters(1) * (MaxAttempts + Cardinality(Requests) - 1)
                                         + Cardinality(Requests) * crashes + faults
                      /\ ~overlap => \A n \in 2..MaxCodes :
                            wrongs[n] <= Counters(n) * MaxAttempts + 1 + crashes + faults
    BY DEF GuessesBounded, Quiet
  <2>0. /\ otp \in Nat /\ otpTTL \in Nat /\ Half \in Nat /\ MaxAttempts \in Nat \ {0}
        /\ crashes \in Nat /\ faults \in Nat /\ LostGuesses \in Nat /\ Allowed \in Nat
        /\ Passed \in Nat
        /\ \A n \in 1..MaxCodes : wrongs[n] \in Nat
        /\ 1 \in 1..MaxCodes /\ MaxCodes \in Nat
        /\ \A C : Busy(C) \in {0, 1}
    <3>1. TypeOK
      BY DEF Inv
    <3>2. MaxAttempts \in Nat \ {0} /\ 1 \in 1..MaxCodes /\ MaxCodes \in Nat /\ Cap \in Nat
      BY OtpAssumption
    <3>3. LostGuesses \in Nat /\ Allowed \in Nat /\ Passed \in Nat /\ Half \in Nat
      BY <3>1, LostGuessesType, AllowedType, LanesRoom, HalfType
    <3>4. \A C : Busy(C) \in {0, 1}
      BY BusyBit
    <3>5. /\ otp \in Nat /\ otpTTL \in Nat /\ crashes \in Nat /\ faults \in Nat
          /\ \A n \in 1..MaxCodes : wrongs[n] \in Nat
      BY <3>1, <3>2 DEF TypeOK
    <3> QED
      BY <3>2, <3>3, <3>4, <3>5
  <2>1. wrongs[1] <= Counters(1) * Allowed + LostGuesses + faults
    <3>1. CASE otp = 1 /\ otpTTL > Half
      <4>1. Counters(1) = 1
        BY <3>1 DEF Counters
      <4>2. PICK base \in {0, Allowed} : Counted(base)
        BY <3>1 DEF FirstInv, FirstBounded
      <4>3. base = 0
        BY <2>0, <3>1, <4>2 DEF Counted, Closing
      <4> QED
        BY <2>0, <4>1, <4>2, <4>3 DEF Counted
    <3>2. CASE ~(otp = 1 /\ otpTTL > Half)
      <4>1. Counters(1) = 2
        BY <3>2 DEF Counters
      <4> QED
        BY <4>1 DEF FirstInv, FirstBounded
    <3> QED
      BY <3>1, <3>2
  <2>2. ASSUME ~overlap, NEW n \in 2..MaxCodes
        PROVE  wrongs[n] <= Counters(n) * MaxAttempts + 1 + crashes + faults
    <3>0. n \in 1..MaxCodes /\ n # NoCode
      BY <2>0 DEF NoCode
    <3>1. CASE otp = n /\ otpTTL > Half
      <4>1. Counters(n) = 1
        BY <3>1 DEF Counters
      <4>2. PICK base \in {0, MaxAttempts} : CountedLater(base)
        BY <2>2, <3>0, <3>1 DEF LaterInv
      <4>3. base = 0
        BY <2>0, <3>1, <4>2 DEF CountedLater, Closing
      <4> QED
        BY <2>0, <3>0, <3>1, <4>1, <4>2, <4>3 DEF CountedLater
    <3>2. CASE ~(otp = n /\ otpTTL > Half)
      <4>1. Counters(n) = 2
        BY <3>2 DEF Counters
      <4> QED
        BY <2>2, <3>0, <4>1 DEF LaterInv
    <3> QED
      BY <3>1, <3>2
  <2> QED
    BY <2>1, <2>2 DEF Allowed, LostGuesses
<1> QED
  BY Start, BoundsInit, BoundsStep, <1>1, PTL DEF Spec

(***************************************************************************)
(* For any number of requests, restarts and failing commands: a code is    *)
(* accepted once when requests do not overlap, and by no more requests     *)
(* than there are when they do, each again after a restart or a failure.   *)
(***************************************************************************)
THEOREM UsesAreBounded == Spec => []UsesBounded
<1>1. Inv /\ PlacesInv /\ UsesInv => UsesBounded
  <2> SUFFICES ASSUME Inv, PlacesInv, UsesInv, NEW n \in 1..MaxCodes
               PROVE  uses[n] <= Width * (1 + crashes) + faults
    BY DEF UsesBounded, Width
  <2>1. Width \in Nat /\ LostDeletions \in Nat /\ faults \in Nat /\ crashes \in Nat
        /\ codes \in 0..MaxCodes /\ uses[n] \in Nat
    <3>1. TypeOK /\ Cap \in Nat
      BY OtpAssumption DEF Inv
    <3>2. Width \in Nat /\ LostDeletions \in Nat
      BY <3>1, WidthType
    <3>3. codes \in 0..MaxCodes /\ faults \in Nat /\ crashes \in Nat
      BY <3>1 DEF TypeOK
    <3>4. uses[n] \in 0..Cap
      BY <3>1 DEF TypeOK
    <3> QED
      BY <3>1, <3>2, <3>3, <3>4
  <2>2. Width * (1 + crashes) = Width + LostDeletions
    <3>1. \A a, b \in Nat : a * (1 + b) = a + a * b
      OBVIOUS
    <3> QED
      BY <2>1, <3>1 DEF LostDeletions
  <2>3. CASE n > codes
    BY <2>1, <2>2, <2>3 DEF PlacesInv
  <2>4. CASE n \in 1..codes
    <3>1. uses[n] + Cardinality(AtWith("accept", n)) <= Width + LostDeletions + faults
      BY <2>4, UsesWhenGone DEF Inv
    <3>2. Cardinality(AtWith("accept", n)) \in Nat
      BY UsersRoom DEF Inv
    <3> QED
      BY <2>1, <2>2, <3>1, <3>2
  <2> QED
    BY <2>1, <2>3, <2>4
<1> QED
  BY Start, BoundsInit, BoundsStep, <1>1, PTL DEF Spec
=============================================================================
