--------------------------- MODULE OtpVerification ---------------------------
(***************************************************************************)
(* The one-time codes of one e-mail address and one purpose ("verify",     *)
(* "reset" or "otp") in Redis, and the requests that verify them:          *)
(* VerifyEmail and ResetPassword (internal/controllers/auth.go), VerifyOTP *)
(* (internal/controllers/otp.go) and the attempt counter of                *)
(* internal/services/otp_guard.go.  Every Redis command is a step of its   *)
(* own, any of them may fail, and the server may stop between two of them. *)
(*                                                                         *)
(* Codes are numbers in the order they are issued.  Time passes in ticks,  *)
(* fractions of a second, that count the remaining lifetimes down.         *)
(***************************************************************************)
EXTENDS Integers, FiniteSets

CONSTANTS
    Requests,    \* the verifications that can be in flight at the same time
    MaxAttempts, \* OTP_MAX_ATTEMPTS
    Second,      \* the ticks in a second: Redis keeps milliseconds
    Lifetime,    \* the ticks a code lives (15 or 5 minutes)
    MaxCodes,    \* bound: codes issued
    MaxFaults,   \* bound: restarts of the server and Redis commands that fail
    Cap          \* bound: the history variables count no further

ASSUME OtpAssumption ==
    /\ IsFiniteSet(Requests)
    /\ MaxAttempts \in Nat \ {0}
    /\ {Second, Lifetime} \subseteq Nat \ {0} /\ Lifetime % Second = 0
    /\ MaxCodes \in Nat \ {0} /\ MaxFaults \in Nat
    /\ Cap \in Nat /\ Cap > MaxAttempts

NoCode == 0   \* no code is stored; also a guess that no code matches
Forever == -1 \* a key without an expiry

VARIABLES
    otp,         \* the stored code, or NoCode
    otpTTL,      \* its remaining lifetime
    attempts,    \* the counter otp_attempts:<purpose>:<email>; 0 when absent
    attemptsTTL, \* its remaining lifetime, or Forever
    codes,       \* the codes issued so far
    pc,          \* per request, the command it executes next
    guess,       \* per request, the code it was sent
    ttl,         \* per request, the lifetime it will give the counter
    crashes,     \* restarts so far, for MaxFaults
    faults,      \* failed commands so far, for MaxFaults
    wrongs,      \* history: per code, the comparisons that failed
    uses,        \* history: per code, the requests that accepted it
    overlap      \* history: whether two verifications have been in flight at once

vars == <<otp, otpTTL, attempts, attemptsTTL, codes, pc, guess, ttl, crashes, faults,
          wrongs, uses, overlap>>

PC == {"idle", "check", "lockout", "get", "ttl", "incr", "expire", "accept", "del", "reset"}

TypeOK ==
    /\ codes \in 0..MaxCodes
    /\ otp \in 0..codes
    /\ otpTTL \in 0..Lifetime
    /\ otp # NoCode <=> otpTTL > 0
    /\ attempts \in Nat
    /\ attemptsTTL \in {Forever} \cup (0..Lifetime)
    /\ attempts > 0 <=> attemptsTTL # 0
    /\ pc \in [Requests -> PC]
    /\ guess \in [Requests -> 0..MaxCodes]
    /\ ttl \in [Requests -> 1..Lifetime]
    /\ crashes \in Nat
    /\ faults \in Nat
    /\ wrongs \in [1..MaxCodes -> 0..Cap]
    /\ uses \in [1..MaxCodes -> 0..Cap]
    /\ overlap \in BOOLEAN

-----------------------------------------------------------------------------
Count(n) == IF n < Cap THEN n + 1 ELSE n

(* Request r goes on at the command next. *)
GoTo(r, next) == pc' = [pc EXCEPT ![r] = next]

(* Register, ResendVerificationOTP, ForgotPassword and SendOTP: SET with   *)
(* the lifetime of a new code.  The counter is not touched.                *)
IssueCode ==
    /\ codes < MaxCodes
    /\ codes' = codes + 1
    /\ otp' = codes + 1
    /\ otpTTL' = Lifetime
    /\ UNCHANGED <<attempts, attemptsTTL, pc, guess, ttl, crashes, faults, wrongs,
                   uses, overlap>>

(* A client sends a code that was issued to it, or another one. *)
Verify(r) ==
    /\ pc[r] = "idle"
    /\ \E g \in 0..codes : guess' = [guess EXCEPT ![r] = g]
    /\ GoTo(r, "check")
    /\ overlap' = (overlap \/ \E q \in Requests : pc[q] # "idle")
    /\ UNCHANGED <<otp, otpTTL, attempts, attemptsTTL, codes, ttl, crashes, faults,
                   wrongs, uses>>

(* Mutant of AttemptsExceeded: one failure too many. *)
AttemptsExceeded_OffByOne == attempts > MaxAttempts

AttemptsExceeded == attempts >= MaxAttempts

CheckAttempts(r) ==
    /\ pc[r] = "check"
    /\ GoTo(r, IF AttemptsExceeded THEN "lockout" ELSE "get")
    /\ UNCHANGED <<otp, otpTTL, attempts, attemptsTTL, codes, guess, ttl, crashes,
                   faults, wrongs, uses, overlap>>

(* DEL of the stored code, whichever it is by now, and the answer 429. *)
Lockout(r) ==
    /\ pc[r] = "lockout"
    /\ otp' = NoCode
    /\ otpTTL' = 0
    /\ GoTo(r, "idle")
    /\ UNCHANGED <<attempts, attemptsTTL, codes, guess, ttl, crashes, faults, wrongs,
                   uses, overlap>>

(* GET of the code; it is compared with the guess. *)
GetCode(r) ==
    /\ pc[r] = "get"
    /\ \/ otp = NoCode /\ GoTo(r, "idle") /\ UNCHANGED wrongs
       \/ otp # NoCode /\ otp = guess[r] /\ GoTo(r, "accept") /\ UNCHANGED wrongs
       \/ /\ otp \notin {NoCode, guess[r]}
          /\ GoTo(r, "ttl")
          /\ wrongs' = [wrongs EXCEPT ![otp] = Count(@)]
    /\ UNCHANGED <<otp, otpTTL, attempts, attemptsTTL, codes, guess, ttl, crashes,
                   faults, uses, overlap>>

(* Redis answers TTL with whole seconds, the nearest ones. *)
Rounded(n) == ((n + Second \div 2) \div Second) * Second

(* What this takes off at most: just under half a second. *)
Half == (Second - 1) \div 2

(* Mutant of RemainingTTL: the seconds that are over do not count. *)
RemainingTTL_Truncated ==
    LET left == (otpTTL \div Second) * Second IN IF left > 0 THEN left ELSE Lifetime

(***************************************************************************)
(* TTL of the stored code.  When it is gone, or gone within less than half *)
(* a second, the answer is not positive and the lifetime of a new code is  *)
(* taken.                                                                  *)
(***************************************************************************)
RemainingTTL ==
    LET left == Rounded(otpTTL) IN IF left > 0 THEN left ELSE Lifetime

ReadTTL(r) ==
    /\ pc[r] = "ttl"
    /\ ttl' = [ttl EXCEPT ![r] = RemainingTTL]
    /\ GoTo(r, "incr")
    /\ UNCHANGED <<otp, otpTTL, attempts, attemptsTTL, codes, guess, crashes, faults,
                   wrongs, uses, overlap>>

(* INCR creates the counter without an expiry. *)
Incr(r) ==
    /\ pc[r] = "incr"
    /\ attempts' = attempts + 1
    /\ attemptsTTL' = IF attempts = 0 THEN Forever ELSE attemptsTTL
    /\ GoTo(r, "expire")
    /\ UNCHANGED <<otp, otpTTL, codes, guess, ttl, crashes, faults, wrongs, uses,
                   overlap>>

(* Mutant of Expire: the counter keeps the expiry it has. *)
Expire_Skipped(r) ==
    /\ pc[r] = "expire"
    /\ GoTo(r, "idle")
    /\ UNCHANGED <<otp, otpTTL, attempts, attemptsTTL, codes, guess, ttl, crashes,
                   faults, wrongs, uses, overlap>>

(* EXPIRE of the counter, unless it is gone, and the answer 400. *)
Expire(r) ==
    /\ pc[r] = "expire"
    /\ attemptsTTL' = IF attempts > 0 THEN ttl[r] ELSE 0
    /\ GoTo(r, "idle")
    /\ UNCHANGED <<otp, otpTTL, attempts, codes, guess, ttl, crashes, faults, wrongs,
                   uses, overlap>>

(* The user is looked up and updated: verified and active, or with the new  *)
(* password.                                                               *)
Accept(r) ==
    /\ pc[r] = "accept"
    /\ uses' = [uses EXCEPT ![guess[r]] = Count(@)]
    /\ GoTo(r, "del")
    /\ UNCHANGED <<otp, otpTTL, attempts, attemptsTTL, codes, guess, ttl, crashes,
                   faults, wrongs, overlap>>

(* There is no such user or the update fails: the code stays. *)
AcceptFails(r) ==
    /\ pc[r] = "accept"
    /\ GoTo(r, "idle")
    /\ UNCHANGED <<otp, otpTTL, attempts, attemptsTTL, codes, guess, ttl, crashes,
                   faults, wrongs, uses, overlap>>

(* Mutant of DeleteCode: the code that was used stays. *)
DeleteCode_Keeps(r) ==
    /\ pc[r] = "del"
    /\ GoTo(r, "reset")
    /\ UNCHANGED <<otp, otpTTL, attempts, attemptsTTL, codes, guess, ttl, crashes,
                   faults, wrongs, uses, overlap>>

(* DEL of the stored code, whichever it is by now. *)
DeleteCode(r) ==
    /\ pc[r] = "del"
    /\ otp' = NoCode
    /\ otpTTL' = 0
    /\ GoTo(r, "reset")
    /\ UNCHANGED <<attempts, attemptsTTL, codes, guess, ttl, crashes, faults, wrongs,
                   uses, overlap>>

(* DEL of the counter, and the answer 200. *)
Reset(r) ==
    /\ pc[r] = "reset"
    /\ attempts' = 0
    /\ attemptsTTL' = 0
    /\ GoTo(r, "idle")
    /\ UNCHANGED <<otp, otpTTL, codes, guess, ttl, crashes, faults, wrongs, uses,
                   overlap>>

(* Where a request goes on when the error of a command is not looked at: a  *)
(* counter that cannot be read does not lock out (it fails open).           *)
AfterFault == [check |-> "get", ttl |-> "incr", incr |-> "expire", expire |-> "idle",
               lockout |-> "idle", get |-> "idle", del |-> "reset", reset |-> "idle"]

(* A Redis command of r fails.  Without the TTL of the code the lifetime of *)
(* a new one is taken; VerifyOTP answers 500 when its DEL fails.            *)
CommandFails(r) ==
    /\ crashes + faults < MaxFaults
    /\ faults' = faults + 1
    /\ pc[r] \in DOMAIN AfterFault
    /\ \/ GoTo(r, AfterFault[pc[r]])
       \/ pc[r] = "del" /\ GoTo(r, "idle")
    /\ ttl' = IF pc[r] = "ttl" THEN [ttl EXCEPT ![r] = Lifetime] ELSE ttl
    /\ UNCHANGED <<otp, otpTTL, attempts, attemptsTTL, codes, guess, crashes, wrongs,
                   uses, overlap>>

(* Mutant of Elapsed: a key that is gone expires once more. *)
Elapsed_PastZero(n) == n - 1

Elapsed(n) == IF n > 0 THEN n - 1 ELSE n

(* Time passes; Redis drops the keys whose lifetime is over. *)
Tick ==
    /\ otpTTL > 0 \/ attemptsTTL > 0
    /\ otpTTL' = Elapsed(otpTTL)
    /\ attemptsTTL' = Elapsed(attemptsTTL)
    /\ otp' = IF otpTTL' = 0 THEN NoCode ELSE otp
    /\ attempts' = IF attemptsTTL' = 0 THEN 0 ELSE attempts
    /\ UNCHANGED <<codes, pc, guess, ttl, crashes, faults, wrongs, uses, overlap>>

(* The server restarts; Redis keeps its keys. *)
Crash ==
    /\ crashes + faults < MaxFaults
    /\ crashes' = crashes + 1
    /\ pc' = [r \in Requests |-> "idle"]
    /\ UNCHANGED <<otp, otpTTL, attempts, attemptsTTL, codes, guess, ttl, faults,
                   wrongs, uses, overlap>>

-----------------------------------------------------------------------------
Init ==
    /\ otp = NoCode /\ otpTTL = 0
    /\ attempts = 0 /\ attemptsTTL = 0
    /\ codes = 0
    /\ pc = [r \in Requests |-> "idle"]
    /\ guess = [r \in Requests |-> NoCode]
    /\ ttl = [r \in Requests |-> Lifetime]
    /\ crashes = 0
    /\ faults = 0
    /\ wrongs = [n \in 1..MaxCodes |-> 0]
    /\ uses = [n \in 1..MaxCodes |-> 0]
    /\ overlap = FALSE

Step(r) ==
    \/ CheckAttempts(r)
    \/ Lockout(r)
    \/ GetCode(r)
    \/ ReadTTL(r)
    \/ Incr(r)
    \/ Expire(r)
    \/ Accept(r)
    \/ AcceptFails(r)
    \/ DeleteCode(r)
    \/ Reset(r)

Next ==
    \/ IssueCode
    \/ \E r \in Requests : Verify(r) \/ Step(r) \/ CommandFails(r)
    \/ Tick
    \/ Crash

Spec == Init /\ [][Next]_vars

-----------------------------------------------------------------------------
(* Properties *)

(***************************************************************************)
(* The counters that a code has had: it may get a second one in its last   *)
(* half second, because the lifetime of the first one was rounded down.    *)
(***************************************************************************)
Counters(n) == IF otp = n /\ otpTTL > Half THEN 1 ELSE 2

(***************************************************************************)
(* A code is compared with at most OTP_MAX_ATTEMPTS wrong guesses for each *)
(* counter it has had, and few more when things overlap or go wrong, as    *)
(* long as no code was accepted (which resets the counter).  Requests side *)
(* by side that have all passed the check may each add one.  A counter     *)
(* that was begun for an earlier code may expire between the INCR and the  *)
(* EXPIRE of a request, with the failure just added to it.  A restart      *)
(* loses the failures compared and not yet counted, and a Redis command    *)
(* that fails one failure or check.  When requests overlap, only the first *)
(* code has a bound of this kind.                                          *)
(***************************************************************************)
GuessesBounded ==
    (\A n \in 1..MaxCodes : uses[n] = 0) =>
        /\ wrongs[1] <= Counters(1) * (MaxAttempts + Cardinality(Requests) - 1)
                          + Cardinality(Requests) * crashes + faults
        /\ ~overlap => \A n \in 2..MaxCodes :
                          wrongs[n] <= Counters(n) * MaxAttempts + 1 + crashes + faults

(***************************************************************************)
(* While the first code lives and nothing has failed, the counter covers   *)
(* it between requests, however the commands interleaved: up to the last   *)
(* half second it has counted every wrong guess at the code, and it is     *)
(* gone less than half a second before the code, if at all.                *)
(***************************************************************************)
CounterCoversCode ==
    (\A r \in Requests : pc[r] = "idle") /\ otp = 1 /\ crashes = 0 /\ faults = 0 =>
        /\ otpTTL > Half => wrongs[1] <= attempts
        /\ attempts > 0 => attemptsTTL + Half >= otpTTL

(***************************************************************************)
(* A code is accepted again only by a request that had read it before it   *)
(* was deleted, or when the deletion did not come to pass.                 *)
(***************************************************************************)
UsesBounded ==
    \A n \in 1..MaxCodes :
        uses[n] <= (IF overlap THEN Cardinality(Requests) ELSE 1) * (1 + crashes) + faults

(***************************************************************************)
(* A lockout always ends by itself: a counter without an expiry has a      *)
(* request that is about to give it one, unless a restart or a failing     *)
(* command came in between.                                                *)
(***************************************************************************)
LockoutEnds ==
    attemptsTTL = Forever =>
        crashes + faults > 0 \/ \E r \in Requests : pc[r] = "expire"
=============================================================================
