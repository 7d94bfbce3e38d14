-------------------------- MODULE MCOtpVerification --------------------------
(* The constants of the runs that check OtpVerification. *)
EXTENDS OtpVerification, TLC

Symmetry == Permutations(Requests)

(***************************************************************************)
(* The state without what no later step reads: the guess of a request that *)
(* no longer compares, and the lifetime of one that has set it, which the  *)
(* next verification overwrites.                                           *)
(***************************************************************************)
View ==
    LET Comparing == {"check", "get", "accept", "del", "reset"}
        Counting  == {"incr", "expire"}
    IN  <<otp, otpTTL, attempts, attemptsTTL, codes, pc, crashes, faults, wrongs, uses, overlap,
          [r \in Requests |-> IF pc[r] \in Comparing THEN guess[r] ELSE NoCode],
          [r \in Requests |-> IF pc[r] \in Counting THEN ttl[r] ELSE Lifetime]>>
=============================================================================
