--------------------------- MODULE EmailVerification ---------------------------
(***************************************************************************)
(* One account's address and its verification codes: the transactions of   *)
(* internal/auth/email_verification.go and profile.go, which lock its row  *)
(* of users.  A code is named by its number in the order of creation; 0    *)
(* stands for anything else a user may type, also for the code of a mail   *)
(* whose transaction was rolled back.                                      *)
(*                                                                         *)
(*   account.codes[i]  a row of email_verification_tokens: attempts_count, *)
(*                     used_at and expires_at                              *)
(***************************************************************************)
EXTENDS Naturals, Sequences

CONSTANTS
  Names,       \* contact data: numbers, 0 for empty ones
  MaxAttempts  \* max_attempts (5)

Code == [attempts : 0..MaxAttempts, used : BOOLEAN, expired : BOOLEAN]
Me == [verified : BOOLEAN, name : Names]
Account == [me : Me, codes : Seq(Code)]

Fresh == [attempts |-> 0, used |-> FALSE, expired |-> FALSE]

Unused(a) == {i \in DOMAIN a.codes : ~a.codes[i].used}
Latest(a) == CHOOSE i \in Unused(a) : \A j \in Unused(a) : j <= i

Use(a, i) == [a EXCEPT !.codes[i].used = TRUE]

-----------------------------------------------------------------------------
\* Mutant: the codes made before stay.
RequestedKeepingOld(a) == [a EXCEPT !.codes = Append(@, Fresh)]

\* RequestEmailVerification: the codes made before are used up.
Requested(a) ==
  [a EXCEPT !.codes = Append([i \in DOMAIN @ |-> [@[i] EXCEPT !.used = TRUE]], Fresh)]

\* ConfirmEmailVerification against the newest code that is not used up.
Verdict(a, c) ==
  IF Unused(a) = {} THEN "invalid"
  ELSE LET i == Latest(a)  row == a.codes[i]
       IN IF row.expired THEN "expired"
          ELSE IF row.attempts >= MaxAttempts THEN "exceeded"
          ELSE IF c = i THEN "ok"
          ELSE IF row.attempts + 1 >= MaxAttempts THEN "exceeded" ELSE "invalid"

Confirmed(a, c) ==
  LET i == Latest(a)
      counted == [a EXCEPT !.codes[i].attempts = IF @ < MaxAttempts THEN @ + 1 ELSE @]
  IN CASE Unused(a) = {}              -> a
       [] Verdict(a, c) = "ok"        -> [Use(a, i) EXCEPT !.me.verified = TRUE]
       [] Verdict(a, c) = "expired"   -> Use(a, i)
       [] Verdict(a, c) = "exceeded"  -> Use(counted, i)
       [] OTHER                       -> counted

\* UpdateProfile
Renamed(a, n) == [a EXCEPT !.me.name = n]
=============================================================================
