------------------------------- MODULE Lockout -------------------------------
(***************************************************************************)
(* Failed passwords and the locks they bring: the table login_failures.    *)
(* A name is counted in two places, once for logins and once for password  *)
(* prompts inside a session (the prefix "reauth:"), so that mistakes in    *)
(* one do not close the other.                                             *)
(*                                                                         *)
(* The lock is read, the password compared and the result recorded in      *)
(* three steps, and several web workers do so at once.  Times are kept as  *)
(* ticks that are left or gone, both capped, so that time has no end.      *)
(***************************************************************************)
EXTENDS Naturals

CONSTANTS
    Names,      \* user names
    Checkers,   \* password checks in progress together
    LockRules,  \* _LOCK_RULES: pairs of a number of failures and a lock, in ticks
    Decay       \* _DECAY_HOURS, in ticks

Thresholds == {p[1] : p \in LockRules}
Windows    == {p[2] : p \in LockRules}

ASSUME RulesAssumption ==
    /\ LockRules \subseteq (Nat \ {0, 1}) \X (Nat \ {0})
    /\ \A p, q \in LockRules : p[1] < q[1] => p[2] < q[2]
    /\ \A p, q \in LockRules : p[1] = q[1] => p = q
    /\ LockRules # {} /\ Decay \in Nat
    \* The highest of finitely many.
    /\ \E top \in Thresholds : \A n \in Thresholds : n <= top

\* Failures beyond the last threshold change nothing any more.
Cap     == 1 + CHOOSE top \in Thresholds : \A n \in Thresholds : n <= top
Longest == CHOOSE top \in Windows : \A n \in Windows : n <= top

Spaces == {"login", "reauth"} \X Names

VARIABLES
    count,      \* failure_count, 0 without a row
    age,        \* ticks since first_failure_at
    left,       \* ticks until locked_until, 0 when that is past
    attempt     \* the password check of each worker

lockVars == <<count, age, left, attempt>>

NoAttempt == [step |-> "idle"]
Attempts  == [step : {"ask", "auth", "hit", "verify", "count", "clear"},
              kind : {"login", "reauth"}, name : Names]

LockTypeOK ==
    /\ count \in [Spaces -> 0..Cap]
    /\ age \in [Spaces -> 0..(Decay + 1)]
    /\ left \in [Spaces -> 0..Longest]
    /\ attempt \in [Checkers -> Attempts \union {NoAttempt}]

LockInit ==
    /\ count = [s \in Spaces |-> 0]
    /\ age = [s \in Spaces |-> 0]
    /\ left = [s \in Spaces |-> 0]
    /\ attempt = [w \in Checkers |-> NoAttempt]

\* _window_for_count: the strictest rule that n failures reach.
Reached(n) == {p \in LockRules : p[1] <= n}
WindowFor(n) ==
    IF Reached(n) = {} THEN 0
    ELSE CHOOSE l \in {p[2] : p \in Reached(n)} : \A p \in Reached(n) : p[2] <= l

Locked(s) == left[s] > 0

\* Mutated form: a count decays although the name is locked.
DecaysLocked(s) == count[s] > 0 /\ age[s] > Decay

\* _apply_decay: old failures are forgotten, unless the name is locked.
Decays(s) == count[s] > 0 /\ age[s] > Decay /\ ~Locked(s)

\* Mutated form: every failure starts the lock again.
PromotesAlways(s, n) == WindowFor(n) > 0

\* _apply_lockout: a lock that runs is only replaced by a longer one.
Promotes(s, n) ==
    /\ WindowFor(n) > 0
    /\ ~Locked(s) \/ WindowFor(n - 1) = 0 \/ WindowFor(n) > WindowFor(n - 1)

\* Mutated form: what decays takes the lock's row with it, not the lock.
FailureForgetsCount(s) ==
    /\ count' = [count EXCEPT ![s] = IF Decays(s) \/ @ = Cap THEN 1 ELSE @ + 1]
    /\ age' = [age EXCEPT ![s] = IF count[s] = 0 \/ Decays(s) THEN 0 ELSE @]
    /\ left' = [left EXCEPT ![s] = IF Promotes(s, count'[s]) THEN WindowFor(count'[s]) ELSE @]

\* record_failure, one transaction.
Failure(s) ==
    LET n == IF Decays(s) THEN 1 ELSE IF count[s] < Cap THEN count[s] + 1 ELSE Cap
    IN  /\ count' = [count EXCEPT ![s] = n]
        /\ age' = [age EXCEPT ![s] = IF count[s] = 0 \/ Decays(s) THEN 0 ELSE @]
        /\ left' = [left EXCEPT ![s] = IF Decays(s) THEN 0
                                       ELSE IF Promotes(s, n) THEN WindowFor(n) ELSE @]

\* record_success deletes the row.
Success(s) ==
    /\ count' = [count EXCEPT ![s] = 0]
    /\ age' = [age EXCEPT ![s] = 0]
    /\ left' = [left EXCEPT ![s] = 0]

Own(w)      == <<attempt[w].kind, attempt[w].name>>
Doing(w, s)    == attempt[w].step = s
Goto(w, s)  == attempt' = [attempt EXCEPT ![w].step = s]
Finished(w) == attempt' = [attempt EXCEPT ![w] = NoAttempt]
rowsUnchanged == UNCHANGED <<count, age, left>>

-----------------------------------------------------------------------------
(* authenticate from the login form; verify_reauth_password and            *)
(* change_password from inside a session.                                  *)

Begin(w, k, u) ==
    /\ Doing(w, "idle")
    /\ attempt' = [attempt EXCEPT ![w] = [step |-> "ask", kind |-> k, name |-> u]]
    /\ rowsUnchanged

\* is_locked_out on the caller's own space.
Ask(w) ==
    /\ Doing(w, "ask")
    /\ Goto(w, IF Locked(Own(w)) THEN "count"
               ELSE IF attempt[w].kind = "login" THEN "verify" ELSE "auth")
    /\ rowsUnchanged

\* A prompt goes through authenticate, which looks at the login's lock too.
AskLogin(w) ==
    /\ Doing(w, "auth")
    /\ Goto(w, IF Locked(<<"login", attempt[w].name>>) THEN "hit" ELSE "verify")
    /\ rowsUnchanged

\* A locked login counts whoever knocks, the prompt included.
HitLockedLogin(w) ==
    /\ Doing(w, "hit")
    /\ Failure(<<"login", attempt[w].name>>)
    /\ Goto(w, "count")

CountFailure(w) ==
    /\ Doing(w, "count")
    /\ Failure(Own(w))
    /\ Finished(w)

VerifyWrong(w) ==
    /\ Doing(w, "verify")
    /\ Failure(Own(w))
    /\ Finished(w)

\* The right password clears the login's row, whatever asked for it.
VerifyRight(w) ==
    /\ Doing(w, "verify")
    /\ Success(<<"login", attempt[w].name>>)
    /\ IF attempt[w].kind = "login" THEN Finished(w) ELSE Goto(w, "clear")

\* A change that the password policy refuses, or whose user is gone, leaves the
\* row of the prompts.
ClearPrompt(w) ==
    /\ Doing(w, "clear")
    /\ Success(Own(w)) \/ rowsUnchanged
    /\ Finished(w)

\* admin_unlock knows the login's row only.
AdminUnlock(u) ==
    /\ count[<<"login", u>>] > 0
    /\ Success(<<"login", u>>)
    /\ UNCHANGED attempt

LockTick ==
    /\ left' = [s \in Spaces |-> IF left[s] > 0 THEN left[s] - 1 ELSE 0]
    /\ age' = [s \in Spaces |-> IF count[s] > 0 /\ age[s] <= Decay THEN age[s] + 1 ELSE age[s]]
    /\ UNCHANGED <<count, attempt>>

AttemptStep(w) ==
    \/ Ask(w) \/ AskLogin(w) \/ HitLockedLogin(w) \/ CountFailure(w)
    \/ VerifyWrong(w) \/ VerifyRight(w) \/ ClearPrompt(w)

LockNext ==
    \/ LockTick
    \/ \E u \in Names : AdminUnlock(u)
    \/ \E w \in Checkers : AttemptStep(w) \/ \E s \in Spaces : Begin(w, s[1], s[2])

LockSpec == LockInit /\ [][LockNext]_lockVars

\* Time passes.  Nobody has to stop guessing.
LockFairSpec == LockSpec /\ WF_lockVars(LockTick)

-----------------------------------------------------------------------------
(* Properties. *)

\* A lock is never longer than the failures on record call for: a lock of the
\* last rule takes as many failures, whatever decayed or was cleared meanwhile.
LockFitsCount ==
    /\ LockTypeOK
    /\ \A s \in Spaces : left[s] <= WindowFor(count[s])

\* A lock that runs is not cut short by further failures, by old age or by
\* another request's failure: only the right password or an admin ends it.
LockNeverShortens ==
    [][\A s \in Spaces :
         left[s] > 0 => \/ left'[s] >= left[s]
                        \/ LockTick /\ left'[s] = left[s] - 1
                        \/ count'[s] = 0]_lockVars

\* login_lockout.py: failures that do not cross a threshold must not keep an
\* account locked for ever.  A lock ends although the guessing goes on.
LocksEnd == \A s \in Spaces : left[s] > 0 ~> left[s] = 0
=============================================================================
