--------------------------- MODULE ProgressProofs ----------------------------
(***************************************************************************)
(* Locks, letters and recommendations for any number of names, workers,    *)
(* lock rules that grow, addresses, announced deletions, titles, requests  *)
(* and days.                                                               *)
(***************************************************************************)
EXTENDS Lockout, Newsletter, Suggestions, FiniteSetTheorems, FunctionTheorems,
        WellFoundedInduction, TLAPS

-----------------------------------------------------------------------------
(* The lock rules.                                                         *)

\* A set of naturals that has a bound has a greatest member.
LEMMA GreatestOf ==
    ASSUME NEW S \in SUBSET Nat, S # {}, NEW bound \in Nat, \A n \in S : n <= bound
    PROVE  \E top \in S : \A n \in S : n <= top
<1> DEFINE gaps == {bound - n : n \in S}
<1>0. \A n \in S : n \in Nat /\ bound - n \in Nat
  OBVIOUS
<1>1. gaps \subseteq Nat /\ gaps # {}
  BY <1>0
<1>2. IsWellFoundedOn(OpToRel(<, Nat), Nat)
  BY NatLessThanWellFounded
<1>3. \E g \in gaps : \A h \in gaps : ~(<<h, g>> \in OpToRel(<, Nat))
  BY <1>1, <1>2, WFMin
<1>4. PICK g \in gaps : \A h \in gaps : ~(h < g)
  BY <1>1, <1>3 DEF OpToRel
<1>5. PICK top \in S : g = bound - top
  OBVIOUS
<1>6. ASSUME NEW n \in S PROVE n <= top
  <2>1. bound - n \in gaps
    OBVIOUS
  <2>2. ~(bound - n < bound - top)
    BY <1>4, <1>5, <2>1
  <2> QED
    BY <1>0, <2>2
<1> QED
  BY <1>6

\* The rules that n failures reach have one with the longest lock, the one
\* with the highest threshold, and its lock is what _window_for_count returns.
LEMMA WindowIs ==
    ASSUME NEW n \in Nat, Reached(n) # {}
    PROVE  \E p \in Reached(n) : WindowFor(n) = p[2] /\ \A q \in Reached(n) : q[2] <= p[2]
<1> DEFINE T == {p[1] : p \in Reached(n)}
<1>1. \A p \in LockRules : p[1] \in Nat /\ p[2] \in Nat
  BY RulesAssumption
<1>2. \E top \in T : \A m \in T : m <= top
  <2>1. T \in SUBSET Nat /\ T # {} /\ \A m \in T : m <= n
    BY <1>1 DEF Reached
  <2> HIDE DEF T
  <2> QED
    BY <2>1, GreatestOf
<1>3. PICK p \in Reached(n) : \A q \in Reached(n) : q[1] <= p[1]
  BY <1>2
<1>4. \A q \in Reached(n) : q[2] <= p[2]
  <2> SUFFICES ASSUME NEW q \in Reached(n) PROVE q[2] <= p[2]
    OBVIOUS
  <2>1. q \in LockRules /\ p \in LockRules /\ (q[1] < p[1] \/ q[1] = p[1])
    BY <1>1, <1>3 DEF Reached
  <2> QED
    BY <1>1, <2>1, RulesAssumption
<1> DEFINE W == {q[2] : q \in Reached(n)}
           longest(l) == \A q \in Reached(n) : q[2] <= l
<1>5. p[2] \in W /\ longest(p[2])
  BY <1>4
<1>6. WindowFor(n) = CHOOSE l \in W : longest(l)
  BY DEF WindowFor
<1>7. WindowFor(n) \in W /\ longest(WindowFor(n))
  <2> HIDE DEF W, longest
  <2> QED
    BY <1>5, <1>6
<1>8. PICK r \in Reached(n) : WindowFor(n) = r[2]
  BY <1>7
<1> QED
  BY <1>7, <1>8

\* Locks are numbers of ticks, and no count calls for one beyond the last rule.
LEMMA LongestIs ==
    /\ Longest \in Nat /\ \A p \in LockRules : p[2] \in Nat /\ p[2] <= Longest
    /\ Cap \in Nat \ {0}
<1>1. \A p \in LockRules : p[1] \in Nat /\ p[2] \in Nat
  BY RulesAssumption
<1>2. PICK top \in Thresholds : \A n \in Thresholds : n <= top
  BY RulesAssumption
<1>3. PICK p \in LockRules : p[1] = top
  BY <1>2 DEF Thresholds
<1>4. \A q \in LockRules : q[2] <= p[2]
  <2> SUFFICES ASSUME NEW q \in LockRules PROVE q[2] <= p[2]
    OBVIOUS
  <2>1. q[1] < p[1] \/ q[1] = p[1]
    <3>1. q[1] \in Thresholds
      BY DEF Thresholds
    <3>2. q[1] <= p[1]
      BY <1>2, <1>3, <3>1
    <3> QED
      BY <1>1, <3>2
  <2> QED
    BY <1>1, <2>1, RulesAssumption
<1> DEFINE longest(l) == \A n \in Windows : n <= l
           highest(l) == \A n \in Thresholds : n <= l
<1>5. p[2] \in Windows /\ longest(p[2])
  BY <1>4 DEF Windows
<1>6. Longest = CHOOSE l \in Windows : longest(l)
  BY DEF Longest
<1>7. Longest \in Windows /\ longest(Longest)
  <2> HIDE DEF longest
  <2> QED
    BY <1>5, <1>6
<1>8. Cap = 1 + CHOOSE l \in Thresholds : highest(l)
  BY DEF Cap
<1>9. \E l \in Thresholds : Cap = 1 + l
  <2>1. top \in Thresholds /\ highest(top)
    BY <1>2
  <2> HIDE DEF highest
  <2>2. (CHOOSE l \in Thresholds : highest(l)) \in Thresholds
    BY <2>1
  <2> QED
    BY <1>8, <2>2
<1>10. Cap \in Nat \ {0}
  BY <1>1, <1>9 DEF Thresholds
<1> QED
  BY <1>1, <1>7, <1>10 DEF Windows

\* More failures never call for a shorter lock.
LEMMA WindowGrows ==
    ASSUME NEW m \in Nat, NEW n \in Nat, m <= n
    PROVE  WindowFor(m) <= WindowFor(n) /\ WindowFor(n) \in 0..Longest /\ WindowFor(m) \in 0..Longest
<1>1. \A k \in Nat : WindowFor(k) \in 0..Longest
  <2> SUFFICES ASSUME NEW k \in Nat PROVE WindowFor(k) \in 0..Longest
    OBVIOUS
  <2>1. CASE Reached(k) = {}
    BY <2>1, LongestIs DEF WindowFor
  <2>2. CASE Reached(k) # {}
    <3>1. PICK p \in Reached(k) : WindowFor(k) = p[2]
      BY <2>2, WindowIs
    <3> QED
      BY <3>1, LongestIs DEF Reached
  <2> QED
    BY <2>1, <2>2
<1>2. Reached(m) \subseteq Reached(n)
  BY RulesAssumption DEF Reached
<1>3. CASE Reached(m) = {}
  <2>1. WindowFor(m) = 0
    BY <1>3 DEF WindowFor
  <2> QED
    BY <1>1, <2>1, LongestIs
<1>4. CASE Reached(m) # {}
  <2>1. PICK p \in Reached(m) : WindowFor(m) = p[2]
    BY <1>4, WindowIs
  <2>2. PICK q \in Reached(n) : WindowFor(n) = q[2] /\ \A r \in Reached(n) : r[2] <= q[2]
    BY <1>2, <1>4, WindowIs
  <2> QED
    BY <1>1, <1>2, <2>1, <2>2
<1> QED
  BY <1>3, <1>4

-----------------------------------------------------------------------------
(* Locks.                                                                  *)

\* The invariant speaks of the rows; a step changes them in one of four ways.
RowsTypeOK ==
    /\ count \in [Spaces -> 0..Cap]
    /\ age \in [Spaces -> 0..(Decay + 1)]
    /\ left \in [Spaces -> 0..Longest]

RowsFit == RowsTypeOK /\ \A s \in Spaces : left[s] <= WindowFor(count[s])

\* A failure counts one up or, when the old ones have decayed, from one, and a
\* lock that runs stays or is replaced by one at least as long.
LEMMA FailureFits ==
    ASSUME RowsFit, NEW s \in Spaces, Failure(s)
    PROVE  /\ RowsFit'
           /\ \A t \in Spaces : left[t] > 0 => left'[t] >= left[t]
<1> DEFINE n == IF Decays(s) THEN 1 ELSE IF count[s] < Cap THEN count[s] + 1 ELSE Cap
           l == IF Decays(s) THEN 0 ELSE IF Promotes(s, n) THEN WindowFor(n) ELSE left[s]
           o == IF count[s] = 0 \/ Decays(s) THEN 0 ELSE age[s]
<1>1. /\ count[s] \in 0..Cap /\ left[s] \in 0..Longest /\ age[s] \in 0..(Decay + 1)
      /\ left[s] <= WindowFor(count[s])
  BY DEF RowsFit, RowsTypeOK
<1>2. count' = [count EXCEPT ![s] = n] /\ age' = [age EXCEPT ![s] = o] /\ left' = [left EXCEPT ![s] = l]
  BY DEF Failure
<1>3. Cap \in Nat \ {0} /\ Longest \in Nat /\ Decay \in Nat
  BY LongestIs, RulesAssumption
<1>4. n \in 0..Cap /\ n \in Nat /\ count[s] \in Nat
  BY <1>1, <1>3
<1>5. ~Decays(s) => count[s] <= n
  BY <1>1, <1>3
<1>6. WindowFor(n) \in 0..Longest
  <2> HIDE DEF n
  <2> QED
    BY <1>4, WindowGrows
<1>7. ~Decays(s) => left[s] <= WindowFor(n)
  <2> HIDE DEF n
  <2>1. ~Decays(s) => WindowFor(count[s]) <= WindowFor(n) /\ WindowFor(count[s]) \in 0..Longest
    BY <1>4, <1>5, WindowGrows
  <2> QED
    BY <1>1, <1>3, <1>6, <2>1
<1>8. /\ l \in 0..Longest /\ l <= WindowFor(n) /\ o \in 0..(Decay + 1)
      /\ left[s] > 0 => l >= left[s]
  <2> HIDE DEF n
  <2> QED
    BY <1>1, <1>3, <1>6, <1>7 DEF Decays, Locked
<1> HIDE DEF n, l, o
<1>9. RowsTypeOK'
  BY <1>2, <1>4, <1>8 DEF RowsFit, RowsTypeOK
<1>10. \A t \in Spaces : IF t = s THEN count'[t] = n /\ left'[t] = l
                                  ELSE count'[t] = count[t] /\ left'[t] = left[t]
  BY <1>2 DEF RowsFit, RowsTypeOK
<1>11. \A t \in Spaces : left'[t] <= WindowFor(count'[t])
  BY <1>8, <1>10 DEF RowsFit
<1>12. \A t \in Spaces : left[t] > 0 => left'[t] >= left[t]
  <2>1. \A t \in Spaces : left[t] \in 0..Longest
    BY DEF RowsFit, RowsTypeOK
  <2> QED
    BY <1>3, <1>8, <1>10, <2>1
<1> QED
  BY <1>9, <1>11, <1>12 DEF RowsFit

\* A success, or an admin, clears one row; the others stay.
LEMMA SuccessFits ==
    ASSUME RowsFit, NEW s \in Spaces, Success(s)
    PROVE  /\ RowsFit'
           /\ \A t \in Spaces : left'[t] = left[t] \/ count'[t] = 0
<1>1. Cap \in Nat \ {0} /\ Longest \in Nat /\ Decay \in Nat /\ WindowFor(0) \in 0..Longest
  BY LongestIs, WindowGrows, RulesAssumption
<1>2. RowsTypeOK'
  BY <1>1 DEF Success, RowsFit, RowsTypeOK
<1>3. \A t \in Spaces : IF t = s THEN count'[t] = 0 /\ left'[t] = 0
                                 ELSE count'[t] = count[t] /\ left'[t] = left[t]
  BY DEF Success, RowsFit, RowsTypeOK
<1> QED
  BY <1>1, <1>2, <1>3 DEF RowsFit

\* Time takes a tick off the locks.
LEMMA TickFits ==
    ASSUME RowsFit, LockTick
    PROVE  /\ RowsFit'
           /\ \A t \in Spaces : left[t] > 0 => left'[t] = left[t] - 1
<1>1. Cap \in Nat \ {0} /\ Longest \in Nat /\ Decay \in Nat
  BY LongestIs, RulesAssumption
<1>2. \A t \in Spaces :
         /\ left[t] \in 0..Longest /\ age[t] \in 0..(Decay + 1)
         /\ count[t] \in Nat /\ WindowFor(count[t]) \in 0..Longest
  <2>1. \A t \in Spaces : count[t] \in Nat
    BY <1>1 DEF RowsFit, RowsTypeOK
  <2> QED
    BY <2>1, WindowGrows DEF RowsFit, RowsTypeOK
<1>3. \A t \in Spaces :
         /\ (IF left[t] > 0 THEN left[t] - 1 ELSE 0) \in 0..Longest
         /\ (IF count[t] > 0 /\ age[t] <= Decay THEN age[t] + 1 ELSE age[t]) \in 0..(Decay + 1)
  BY <1>1, <1>2
<1>4. RowsTypeOK'
  BY <1>3 DEF LockTick, RowsFit, RowsTypeOK
<1>5. \A t \in Spaces : /\ left'[t] = IF left[t] > 0 THEN left[t] - 1 ELSE 0
                        /\ count'[t] = count[t]
  BY DEF LockTick
<1>6. \A t \in Spaces : left'[t] <= WindowFor(count'[t])
  BY <1>1, <1>2, <1>5 DEF RowsFit
<1> QED
  BY <1>4, <1>5, <1>6 DEF RowsFit

\* What a step of the module does to the rows.
RowsStep ==
    \/ UNCHANGED <<count, age, left>> \/ LockTick
    \/ \E s \in Spaces : Failure(s) \/ Success(s)

\* Every step is one of these, made by a check in a step of its own.
LEMMA LockSteps ==
    ASSUME LockTypeOK, [LockNext]_lockVars
    PROVE  RowsStep /\ attempt' \in [Checkers -> Attempts \union {NoAttempt}]
<1> USE DEF RowsStep
<1>1. CASE UNCHANGED lockVars
  BY <1>1 DEF lockVars, LockTypeOK
<1>2. CASE LockTick
  BY <1>2 DEF LockTick, LockTypeOK
<1>3. ASSUME NEW u \in Names, AdminUnlock(u)
      PROVE  RowsStep /\ attempt' \in [Checkers -> Attempts \union {NoAttempt}]
  BY <1>3 DEF AdminUnlock, Spaces, LockTypeOK
<1>4. ASSUME NEW w \in Checkers, NEW s \in Spaces, Begin(w, s[1], s[2])
      PROVE  RowsStep /\ attempt' \in [Checkers -> Attempts \union {NoAttempt}]
  <2>1. [step |-> "ask", kind |-> s[1], name |-> s[2]] \in Attempts
    BY DEF Spaces, Attempts
  <2> QED
    BY <1>4, <2>1 DEF Begin, rowsUnchanged, LockTypeOK
<1>5. ASSUME NEW w \in Checkers, AttemptStep(w)
      PROVE  RowsStep /\ attempt' \in [Checkers -> Attempts \union {NoAttempt}]
  <2>1. attempt[w] \in Attempts
    <3>1. attempt[w].step # "idle"
      BY <1>5 DEF AttemptStep, Ask, AskLogin, HitLockedLogin, CountFailure, VerifyWrong,
                  VerifyRight, ClearPrompt, Doing
    <3> QED
      BY <3>1 DEF LockTypeOK, NoAttempt
  <2>2. Own(w) \in Spaces /\ <<"login", attempt[w].name>> \in Spaces
    BY <2>1 DEF Own, Spaces, Attempts
  <2>3. ASSUME NEW t \in {"ask", "auth", "hit", "verify", "count", "clear"}, Goto(w, t)
        PROVE  attempt' \in [Checkers -> Attempts \union {NoAttempt}]
    <3>1. [attempt[w] EXCEPT !.step = t] \in Attempts
      BY <2>1 DEF Attempts
    <3> QED
      BY <2>3, <3>1 DEF Goto, LockTypeOK
  <2>4. ASSUME Finished(w)
        PROVE  attempt' \in [Checkers -> Attempts \union {NoAttempt}]
    BY <2>4 DEF Finished, LockTypeOK
  <2>5. attempt' \in [Checkers -> Attempts \union {NoAttempt}]
    BY <1>5, <2>3, <2>4 DEF AttemptStep, Ask, AskLogin, HitLockedLogin, CountFailure, VerifyWrong,
                            VerifyRight, ClearPrompt
  <2>6. RowsStep
    BY <1>5, <2>2 DEF AttemptStep, Ask, AskLogin, HitLockedLogin, CountFailure, VerifyWrong,
                      VerifyRight, ClearPrompt, rowsUnchanged
  <2> QED
    BY <2>5, <2>6
<1> QED
  BY <1>1, <1>2, <1>3, <1>4, <1>5 DEF LockNext

\* The rows fit whatever step is taken.
LEMMA RowsStepFits ==
    ASSUME RowsFit, RowsStep
    PROVE  RowsFit'
<1>1. CASE UNCHANGED <<count, age, left>>
  BY <1>1 DEF RowsFit, RowsTypeOK
<1> QED
  BY <1>1, TickFits, FailureFits, SuccessFits DEF RowsStep

\* In every reachable state, whatever the order in which the workers' checks,
\* the admin and the clock interleave, a lock is at most as long as the
\* failures on record call for.
THEOREM LockFitsCountAlways == LockSpec => []LockFitsCount
<1>1. LockFitsCount <=> RowsFit /\ attempt \in [Checkers -> Attempts \union {NoAttempt}]
  BY DEF LockFitsCount, LockTypeOK, RowsFit, RowsTypeOK
<1>2. LockInit => LockFitsCount
  <2>1. Cap \in Nat \ {0} /\ Longest \in Nat /\ Decay \in Nat /\ WindowFor(0) \in 0..Longest
    BY LongestIs, WindowGrows, RulesAssumption
  <2> QED
    BY <2>1 DEF LockInit, LockFitsCount, LockTypeOK
<1>3. LockFitsCount /\ [LockNext]_lockVars => LockFitsCount'
  <2>1. LockFitsCount /\ [LockNext]_lockVars =>
           RowsFit' /\ attempt' \in [Checkers -> Attempts \union {NoAttempt}]
    BY <1>1, LockSteps, RowsStepFits DEF LockFitsCount
  <2> QED
    BY <2>1 DEF LockFitsCount, LockTypeOK, RowsFit, RowsTypeOK
<1> QED
  BY <1>2, <1>3, PTL DEF LockSpec

\* A running lock ends by time, by the right password or by an admin: no
\* further failure and no decay cuts it short.
THEOREM LockNeverShortensAlways == LockSpec => LockNeverShortens
<1>1. LockFitsCount /\ [LockNext]_lockVars =>
        [\A s \in Spaces :
           left[s] > 0 => \/ left'[s] >= left[s]
                          \/ LockTick /\ left'[s] = left[s] - 1
                          \/ count'[s] = 0]_lockVars
  <2> SUFFICES ASSUME LockFitsCount, [LockNext]_lockVars, NEW s \in Spaces, left[s] > 0
               PROVE  \/ left'[s] >= left[s]
                      \/ LockTick /\ left'[s] = left[s] - 1
                      \/ count'[s] = 0
    OBVIOUS
  <2>1. RowsFit /\ RowsStep
    BY LockSteps DEF LockFitsCount, LockTypeOK, RowsFit, RowsTypeOK
  <2>2. left[s] \in Nat
    BY <2>1, LongestIs DEF RowsFit, RowsTypeOK
  <2>3. CASE UNCHANGED <<count, age, left>>
    BY <2>2, <2>3
  <2>4. CASE LockTick
    BY <2>1, <2>4, TickFits
  <2>5. ASSUME NEW t \in Spaces, Failure(t)
        PROVE  left'[s] >= left[s]
    BY <2>1, <2>5, FailureFits
  <2>6. ASSUME NEW t \in Spaces, Success(t)
        PROVE  left'[s] >= left[s] \/ count'[s] = 0
    BY <2>1, <2>2, <2>6, SuccessFits
  <2> QED
    BY <2>1, <2>3, <2>4, <2>5, <2>6 DEF RowsStep
<1> QED
  BY <1>1, LockFitsCountAlways, PTL DEF LockSpec, LockNeverShortens

-----------------------------------------------------------------------------
(* Letters.                                                                *)

\* A record that says "sent" is right, as is the one about to be written; and
\* nobody starts a letter to no one.
RecordsTrue ==
    /\ \A p \in Actions \X Emails : delivery[p] = "sent" => got[p]
    /\ \A s \in Senders : letter[s].step = "record" /\ letter[s].ok =>
          \A p \in Actions \X Emails :
             p[1] \in letter[s].about /\ p[2] \in letter[s].now => got[p]
    /\ \A s \in Senders : letter[s].step # "idle" => letter[s].to # {}

LettersInv == LettersReach /\ RecordsTrue

Letter == [step : {"idle", "rows", "mail", "record"}, to : SUBSET Emails,
           todo : SUBSET Emails, about : SUBSET Actions, now : SUBSET Emails,
           ok : BOOLEAN, any : BOOLEAN]

\* What a step says of the sender's letter, and of the other sender's.
LEMMA PutLetter ==
    ASSUME LetterTypeOK, NEW s \in Senders, NEW r \in Letter, Put(s, r)
    PROVE  /\ letter' \in [Senders -> Letter] /\ letter'[s] = r
           /\ \A t \in Senders : t # s => letter'[t] = letter[t]
BY DEF Put, LetterTypeOK, Letter

\* The recipients are fixed at the start of a letter, and there are some.
LEMMA LoadSubscribersSafe ==
    ASSUME LettersInv, NEW s \in Senders, NEW chosen \in SUBSET Emails, LoadSubscribers(s, chosen)
    PROVE  LettersInv'
<1> USE DEF LettersInv, LettersReach
<1> DEFINE r == [NoLetter EXCEPT !.step = "rows", !.to = chosen, !.todo = chosen]
<1>1. r \in Letter /\ r.step = "rows" /\ r.to = chosen
  BY DEF NoLetter, Letter
<1>2. /\ letter' \in [Senders -> Letter] /\ letter'[s] = r
      /\ \A t \in Senders : t # s => letter'[t] = letter[t]
  <2> HIDE DEF r
  <2>1. LetterTypeOK /\ Put(s, [NoLetter EXCEPT !.step = "rows", !.to = chosen, !.todo = chosen])
    BY DEF LoadSubscribers
  <2>2. Put(s, r)
    BY <2>1 DEF r
  <2> QED
    BY <1>1, <2>1, <2>2, PutLetter
<1> HIDE DEF r
<1>3. changes' \in 0..MaxChanges
  <2>1. changes \in 0..MaxChanges
    BY DEF LetterTypeOK
  <2>2. changes' = changes \/ (changes < MaxChanges /\ changes' = changes + 1)
    BY DEF LoadSubscribers
  <2> QED
    BY <2>1, <2>2, LettersAssumption
<1>4. LetterTypeOK'
  BY <1>2, <1>3 DEF LoadSubscribers, LetterTypeOK, Letter, ghosts
<1>5. ToldMeansReached'
  BY DEF LoadSubscribers, ToldMeansReached, ghosts
<1>6. RecordsTrue'
  BY <1>1, <1>2 DEF LoadSubscribers, RecordsTrue, ghosts
<1> QED
  BY <1>4, <1>5, <1>6

\* What is written about is fixed next; an empty letter ends there.
LEMMA LoadItemsSafe ==
    ASSUME LettersInv, NEW s \in Senders, LoadItems(s)
    PROVE  LettersInv'
<1> USE DEF LettersInv, LettersReach
<1>1. letter[s] \in Letter /\ letter[s].step = "rows"
  BY DEF LoadItems, Sends, LetterTypeOK, Letter
<1>2. PICK rows \in SUBSET Actions :
         Put(s, IF Content(rows) THEN [letter[s] EXCEPT !.step = "mail", !.about = rows] ELSE NoLetter)
  BY DEF LoadItems, Due
<1> DEFINE r == IF Content(rows) THEN [letter[s] EXCEPT !.step = "mail", !.about = rows] ELSE NoLetter
<1>3. /\ r \in Letter /\ r.step \in {"mail", "idle"}
      /\ r.step # "idle" => r.to = letter[s].to
  BY <1>1 DEF NoLetter, Letter
<1>4. /\ letter' \in [Senders -> Letter] /\ letter'[s] = r
      /\ \A t \in Senders : t # s => letter'[t] = letter[t]
  <2>1. Put(s, r)
    BY <1>2
  <2> HIDE DEF r
  <2> QED
    BY <1>3, <2>1, PutLetter
<1> HIDE DEF r
<1>5. LetterTypeOK'
  BY <1>4 DEF LoadItems, LetterTypeOK, Letter, ghosts, bounds
<1>6. ToldMeansReached'
  BY DEF LoadItems, ToldMeansReached, ghosts
<1>7. RecordsTrue'
  BY <1>1, <1>3, <1>4 DEF LoadItems, RecordsTrue, ghosts
<1> QED
  BY <1>5, <1>6, <1>7

\* A mail that went out has arrived, and only then is "sent" to be recorded.
LEMMA MailSafe ==
    ASSUME LettersInv, NEW s \in Senders, NEW e \in Emails, Mail(s, e)
    PROVE  LettersInv'
<1> USE DEF LettersInv, LettersReach
<1>1. letter[s] \in Letter /\ letter[s].step = "mail"
  BY DEF Mail, Sends, LetterTypeOK, Letter
<1>2. PICK ok \in BOOLEAN, arrives \in BOOLEAN :
         LET rec == [letter[s] EXCEPT !.todo = @ \ {e}, !.any = @ \/ ok]
         IN  /\ ok => arrives
             /\ ~ok => failures < MaxFailures
             /\ failures' = IF ok THEN failures ELSE failures + 1
             /\ got' = [p \in Actions \X Emails |->
                           got[p] \/ (arrives /\ p[1] \in letter[s].about /\ p[2] = e)]
             /\ Put(s, IF s = "scan" /\ letter[s].about # {}
                       THEN [rec EXCEPT !.step = "record", !.now = {e}, !.ok = ok] ELSE rec)
  BY DEF Mail
<1> DEFINE rec == [letter[s] EXCEPT !.todo = @ \ {e}, !.any = @ \/ ok]
           r == IF s = "scan" /\ letter[s].about # {}
                THEN [rec EXCEPT !.step = "record", !.now = {e}, !.ok = ok] ELSE rec
<1>3. /\ rec \in Letter /\ rec.to = letter[s].to /\ rec.about = letter[s].about /\ rec.step = "mail"
  <2>1. (letter[s].any \/ ok) \in BOOLEAN
    OBVIOUS
  <2> QED
    BY <1>1, <2>1 DEF Letter
<1>4. /\ r \in Letter /\ r.to = letter[s].to /\ r.about = letter[s].about
      /\ r.step = "record" => r.now = {e} /\ r.ok = ok
  <2> HIDE DEF rec
  <2> QED
    BY <1>3 DEF Letter
<1>5. /\ letter' \in [Senders -> Letter] /\ letter'[s] = r
      /\ \A t \in Senders : t # s => letter'[t] = letter[t]
  <2>1. Put(s, r)
    BY <1>2
  <2> HIDE DEF r
  <2> QED
    BY <1>4, <2>1, PutLetter
<1>6. /\ got' \in [Actions \X Emails -> BOOLEAN]
      /\ \A p \in Actions \X Emails :
            got'[p] = (got[p] \/ (arrives /\ p[1] \in letter[s].about /\ p[2] = e))
  BY <1>2
<1>7. failures' \in 0..MaxFailures
  <2>1. failures \in 0..MaxFailures
    BY DEF LetterTypeOK
  <2> QED
    BY <1>2, <2>1, LettersAssumption
<1>8. ok => arrives
  BY <1>2
<1>9. UNCHANGED <<subscriber, action, delivery, picks, changes, audience>>
  BY DEF Mail
<1> HIDE DEF r, rec
<1>10. LetterTypeOK'
  BY <1>5, <1>6, <1>7, <1>9 DEF LetterTypeOK, Letter
<1>11. ToldMeansReached'
  <2> SUFFICES ASSUME NEW a \in Actions, action[a] = "told"
               PROVE  audience[a] # {} /\ \A f \in audience[a] : got'[<<a, f>>]
    BY <1>9 DEF ToldMeansReached
  <2>1. audience[a] # {} /\ \A f \in audience[a] : f \in Emails /\ got[<<a, f>>]
    BY DEF ToldMeansReached, LetterTypeOK
  <2> QED
    BY <1>6, <2>1
<1>12. RecordsTrue'
  <2>1. \A p \in Actions \X Emails : got[p] => got'[p]
    BY <1>6
  <2>2. ASSUME NEW t \in Senders, letter'[t].step = "record", letter'[t].ok,
               NEW p \in Actions \X Emails, p[1] \in letter'[t].about, p[2] \in letter'[t].now
        PROVE  got'[p]
    <3>1. CASE t = s
      BY <1>4, <1>5, <1>6, <1>8, <2>2, <3>1
    <3>2. CASE t # s
      BY <1>5, <2>1, <2>2, <3>2 DEF RecordsTrue
    <3> QED
      BY <3>1, <3>2
  <2>3. \A t \in Senders : letter'[t].step # "idle" => letter'[t].to # {}
    BY <1>1, <1>4, <1>5 DEF RecordsTrue
  <2> QED
    BY <1>9, <2>1, <2>2, <2>3 DEF RecordsTrue
<1> QED
  BY <1>10, <1>11, <1>12

\* The record repeats what the mail did, and overwrites only its own pairs.
LEMMA RecordSafe ==
    ASSUME LettersInv, NEW s \in Senders, Record(s)
    PROVE  LettersInv'
<1> USE DEF LettersInv, LettersReach
<1> DEFINE r == [letter[s] EXCEPT !.step = "mail", !.now = {}, !.ok = FALSE]
<1>1. letter[s] \in Letter /\ letter[s].step = "record"
  BY DEF Record, Sends, LetterTypeOK, Letter
<1>2. r \in Letter /\ r.step = "mail" /\ r.to = letter[s].to
  BY <1>1 DEF Letter
<1>3. /\ letter' \in [Senders -> Letter] /\ letter'[s] = r
      /\ \A t \in Senders : t # s => letter'[t] = letter[t]
  <2>1. Put(s, r)
    BY DEF Record
  <2> HIDE DEF r
  <2> QED
    BY <1>2, <2>1, PutLetter
<1> HIDE DEF r
<1>4. UNCHANGED <<subscriber, action, picks, changes, got, audience>>
  BY DEF Record, ghosts
<1>5. failures' \in 0..MaxFailures
  <2>1. failures \in 0..MaxFailures
    BY DEF LetterTypeOK
  <2>2. failures' = failures \/ (failures < MaxFailures /\ failures' = failures + 1)
    BY DEF Record
  <2> QED
    BY <2>1, <2>2, LettersAssumption
<1>6. \A p \in Actions \X Emails : delivery'[p] \in {delivery[p], Recorded(s, delivery[p], p)}
  BY DEF Record
<1>7. delivery' \in [Actions \X Emails -> {"none", "sent", "failed"}]
  <2>1. \A p \in Actions \X Emails : Recorded(s, delivery[p], p) \in {"none", "sent", "failed"}
    BY DEF Recorded, LetterTypeOK
  <2> QED
    BY <2>1 DEF Record, LetterTypeOK
<1>8. LetterTypeOK'
  BY <1>3, <1>4, <1>5, <1>7 DEF LetterTypeOK, Letter
<1>9. ToldMeansReached'
  BY <1>4 DEF ToldMeansReached
<1>10. RecordsTrue'
  <2>1. \A p \in Actions \X Emails : delivery'[p] = "sent" => got[p]
    BY <1>1, <1>6 DEF Recorded, RecordsTrue
  <2>2. \A t \in Senders : letter'[t].step # "idle" => letter'[t].to # {}
    BY <1>1, <1>2, <1>3 DEF RecordsTrue
  <2>3. \A t \in Senders : letter'[t].step = "record" => letter'[t] = letter[t]
    BY <1>2, <1>3
  <2> QED
    BY <1>4, <2>1, <2>2, <2>3 DEF RecordsTrue
<1> QED
  BY <1>8, <1>9, <1>10

\* An action is marked when every record of the letter's audience says "sent".
LEMMA MarkSafe ==
    ASSUME LettersInv, NEW s \in Senders, Mark(s)
    PROVE  LettersInv'
<1> USE DEF LettersInv, LettersReach
<1>1. letter[s] \in Letter /\ letter[s].step = "mail"
  BY DEF Mark, Sends, LetterTypeOK, Letter
<1> DEFINE marked == IF s = "scan" /\ letter[s].any
                     THEN {a \in letter[s].about : DeliveredToAll(a, letter[s].to)} ELSE {}
<1>2. /\ action' = [a \in Actions |-> IF a \in marked /\ action[a] = "due" THEN "told" ELSE action[a]]
      /\ audience' = [a \in Actions |-> IF a \in marked THEN letter[s].to ELSE audience[a]]
      /\ Put(s, NoLetter) /\ UNCHANGED <<subscriber, delivery, picks, failures, changes, got>>
  BY DEF Mark, bounds
<1>3. \A a \in marked : a \in Actions /\ \A e \in letter[s].to : delivery[<<a, e>>] = "sent"
  BY <1>1 DEF DeliveredToAll, Letter
<1> HIDE DEF marked
<1>4. NoLetter \in Letter /\ NoLetter.step = "idle"
  BY DEF NoLetter, Letter
<1>5. /\ letter' \in [Senders -> Letter] /\ letter'[s] = NoLetter
      /\ \A t \in Senders : t # s => letter'[t] = letter[t]
  BY <1>2, <1>4, PutLetter
<1>6. LetterTypeOK'
  <2>1. letter[s].to \subseteq Emails
    BY <1>1 DEF Letter
  <2>2. action' \in [Actions -> {"none", "due", "told", "over"}]
    BY <1>2 DEF LetterTypeOK
  <2>3. audience' \in [Actions -> SUBSET Emails]
    BY <1>2, <2>1 DEF LetterTypeOK
  <2> QED
    BY <1>2, <1>5, <2>2, <2>3 DEF LetterTypeOK, Letter
<1>7. ToldMeansReached'
  <2> SUFFICES ASSUME NEW a \in Actions, action'[a] = "told"
               PROVE  audience'[a] # {} /\ \A e \in audience'[a] : got'[<<a, e>>]
    BY DEF ToldMeansReached
  <2>1. CASE a \in marked
    <3>1. audience'[a] = letter[s].to /\ letter[s].to \subseteq Emails
      BY <1>1, <1>2, <2>1 DEF Letter
    <3>2. letter[s].to # {}
      BY <1>1 DEF RecordsTrue
    <3>3. \A e \in letter[s].to : delivery[<<a, e>>] = "sent" /\ <<a, e>> \in Actions \X Emails
      BY <1>3, <2>1, <3>1
    <3> QED
      BY <1>2, <3>1, <3>2, <3>3 DEF RecordsTrue
  <2>2. CASE a \notin marked
    BY <1>2, <2>2 DEF ToldMeansReached
  <2> QED
    BY <2>1, <2>2
<1>8. RecordsTrue'
  BY <1>2, <1>4, <1>5 DEF RecordsTrue
<1> QED
  BY <1>6, <1>7, <1>8

\* What subscribers, the scanner and the admins change leaves reached whoever
\* was reached; a crash forgets the letters only.
LEMMA ChangeSafe ==
    ASSUME LettersInv,
           \/ \E a \in Actions : Schedule(a) \/ Settle(a)
           \/ \E e \in Emails : Subscribe(e) \/ Unsubscribe(e) \/ Remove(e)
           \/ LetterCrash
    PROVE  LettersInv'
<1> USE DEF LettersInv, LettersReach
<1>1. changes \in 0..MaxChanges /\ failures \in 0..MaxFailures
  BY DEF LetterTypeOK
<1>2. Change => changes' \in 0..MaxChanges
  BY <1>1, LettersAssumption DEF Change
<1>3. UNCHANGED <<delivery, picks, got, audience>>
  BY DEF Schedule, Settle, Subscribe, Unsubscribe, Remove, LetterCrash, ghosts
<1>4. ASSUME NEW a \in Actions, Schedule(a) \/ Settle(a) PROVE LettersInv'
  <2>1. /\ UNCHANGED <<subscriber, letter, failures>> /\ changes' \in 0..MaxChanges
        /\ action' \in [Actions -> {"none", "due", "told", "over"}]
        /\ \A b \in Actions : action'[b] = "told" => action[b] = "told"
    BY <1>2, <1>4 DEF Schedule, Settle, LetterTypeOK
  <2> QED
    BY <1>3, <2>1 DEF LetterTypeOK, ToldMeansReached, RecordsTrue
<1>5. ASSUME NEW e \in Emails, Subscribe(e) \/ Unsubscribe(e) \/ Remove(e) PROVE LettersInv'
  <2>1. /\ UNCHANGED <<action, letter, failures>> /\ changes' \in 0..MaxChanges
        /\ subscriber' \in [Emails -> {"none", "active", "opted out"}]
    BY <1>2, <1>5 DEF Subscribe, Unsubscribe, Remove, LetterTypeOK
  <2> QED
    BY <1>3, <2>1 DEF LetterTypeOK, ToldMeansReached, RecordsTrue
<1>6. CASE LetterCrash
  <2>1. UNCHANGED <<subscriber, action, changes>> /\ failures' \in 0..MaxFailures
    BY <1>1, <1>6, LettersAssumption DEF LetterCrash
  <2>2. letter' = [s \in Senders |-> NoLetter] /\ NoLetter \in Letter /\ NoLetter.step = "idle"
    BY <1>6 DEF LetterCrash, NoLetter, Letter
  <2>3. letter' \in [Senders -> Letter] /\ \A s \in Senders : letter'[s].step = "idle"
    BY <2>2
  <2> QED
    BY <1>3, <2>1, <2>3 DEF LetterTypeOK, ToldMeansReached, RecordsTrue, Letter
<1> QED
  BY <1>4, <1>5, <1>6

\* What is marked as announced has reached everybody the scan wrote to: for
\* any number of addresses and deletions, with an admin's letter beside the
\* scan's, mails and records that fail, and crashes in between.
THEOREM LettersReachAlways == LetterSpec => []LettersReach
<1>1. LetterInit => LettersInv
  <2> SUFFICES ASSUME LetterInit PROVE LettersInv
    OBVIOUS
  <2>1. NoLetter \in Letter /\ NoLetter.step = "idle"
    BY DEF NoLetter, Letter
  <2>2. letter \in [Senders -> Letter] /\ \A s \in Senders : letter[s].step = "idle"
    BY <2>1 DEF LetterInit
  <2>3. LetterTypeOK
    <3>1. /\ subscriber \in [Emails -> {"none", "active", "opted out"}]
          /\ action \in [Actions -> {"none", "due", "told", "over"}]
          /\ delivery \in [Actions \X Emails -> {"none", "sent", "failed"}]
          /\ got \in [Actions \X Emails -> BOOLEAN] /\ audience \in [Actions -> SUBSET Emails]
      BY DEF LetterInit
    <3>2. picks \in BOOLEAN /\ failures \in 0..MaxFailures /\ changes \in 0..MaxChanges
      BY LettersAssumption DEF LetterInit
    <3> QED
      BY <2>2, <3>1, <3>2 DEF LetterTypeOK, Letter
  <2> QED
    BY <2>2, <2>3 DEF LetterInit, LettersInv, LettersReach, ToldMeansReached, RecordsTrue
<1>2. LettersInv /\ [LetterNext]_letterVars => LettersInv'
  <2> SUFFICES ASSUME LettersInv, [LetterNext]_letterVars PROVE LettersInv'
    OBVIOUS
  <2>1. CASE UNCHANGED letterVars
    BY <2>1 DEF letterVars, LettersInv, LettersReach, LetterTypeOK, ToldMeansReached, RecordsTrue
  <2>2. ASSUME NEW s \in Senders, SendStep(s) PROVE LettersInv'
    BY <2>2, LoadSubscribersSafe, LoadItemsSafe, MailSafe, RecordSafe, MarkSafe DEF SendStep
  <2> QED
    BY <2>1, <2>2, ChangeSafe DEF LetterNext
<1>3. LettersInv => LettersReach
  BY DEF LettersInv
<1> QED
  BY <1>1, <1>2, <1>3, PTL DEF LetterSpec

-----------------------------------------------------------------------------
(* Recommendations: the invariant.                                         *)

HeldStates   == {"absent", "idle", "wanted", "file"}
RefreshSteps == {"idle", "claim", "generate", "insert", "record", "finish", "over"}
WorkSteps    == {"generate", "insert", "record", "finish"}
RefreshRecords ==
    [step : RefreshSteps, asked : 0..MaxPickTime, day : 0..MaxPickTime, picks : SUBSET Titles]

\* A refresh began in the past and has picks when it inserts.  Since it asked, nobody's refresh
\* is on record within a day before; from its claim on it holds the lease alone.
RefreshFits(r, rec, records, holders, time) ==
    /\ rec.asked <= time /\ rec.day <= time \div PickDay
    /\ rec.step = "insert" => rec.picks # {}
    /\ rec.step = "claim" => r \in PickRequests
    /\ r \in PickRequests /\ rec.step \in WorkSteps \cup {"claim"} =>
          \A t \in records : t >= rec.asked \/ time - t >= PickDay
    /\ r \in PickRequests /\ rec.step \in WorkSteps => holders = {r}

RefreshesFit ==
    /\ refresh \in [Refreshers -> RefreshRecords]
    /\ hour \in 0..MaxPickTime /\ lastRefresh \in SUBSET (0..hour) /\ lease \in SUBSET PickRequests
    /\ \A r \in Refreshers : RefreshFits(r, refresh[r], lastRefresh, lease, hour)

\* An id is given once, so that a click finds its title under its id or nothing at all.
RowRecords == [title : Titles, batch : 0..MaxPickTime, flag : BOOLEAN, by : Refreshers]

RowsRight ==
    /\ made \in 0..MaxRows /\ row \in [Ids -> {NoTitle} \cup RowRecords]
    /\ \A i \in Rows : i <= made
    /\ MarksHitTheirTitle /\ OneRefreshPerBatch

ClickFits ==
    /\ click \in [step : {"idle", "add", "mark"}, id : Ids, title : Titles \cup {"none"}]
    /\ click.step # "idle" =>
          /\ click.title \in Titles /\ click.id <= made
          /\ Found(click.id) => row[click.id].title = click.title
    /\ click.step = "mark" => click.title \in accepted

BatchesStay == offered \in SUBSET (0..MaxPickTime) /\ PicksStay

\* What a page has been told of a title nobody asks for, it has been true since the page
\* was opened.
Sheets ==
    [rows : SUBSET [id : Ids, title : Titles, flag : BOOLEAN],
     list : UNION {[S -> HeldStates] : S \in SUBSET Titles},
     heard : SUBSET Services, queue : SUBSET Titles, ready : SUBSET Services,
     gone : SUBSET Titles]

ListFits(list, gone) == \A t \in DOMAIN list : Missing(t, list[t]) => t \in gone

PageFits ==
    /\ held \in [Titles -> HeldStates] /\ queued \in SUBSET Titles
    /\ page \in Sheets /\ ListFits(page.list, page.gone)
    /\ Building => \A t \in Titles : Missing(t, held[t]) => t \in page.gone
    /\ MarksLostByTheGone

PicksInv ==
    /\ RefreshesFit /\ RowsRight /\ ClickFits /\ BatchesStay /\ PageFits
    /\ moves \in 0..MaxMoves

-----------------------------------------------------------------------------
(* Recommendations: days and rows.                                         *)

LEMMA PicksConstants ==
    ASSUME PicksAssumption
    PROVE  /\ IsFiniteSet(Titles) /\ "none" \notin Titles /\ Scan \notin PickRequests
           /\ PickDay \in Nat \ {0} /\ MaxRows \in Nat \ {0}
           /\ KeepDays \in Nat /\ MaxPickTime \in Nat /\ MaxMoves \in Nat
BY DEF PicksAssumption

LEMMA DaysGrow ==
    ASSUME NEW n \in Nat, NEW d \in Nat \ {0}
    PROVE  /\ n \div d \in Nat /\ n \div d <= n /\ n \div d <= (n + 1) \div d
OBVIOUS

LEMMA RowsAre ==
    ASSUME PicksAssumption, NEW rec \in RowRecords
    PROVE  rec # NoTitle /\ rec.title \in Titles
BY PicksConstants DEF RowRecords, NoTitle

\* As many ids as there are picks, each for one of them.
LEMMA NamesAre ==
    ASSUME PicksAssumption, NEW first \in Nat, NEW S \in SUBSET Titles, S # {}
    PROVE  LET n     == Cardinality(S)
               fresh == first..(first + n - 1)
               name  == CHOOSE f \in Bijection(fresh, S) : TRUE
           IN  /\ n \in Nat \ {0} /\ Cardinality(fresh) = n
               /\ first + n - 1 \in fresh /\ first \in fresh
               /\ \A i \in fresh : name[i] \in S
<1> DEFINE n == Cardinality(S)  fresh == first..(first + n - 1)
<1>1. IsFiniteSet(S) /\ n \in Nat /\ n # 0
  <2>1. IsFiniteSet(S)
    BY PicksConstants, FS_Subset
  <2> QED
    BY <2>1, FS_CardinalityType, FS_EmptySet
<1> HIDE DEF n
<1>2. IsFiniteSet(fresh) /\ Cardinality(fresh) = n
  <2>1. first \in Int /\ first + n - 1 \in Int /\ ~(first > first + n - 1)
    BY <1>1
  <2>2. IsFiniteSet(fresh) /\ Cardinality(fresh) = (first + n - 1) - first + 1
    BY <2>1, FS_Interval
  <2> QED
    BY <2>2, <1>1
<1>3. first + n - 1 \in fresh /\ first \in fresh
  BY <1>1
<1> HIDE DEF fresh
<1>4. Bijection(fresh, S) # {}
  BY <1>1, <1>2, FS_SameCardinalityBij, Fun_ExistsBij DEF n
<1> DEFINE name == CHOOSE f \in Bijection(fresh, S) : TRUE
<1>5. name \in Bijection(fresh, S)
  BY <1>4
<1> HIDE DEF name
<1>6. \A i \in fresh : name[i] \in S
  BY <1>5, Fun_BijectionProperties
<1> QED
  BY <1>1, <1>2, <1>3, <1>6 DEF n, fresh, name

-----------------------------------------------------------------------------
(* Recommendations: refreshes.                                             *)

LEMMA TimeIs ==
    ASSUME PicksAssumption, RefreshesFit
    PROVE  /\ hour \in Nat /\ hour \in 0..MaxPickTime /\ PickDay \in Nat \ {0}
           /\ Today \in Nat /\ Today <= hour /\ Today \in 0..MaxPickTime
<1>1. hour \in Nat /\ PickDay \in Nat \ {0} /\ hour \in 0..MaxPickTime
  BY PicksConstants DEF RefreshesFit
<1>2. hour \div PickDay \in Nat /\ hour \div PickDay <= hour
  BY <1>1, DaysGrow
<1> QED
  BY <1>1, <1>2, PicksConstants DEF Today

\* A step of one refresh.
LEMMA RefreshMoves ==
    ASSUME RefreshesFit, NEW r \in Refreshers, NEW rec \in RefreshRecords, Go(r, rec),
           hour' = hour, lastRefresh' \in SUBSET (0..hour), lease' \in SUBSET PickRequests,
           RefreshFits(r, rec, lastRefresh', lease', hour),
           \A x \in Refreshers \ {r} : RefreshFits(x, refresh[x], lastRefresh', lease', hour)
    PROVE  RefreshesFit'
<1>1. /\ refresh' \in [Refreshers -> RefreshRecords] /\ refresh'[r] = rec
      /\ \A x \in Refreshers \ {r} : refresh'[x] = refresh[x]
  BY DEF RefreshesFit, Go
<1>2. \A x \in Refreshers : RefreshFits(x, refresh'[x], lastRefresh', lease', hour')
  BY <1>1
<1> QED
  BY <1>1, <1>2 DEF RefreshesFit

LEMMA RefreshIs ==
    ASSUME RefreshesFit, NEW r \in Refreshers
    PROVE  /\ refresh[r] \in RefreshRecords /\ RefreshFits(r, refresh[r], lastRefresh, lease, hour)
           /\ refresh[r].asked \in 0..MaxPickTime /\ refresh[r].day \in 0..MaxPickTime
           /\ refresh[r].picks \in SUBSET Titles
BY DEF RefreshesFit, RefreshRecords

\* A refresh that ends gives up the lease it had, which no other had.
LEMMA EndSafe ==
    ASSUME PicksAssumption, RefreshesFit, NEW r \in Refreshers, EndOf(r),
           hour' = hour, lastRefresh' = lastRefresh, lease' \in {lease, lease \ {r}}
    PROVE  RefreshesFit'
<1> DEFINE rec == [Resting EXCEPT !.step = IF r = Scan THEN "idle" ELSE "over"]
<1>1. /\ rec \in RefreshRecords /\ rec.step \notin WorkSteps \cup {"claim", "insert"}
      /\ rec.asked = 0 /\ rec.day = 0
  BY PicksConstants DEF RefreshRecords, RefreshSteps, WorkSteps, Resting
<1>2. Go(r, rec)
  BY DEF EndOf
<1> HIDE DEF rec
<1>3. RefreshFits(r, rec, lastRefresh', lease', hour)
  BY <1>1, TimeIs DEF RefreshFits, Today, WorkSteps
<1>4. \A x \in Refreshers \ {r} : RefreshFits(x, refresh[x], lastRefresh', lease', hour)
  BY RefreshIs DEF RefreshFits
<1>5. lastRefresh' \in SUBSET (0..hour) /\ lease' \in SUBSET PickRequests
  BY DEF RefreshesFit
<1> QED
  BY <1>1, <1>2, <1>3, <1>4, <1>5, RefreshMoves

\* A refresh goes on to its next step.
LEMMA NextSafe ==
    ASSUME RefreshesFit, NEW r \in Refreshers, NEW rec \in RefreshRecords, Go(r, rec),
           Working(r), rec.step \in WorkSteps, rec.asked = refresh[r].asked,
           rec.day = refresh[r].day, rec.step = "insert" => rec.picks # {},
           hour' = hour, lastRefresh' \in {lastRefresh, {hour}}, lease' = lease,
           PicksAssumption
    PROVE  RefreshesFit'
<1>1. RefreshFits(r, refresh[r], lastRefresh, lease, hour) /\ refresh[r].step \in WorkSteps
  BY RefreshIs DEF Working, WorkSteps
<1>2. hour \in Nat
  BY TimeIs
<1>3. ASSUME NEW x \in Refreshers PROVE \A t \in {hour} : t >= refresh[x].asked
  BY <1>2, RefreshIs DEF RefreshFits
<1>4. RefreshFits(r, rec, lastRefresh', lease', hour)
  BY <1>1, <1>3 DEF RefreshFits, WorkSteps
<1>5. \A x \in Refreshers \ {r} : RefreshFits(x, refresh[x], lastRefresh', lease', hour)
  BY <1>3, RefreshIs DEF RefreshFits
<1>6. lastRefresh' \in SUBSET (0..hour) /\ lease' \in SUBSET PickRequests
  BY <1>2 DEF RefreshesFit
<1> QED
  BY <1>4, <1>5, <1>6, RefreshMoves

LEMMA RefreshesFitStep ==
    ASSUME PicksAssumption, RefreshesFit, PicksNext
    PROVE  RefreshesFit'
<1>0. hour \in 0..MaxPickTime /\ 0 \in 0..MaxPickTime /\ Today \in 0..MaxPickTime
  BY TimeIs, PicksConstants
<1>1. ASSUME NEW r \in Refreshers, AskToRefresh(r) PROVE RefreshesFit'
  <2> DEFINE rec == [Resting EXCEPT !.step = "claim", !.asked = hour]
  <2>1. Go(r, rec) /\ r \in PickRequests /\ UNCHANGED <<hour, lastRefresh, lease>> /\ ~Cooling
    BY <1>1 DEF AskToRefresh, table
  <2>2. rec \in RefreshRecords /\ rec.step = "claim" /\ rec.asked = hour /\ rec.day = 0
    BY <1>0 DEF RefreshRecords, RefreshSteps, Resting
  <2> HIDE DEF rec
  <2>3. \A t \in lastRefresh : hour - t >= PickDay
    <3>1. \A t \in lastRefresh : ~(hour - t < PickDay) /\ t \in 0..hour
      BY <2>1 DEF Cooling, RefreshesFit
    <3> QED
      BY <3>1, TimeIs
  <2>4. RefreshFits(r, rec, lastRefresh', lease', hour)
    BY <2>1, <2>2, <2>3, TimeIs DEF RefreshFits, WorkSteps, Today
  <2>5. \A x \in Refreshers \ {r} : RefreshFits(x, refresh[x], lastRefresh', lease', hour)
    BY <2>1, RefreshIs
  <2>6. lastRefresh' \in SUBSET (0..hour) /\ lease' \in SUBSET PickRequests
    BY <2>1 DEF RefreshesFit
  <2> QED
    BY <2>1, <2>2, <2>4, <2>5, <2>6, RefreshMoves
<1>2. ASSUME NEW r \in Refreshers, Claim(r) PROVE RefreshesFit'
  <2>1. CASE lease # {}
    BY <1>2, <2>1, EndSafe DEF Claim
  <2>2. CASE lease = {}
    <3> DEFINE rec == [refresh[r] EXCEPT !.step = "generate", !.day = Today]
    <3>1. /\ Go(r, rec) /\ lease' = {r} /\ UNCHANGED <<hour, lastRefresh>>
          /\ refresh[r].step = "claim"
      BY <1>2, <2>2 DEF Claim, RefreshAt
    <3>2. /\ rec \in RefreshRecords /\ rec.step = "generate" /\ rec.asked = refresh[r].asked
          /\ rec.day = Today
      BY TimeIs, RefreshIs DEF RefreshRecords, RefreshSteps
    <3> HIDE DEF rec
    <3>3. RefreshFits(r, rec, lastRefresh', lease', hour)
      BY <3>1, <3>2, TimeIs, RefreshIs DEF RefreshFits, WorkSteps, Today
    <3>4. \A x \in Refreshers \ {r} : RefreshFits(x, refresh[x], lastRefresh', lease', hour)
      BY <2>2, <3>1, RefreshIs DEF RefreshFits
    <3>5. lastRefresh' \in SUBSET (0..hour)
      BY <3>1 DEF RefreshesFit
    <3>6. r \in PickRequests
      BY <3>1, RefreshIs DEF RefreshFits
    <3> QED
      BY <3>1, <3>2, <3>3, <3>4, <3>5, <3>6, RefreshMoves
  <2> QED
    BY <2>1, <2>2
<1>3. CASE StartScan
  <2> DEFINE rec == [Resting EXCEPT !.step = "generate", !.day = Today]
  <2>1. Go(Scan, rec) /\ UNCHANGED <<hour, lastRefresh, lease>> /\ Scan \in Refreshers
    BY <1>3 DEF StartScan, table, Refreshers
  <2>2. rec \in RefreshRecords /\ rec.step = "generate" /\ rec.asked = 0 /\ rec.day = Today
    BY <1>0 DEF RefreshRecords, RefreshSteps, Resting
  <2> HIDE DEF rec
  <2>3. RefreshFits(Scan, rec, lastRefresh', lease', hour)
    BY <2>1, <2>2, TimeIs, PicksConstants DEF RefreshFits, Today
  <2>4. \A x \in Refreshers \ {Scan} : RefreshFits(x, refresh[x], lastRefresh', lease', hour)
    BY <2>1, RefreshIs
  <2>5. lastRefresh' \in SUBSET (0..hour) /\ lease' \in SUBSET PickRequests
    BY <2>1 DEF RefreshesFit
  <2> QED
    BY <2>1, <2>2, <2>3, <2>4, <2>5, RefreshMoves
<1>4. ASSUME NEW r \in Refreshers, Generate(r) PROVE RefreshesFit'
  <2>1. PICK S \in SUBSET Titles :
          IF S = {}
          THEN EndOf(r) /\ lease' = lease \ {r}
          ELSE /\ Go(r, [refresh[r] EXCEPT !.step = "insert", !.picks = S]) /\ UNCHANGED lease
    BY <1>4 DEF Generate
  <2>2. refresh[r].step = "generate" /\ UNCHANGED <<hour, lastRefresh>>
    BY <1>4 DEF Generate, RefreshAt
  <2>3. CASE S = {}
    BY <2>1, <2>2, <2>3, EndSafe
  <2>4. CASE S # {}
    <3> DEFINE rec == [refresh[r] EXCEPT !.step = "insert", !.picks = S]
    <3>1. Go(r, rec) /\ lease' = lease
      BY <2>1, <2>4
    <3>2. /\ rec \in RefreshRecords /\ rec.step = "insert" /\ rec.asked = refresh[r].asked
          /\ rec.day = refresh[r].day /\ rec.picks = S
      BY RefreshIs DEF RefreshRecords, RefreshSteps
    <3> HIDE DEF rec
    <3>3. rec.step \in WorkSteps /\ Working(r)
      BY <2>2, <3>2 DEF WorkSteps, Working
    <3> QED
      BY <2>2, <2>4, <3>1, <3>2, <3>3, NextSafe
  <2> QED
    BY <2>3, <2>4
<1>5. ASSUME NEW r \in Refreshers, InsertPicks(r) PROVE RefreshesFit'
  <2>1. refresh[r].step = "insert" /\ UNCHANGED <<hour, lastRefresh, lease>>
    BY <1>5 DEF InsertPicks, RefreshAt
  <2>2. CASE r = Scan
    BY <1>5, <2>1, <2>2, EndSafe DEF InsertPicks
  <2>3. CASE r # Scan
    <3> DEFINE rec == [refresh[r] EXCEPT !.step = "record"]
    <3>1. Go(r, rec)
      BY <1>5, <2>3 DEF InsertPicks
    <3>2. /\ rec \in RefreshRecords /\ rec.step = "record" /\ rec.asked = refresh[r].asked
          /\ rec.day = refresh[r].day
      BY RefreshIs DEF RefreshRecords, RefreshSteps
    <3> HIDE DEF rec
    <3>3. rec.step \in WorkSteps /\ Working(r)
      BY <2>1, <3>2 DEF WorkSteps, Working
    <3> QED
      BY <2>1, <3>1, <3>2, <3>3, NextSafe
  <2> QED
    BY <2>2, <2>3
<1>6. ASSUME NEW r \in Refreshers, RecordManualRefresh(r) PROVE RefreshesFit'
  <2> DEFINE rec == [refresh[r] EXCEPT !.step = "finish"]
  <2>1. Go(r, rec) /\ refresh[r].step = "record" /\ lastRefresh' = {hour} /\ UNCHANGED <<hour, lease>>
    BY <1>6 DEF RecordManualRefresh, RefreshAt
  <2>2. /\ rec \in RefreshRecords /\ rec.step = "finish" /\ rec.asked = refresh[r].asked
        /\ rec.day = refresh[r].day
    BY RefreshIs DEF RefreshRecords, RefreshSteps
  <2> HIDE DEF rec
  <2>3. rec.step \in WorkSteps /\ Working(r)
    BY <2>1, <2>2 DEF WorkSteps, Working
  <2> QED
    BY <2>1, <2>2, <2>3, NextSafe
<1>7. ASSUME NEW r \in Refreshers, FinishRefresh(r) PROVE RefreshesFit'
  BY <1>7, EndSafe DEF FinishRefresh
<1>8. CASE PickTick
  <2>1. hour' = hour + 1 /\ hour < MaxPickTime /\ UNCHANGED <<refresh, lastRefresh, lease>>
    BY <1>8 DEF PickTick, table
  <2>2. hour \in Nat /\ hour' \in 0..MaxPickTime
    BY <2>1, TimeIs, PicksConstants
  <2>3. hour \div PickDay <= hour' \div PickDay /\ hour \div PickDay \in Nat /\ hour' \div PickDay \in Nat
    BY <2>1, <2>2, TimeIs, DaysGrow
  <2>4. ASSUME NEW r \in Refreshers
        PROVE  RefreshFits(r, refresh[r], lastRefresh, lease, hour')
    <3>1. /\ refresh[r].asked \in Nat /\ refresh[r].day \in Nat
          /\ RefreshFits(r, refresh[r], lastRefresh, lease, hour)
      BY RefreshIs, PicksConstants
    <3>2. refresh[r].asked <= hour' /\ refresh[r].day <= hour' \div PickDay
      <4>1. refresh[r].asked <= hour /\ refresh[r].day <= hour \div PickDay
        BY <3>1 DEF RefreshFits
      <4> QED
        BY <3>1, <4>1, <2>1, <2>2, <2>3
    <3>3. ASSUME NEW t \in lastRefresh, t >= refresh[r].asked \/ hour - t >= PickDay
          PROVE  t >= refresh[r].asked \/ hour' - t >= PickDay
      <4>1. t \in Nat
        BY <2>2 DEF RefreshesFit
      <4> QED
        BY <3>3, <4>1, <2>1, <2>2, TimeIs
    <3> QED
      BY <3>1, <3>2, <3>3 DEF RefreshFits
  <2>5. lastRefresh \in SUBSET (0..hour')
    <3>1. 0..hour \subseteq 0..hour'
      BY <2>1, <2>2
    <3> QED
      BY <3>1 DEF RefreshesFit
  <2> QED
    BY <2>1, <2>2, <2>4, <2>5 DEF RefreshesFit
<1>9. CASE PicksCrash
  <2> DEFINE over(r) == [Resting EXCEPT !.step = IF r = Scan THEN "idle" ELSE "over"]
  <2>1. /\ refresh' = [r \in Refreshers |-> IF refresh[r].step \in {"idle", "over"}
                                            THEN refresh[r] ELSE over(r)]
        /\ lease' = {} /\ UNCHANGED <<hour, lastRefresh>>
    BY <1>9 DEF PicksCrash
  <2>2. ASSUME NEW r \in Refreshers
        PROVE  over(r) \in RefreshRecords /\ RefreshFits(r, over(r), lastRefresh, {}, hour)
    <3>1. /\ over(r) \in RefreshRecords /\ over(r).step \notin WorkSteps \cup {"claim", "insert"}
          /\ over(r).asked = 0 /\ over(r).day = 0
      BY PicksConstants DEF RefreshRecords, RefreshSteps, WorkSteps, Resting
    <3> HIDE DEF over
    <3> QED
      BY <3>1, TimeIs DEF RefreshFits, Today, WorkSteps
  <2> HIDE DEF over
  <2>3. ASSUME NEW r \in Refreshers
        PROVE  refresh'[r] \in RefreshRecords /\ RefreshFits(r, refresh'[r], lastRefresh, {}, hour)
    <3>1. CASE refresh[r].step \in {"idle", "over"}
      <4>1. refresh'[r] = refresh[r]
        BY <2>1, <3>1
      <4> QED
        BY <3>1, <4>1, RefreshIs DEF RefreshFits, WorkSteps
    <3>2. CASE refresh[r].step \notin {"idle", "over"}
      <4>1. refresh'[r] = over(r)
        BY <2>1, <3>2
      <4> QED
        BY <4>1, <2>2
    <3> QED
      BY <3>1, <3>2
  <2>4. refresh' \in [Refreshers -> RefreshRecords]
    <3>1. refresh' = [r \in Refreshers |-> refresh'[r]]
      BY <2>1
    <3> QED
      BY <3>1, <2>3
  <2> QED
    BY <2>1, <2>3, <2>4 DEF RefreshesFit
<1>10. CASE UNCHANGED <<refresh, hour, lastRefresh, lease>>
  BY <1>10 DEF RefreshesFit
<1>11. CASE OpenPage \/ ClosePage \/ AddToService \/ MarkDownloaded
  BY <1>10, <1>11 DEF OpenPage, ClosePage, AddToService, MarkDownloaded, table
<1>12. CASE \E s \in Services : ListService(s) \/ QueueOf(s)
  BY <1>10, <1>12 DEF ListService, QueueOf, table
<1>13. CASE \E i \in Ids : Click(i)
  BY <1>10, <1>13 DEF Click, table
<1>14. CASE \E t \in Titles : IsQueued(t) \/ \E h \in {"absent", "idle", "wanted", "file"} : Settles(t, h)
  BY <1>10, <1>14 DEF IsQueued, Settles, table
<1> QED
  BY <1>1, <1>2, <1>3, <1>4, <1>5, <1>6, <1>7, <1>8, <1>9, <1>11, <1>12, <1>13, <1>14 DEF PicksNext

-----------------------------------------------------------------------------
(* Recommendations: the table.                                             *)

\* Steps that may change the table: a refresh, a page and a click.
TableStep ==
    ClosePage \/ MarkDownloaded \/ \E r \in Refreshers : InsertPicks(r)

LEMMA OtherSteps ==
    ASSUME PicksNext, ~TableStep
    PROVE  UNCHANGED <<row, made, offered>>
<1>1. CASE \E r \in Refreshers : \/ AskToRefresh(r) \/ Claim(r) \/ Generate(r)
                                 \/ RecordManualRefresh(r) \/ FinishRefresh(r)
  BY <1>1 DEF AskToRefresh, Claim, Generate, RecordManualRefresh, FinishRefresh, table
<1>2. CASE StartScan \/ OpenPage \/ AddToService \/ PickTick \/ PicksCrash
  BY <1>2 DEF StartScan, OpenPage, AddToService, PickTick, PicksCrash, table
<1>3. CASE \E s \in Services : ListService(s) \/ QueueOf(s)
  BY <1>3 DEF ListService, QueueOf, table
<1>4. CASE \E i \in Ids : Click(i)
  BY <1>4 DEF Click, table
<1>5. CASE \E t \in Titles : IsQueued(t) \/ \E h \in {"absent", "idle", "wanted", "file"} : Settles(t, h)
  BY <1>5 DEF IsQueued, Settles, table
<1> QED
  BY <1>1, <1>2, <1>3, <1>4, <1>5 DEF PicksNext, TableStep

\* What an insert leaves: rows that were there and not dropped, under their ids, and new
\* ones under ids above all others.
LEMMA InsertIs ==
    ASSUME PicksAssumption, PicksInv, NEW r \in Refreshers, InsertPicks(r)
    PROVE  /\ made' \in 0..MaxRows /\ made' > made
           /\ row' \in [Ids -> {NoTitle} \cup RowRecords]
           /\ \A i \in Ids : i <= made =>
                 row'[i] = IF i \in Dropped(r) THEN NoTitle ELSE row[i]
           /\ \A i \in Ids : i > made /\ Found(i)' =>
                 /\ i <= made' /\ row'[i] \in RowRecords
                 /\ row'[i].batch = refresh[r].day /\ ~row'[i].flag /\ row'[i].by = r
           /\ made + 1 \in Ids /\ row'[made + 1] # NoTitle
           /\ offered' = offered \cup {refresh[r].day}
           /\ UNCHANGED <<hour, click, accepted>>
<1> DEFINE S     == refresh[r].picks
           n     == Cardinality(S)
           first == made + 1
           fresh == first..(first + n - 1)
           name  == CHOOSE f \in Bijection(fresh, S) : TRUE
           new(i) == [title |-> name[i], batch |-> refresh[r].day, flag |-> FALSE, by |-> r]
           old   == Rows \ Dropped(r)
<1>1. /\ S \in SUBSET Titles /\ S # {} /\ refresh[r].day \in 0..MaxPickTime
      /\ made \in Nat /\ MaxRows \in Nat
  <2>1. refresh[r].step = "insert"
    BY DEF InsertPicks, RefreshAt
  <2>2. RefreshFits(r, refresh[r], lastRefresh, lease, hour)
    BY RefreshIs DEF PicksInv
  <2>3. S # {}
    BY <2>1, <2>2 DEF RefreshFits
  <2> QED
    BY <2>3, RefreshIs, PicksConstants DEF PicksInv, RowsRight
<1>2. /\ n \in Nat \ {0} /\ Cardinality(fresh) = n
      /\ first + n - 1 \in fresh /\ first \in fresh
      /\ \A i \in fresh : name[i] \in S
  <2>1. first \in Nat
    BY <1>1
  <2> HIDE DEF S, first
  <2> QED
    BY <1>1, <2>1, NamesAre
<1>3. /\ fresh \subseteq Ids /\ made' = made + Cardinality(fresh)
      /\ row' = [i \in Ids |-> IF i \in fresh THEN new(i) ELSE IF i \in old THEN row[i] ELSE NoTitle]
      /\ offered' = offered \cup {refresh[r].day}
      /\ UNCHANGED <<hour, click, accepted>>
  BY DEF InsertPicks, NextId
<1> HIDE DEF name, n
<1>4. \A i \in fresh : new(i) \in RowRecords
  BY <1>1, <1>2 DEF RowRecords
<1>5. \A i \in fresh : i \in Ids /\ i > made /\ i <= made + n
  BY <1>1, <1>2, <1>3
<1>6. \A i \in Ids : i > made /\ i <= made + n => i \in fresh
  BY <1>1, <1>2 DEF Ids
<1> HIDE DEF fresh, new, old
<1>7. made' \in 0..MaxRows /\ made' > made
  BY <1>1, <1>2, <1>3 DEF Ids
<1>8. \A i \in Ids : row[i] \in {NoTitle} \cup RowRecords
  BY DEF PicksInv, RowsRight
<1>9. row' \in [Ids -> {NoTitle} \cup RowRecords]
  BY <1>3, <1>4, <1>8
<1>10. \A i \in Ids : i <= made => row'[i] = IF i \in Dropped(r) THEN NoTitle ELSE row[i]
  <2> TAKE i \in Ids
  <2> HAVE i <= made
  <2>1. i \notin fresh
    BY <1>1, <1>5 DEF Ids
  <2>2. row'[i] = IF i \in old THEN row[i] ELSE NoTitle
    BY <2>1, <1>3
  <2> QED
    BY <2>2 DEF old, Rows, Found
<1>11. ASSUME NEW i \in Ids, i > made, Found(i)'
       PROVE  /\ i <= made' /\ row'[i] \in RowRecords
              /\ row'[i].batch = refresh[r].day /\ ~row'[i].flag /\ row'[i].by = r
  <2>1. i \notin Rows
    BY <1>1, <1>11 DEF PicksInv, RowsRight, Ids
  <2>2. i \in fresh
    BY <2>1, <1>3, <1>11 DEF Found, old
  <2>3. row'[i] = new(i)
    BY <2>2, <1>3
  <2> QED
    BY <2>2, <2>3, <1>2, <1>3, <1>4, <1>5 DEF new
<1>12. made + 1 \in Ids /\ row'[made + 1] # NoTitle
  <2>1. made + 1 \in fresh
    BY <1>2
  <2>2. made + 1 \in Ids /\ row'[made + 1] = new(made + 1)
    BY <2>1, <1>3
  <2>3. row'[made + 1] \in RowRecords
    BY <2>1, <2>2, <1>4
  <2>4. row'[made + 1] # NoTitle
    BY <2>3, RowsAre
  <2> QED
    BY <2>2, <2>4
<1> QED
  BY <1>3, <1>7, <1>9, <1>10, <1>11, <1>12

LEMMA DroppedAre ==
    ASSUME NEW r \in Refreshers
    PROVE  Dropped(r) \subseteq Rows
BY DEF Dropped

\* A page and a click change marks only.
LEMMA MarksAre ==
    ASSUME PicksAssumption, PicksInv, ClosePage \/ MarkDownloaded
    PROVE  /\ row' \in [Ids -> {NoTitle} \cup RowRecords]
           /\ \A i \in Ids : /\ Found(i)' <=> Found(i)
                             /\ Found(i) => /\ row'[i].title = row[i].title
                                            /\ row'[i].batch = row[i].batch
                                            /\ row'[i].by = row[i].by
                                            /\ row'[i].flag => \/ row[i].flag
                                                               \/ row[i].title \in accepted
           /\ UNCHANGED <<hour, made, offered, accepted>>
<1>1. \A i \in Ids : row[i] \in {NoTitle} \cup RowRecords
  BY DEF PicksInv, RowsRight
<1>2. CASE ClosePage
  <2>1. UNCHANGED <<hour, made, offered, accepted>>
    BY <1>2 DEF ClosePage
  <2>2. PICK S : row' = [i \in Ids |-> IF i \in S /\ Found(i)
                                       THEN [row[i] EXCEPT !.flag = FALSE] ELSE row[i]]
    BY <1>2 DEF ClosePage
  <2>3. ASSUME NEW i \in Ids, i \in S /\ Found(i)
        PROVE  /\ row'[i] \in RowRecords /\ row'[i].title = row[i].title
               /\ row'[i].batch = row[i].batch /\ row'[i].by = row[i].by /\ ~row'[i].flag
    <3>1. row[i] \in RowRecords /\ row'[i] = [row[i] EXCEPT !.flag = FALSE]
      BY <1>1, <2>2, <2>3 DEF Found
    <3> QED
      BY <3>1 DEF RowRecords
  <2>4. \A i \in Ids : ~(i \in S /\ Found(i)) => row'[i] = row[i]
    BY <2>2
  <2>5. \A i \in Ids : row'[i] \in {NoTitle} \cup RowRecords
    BY <1>1, <2>3, <2>4
  <2>6. row' \in [Ids -> {NoTitle} \cup RowRecords]
    <3>1. row' = [i \in Ids |-> row'[i]]
      BY <2>2
    <3> QED
      BY <3>1, <2>5
  <2>7. ASSUME NEW i \in Ids
        PROVE  /\ Found(i)' <=> Found(i)
               /\ Found(i) => /\ row'[i].title = row[i].title /\ row'[i].batch = row[i].batch
                              /\ row'[i].by = row[i].by /\ (row'[i].flag => row[i].flag)
    <3>1. CASE i \in S /\ Found(i)
      BY <3>1, <2>3, RowsAre DEF Found
    <3>2. CASE ~(i \in S /\ Found(i))
      BY <3>2, <2>4 DEF Found
    <3> QED
      BY <3>1, <3>2
  <2> QED
    BY <2>1, <2>6, <2>7
<1>3. CASE MarkDownloaded
  <2>1. /\ UNCHANGED <<hour, made, offered, accepted>> /\ click.step = "mark" /\ click.id \in Ids
        /\ row' = IF Found(click.id) THEN [row EXCEPT ![click.id].flag = TRUE] ELSE row
    BY <1>3 DEF MarkDownloaded, PicksInv, ClickFits
  <2>2. CASE ~Found(click.id)
    <3>1. row' = row
      BY <2>1, <2>2
    <3> QED
      BY <2>1, <3>1 DEF PicksInv, RowsRight, Found
  <2>3. CASE Found(click.id)
    <3>0. PICK c \in Ids : c = click.id
      BY <2>1
    <3>1. row[c] \in RowRecords /\ row[c].title = click.title /\ click.title \in accepted
      BY <1>1, <2>1, <2>3, <3>0 DEF PicksInv, ClickFits, Found
    <3>2. /\ row'[c] = [row[c] EXCEPT !.flag = TRUE] /\ \A i \in Ids : i # c => row'[i] = row[i]
          /\ row' = [i \in Ids |-> row'[i]]
      BY <2>1, <2>3, <3>0 DEF PicksInv, RowsRight
    <3>3. /\ row'[c] \in RowRecords /\ row'[c].title = row[c].title
          /\ row'[c].batch = row[c].batch /\ row'[c].by = row[c].by
      BY <3>1, <3>2 DEF RowRecords
    <3>4. row' \in [Ids -> {NoTitle} \cup RowRecords]
      BY <1>1, <3>2, <3>3
    <3>5. Found(c) /\ row'[c] # NoTitle
      BY <2>3, <3>0, <3>3, RowsAre
    <3>6. ASSUME NEW i \in Ids
          PROVE  /\ Found(i)' <=> Found(i)
                 /\ Found(i) => /\ row'[i].title = row[i].title
                                /\ row'[i].batch = row[i].batch
                                /\ row'[i].by = row[i].by
                                /\ row'[i].flag => row[i].flag \/ row[i].title \in accepted
      <4>1. CASE i = c
        BY <4>1, <3>1, <3>3, <3>5 DEF Found
      <4>2. CASE i # c
        BY <4>2, <3>2 DEF Found
      <4> QED
        BY <4>1, <4>2
    <3> QED
      BY <2>1, <3>4, <3>6
  <2> QED
    BY <2>2, <2>3
<1> QED
  BY <1>2, <1>3

LEMMA AcceptedGrows ==
    ASSUME PicksNext
    PROVE  accepted \subseteq accepted'
<1>1. CASE \E r \in Refreshers : \/ AskToRefresh(r) \/ Claim(r) \/ Generate(r) \/ InsertPicks(r)
                                 \/ RecordManualRefresh(r) \/ FinishRefresh(r)
  BY <1>1 DEF AskToRefresh, Claim, Generate, InsertPicks, RecordManualRefresh, FinishRefresh
<1>2. CASE StartScan \/ OpenPage \/ ClosePage \/ MarkDownloaded \/ PickTick \/ PicksCrash
  BY <1>2 DEF StartScan, OpenPage, ClosePage, MarkDownloaded, PickTick, PicksCrash
<1>3. CASE AddToService
  BY <1>3 DEF AddToService
<1>4. CASE \E s \in Services : ListService(s) \/ QueueOf(s)
  BY <1>4 DEF ListService, QueueOf
<1>5. CASE \E i \in Ids : Click(i)
  BY <1>5 DEF Click
<1>6. CASE \E t \in Titles : IsQueued(t) \/ \E h \in {"absent", "idle", "wanted", "file"} : Settles(t, h)
  BY <1>6 DEF IsQueued, Settles
<1> QED
  BY <1>1, <1>2, <1>3, <1>4, <1>5, <1>6 DEF PicksNext

LEMMA RowIs ==
    ASSUME PicksInv, NEW i \in Ids, Found(i)
    PROVE  /\ row[i] \in RowRecords /\ i <= made
           /\ row[i].flag => row[i].title \in accepted
BY DEF PicksInv, RowsRight, MarksHitTheirTitle, Rows, Found

LEMMA RowsRightStep ==
    ASSUME PicksAssumption, PicksInv, PicksNext
    PROVE  RowsRight'
<1>0. accepted \subseteq accepted'
  BY AcceptedGrows
<1>1. CASE ~TableStep
  <2>1. row' = row /\ made' = made
    BY <1>1, OtherSteps
  <2> QED
    BY <2>1, <1>0 DEF PicksInv, RowsRight, MarksHitTheirTitle, OneRefreshPerBatch, Rows, Found
<1>2. CASE ClosePage \/ MarkDownloaded
  <2>1. /\ row' \in [Ids -> {NoTitle} \cup RowRecords] /\ made' = made /\ made' \in 0..MaxRows
        /\ \A i \in Ids : Found(i)' => /\ Found(i) /\ row'[i].title = row[i].title
                                       /\ row'[i].batch = row[i].batch /\ row'[i].by = row[i].by
                                       /\ row'[i].flag => row[i].flag \/ row[i].title \in accepted
    BY <1>2, MarksAre DEF PicksInv, RowsRight
  <2>2. \A i \in Rows' : i \in Ids /\ Found(i)' /\ i \in Rows
    BY <2>1 DEF Rows
  <2>3. \A i \in Rows' : i <= made'
    BY <2>1, <2>2 DEF PicksInv, RowsRight
  <2>4. MarksHitTheirTitle'
    <3> SUFFICES ASSUME NEW i \in Ids, Found(i)', row'[i].flag PROVE row'[i].title \in accepted'
      BY DEF MarksHitTheirTitle, Rows
    <3>1. row[i].title \in accepted
      BY <2>1, RowIs
    <3> QED
      BY <3>1, <2>1, <1>0
  <2>5. OneRefreshPerBatch'
    <3>1. \A i, j \in Rows : row[i].batch = row[j].batch /\ {row[i].by, row[j].by} \subseteq PickRequests
                             => row[i].by = row[j].by
      BY DEF PicksInv, RowsRight, OneRefreshPerBatch
    <3>2. \A i \in Rows' : i \in Rows /\ row'[i].batch = row[i].batch /\ row'[i].by = row[i].by
      BY <2>1, <2>2
    <3> QED
      BY <3>1, <3>2 DEF OneRefreshPerBatch
  <2> QED
    BY <2>1, <2>3, <2>4, <2>5 DEF RowsRight
<1>3. ASSUME NEW r \in Refreshers, InsertPicks(r) PROVE RowsRight'
  <2>1. /\ made' \in 0..MaxRows /\ made' > made /\ row' \in [Ids -> {NoTitle} \cup RowRecords]
        /\ \A i \in Ids : i <= made => row'[i] = IF i \in Dropped(r) THEN NoTitle ELSE row[i]
        /\ \A i \in Ids : i > made /\ Found(i)' =>
              /\ i <= made' /\ row'[i] \in RowRecords
              /\ row'[i].batch = refresh[r].day /\ ~row'[i].flag /\ row'[i].by = r
    BY <1>3, InsertIs
  <2>2. made \in Nat /\ MaxRows \in Nat /\ Scan \notin PickRequests
    BY PicksConstants DEF PicksInv, RowsRight
  <2>3. ASSUME NEW i \in Ids, Found(i)', i <= made
        PROVE  Found(i) /\ row'[i] = row[i] /\ i \notin Dropped(r)
    BY <2>1, <2>3 DEF Found
  <2>4. \A i \in Ids : i <= made \/ i > made
    BY <2>2 DEF Ids
  <2>5. ASSUME NEW i \in Rows' PROVE i \in Ids /\ Found(i)'
    BY DEF Rows
  <2>6. ASSUME NEW i \in Rows' PROVE i <= made'
    <3>1. CASE i <= made
      BY <3>1, <2>1, <2>2, <2>5 DEF Ids
    <3> QED
      BY <3>1, <2>1, <2>4, <2>5
  <2>7. MarksHitTheirTitle'
    <3> SUFFICES ASSUME NEW i \in Ids, Found(i)', row'[i].flag PROVE row'[i].title \in accepted'
      BY DEF MarksHitTheirTitle, Rows
    <3>1. i <= made
      BY <2>1, <2>4
    <3>2. Found(i) /\ row'[i] = row[i]
      BY <3>1, <2>3
    <3> QED
      BY <3>2, <1>0, RowIs
  <2>8. OneRefreshPerBatch'
    <3> SUFFICES ASSUME NEW i \in Rows', NEW j \in Rows', row'[i].batch = row'[j].batch,
                        row'[i].by \in PickRequests, row'[j].by \in PickRequests
                 PROVE  row'[i].by = row'[j].by
      BY DEF OneRefreshPerBatch
    <3>1. \A k \in Rows' : k > made => row'[k].batch = refresh[r].day /\ row'[k].by = r
      BY <2>1, <2>5
    <3>2. ASSUME NEW k \in Rows', k <= made
          PROVE  k \in Rows /\ row'[k] = row[k] /\ (r \in PickRequests => row[k].batch # refresh[r].day)
      <4>1. Found(k) /\ row'[k] = row[k] /\ k \notin Dropped(r) /\ k \in Ids
        BY <3>2, <2>3, <2>5
      <4> QED
        BY <4>1 DEF Rows, Dropped
    <3>3. CASE i <= made /\ j <= made
      BY <3>2, <3>3 DEF PicksInv, RowsRight, OneRefreshPerBatch
    <3>4. CASE i > made /\ j > made
      BY <3>1, <3>4
    <3>5. CASE i <= made /\ j > made
      <4>1. row[i].batch = refresh[r].day /\ r \in PickRequests
        BY <3>1, <3>2, <3>5
      <4> QED
        BY <4>1, <3>2, <3>5
    <3>6. CASE i > made /\ j <= made
      <4>1. row[j].batch = refresh[r].day /\ r \in PickRequests
        BY <3>1, <3>2, <3>6
      <4> QED
        BY <4>1, <3>2, <3>6
    <3> QED
      BY <3>3, <3>4, <3>5, <3>6, <2>4, <2>5
  <2> QED
    BY <2>1, <2>6, <2>7, <2>8 DEF RowsRight
<1> QED
  BY <1>1, <1>2, <1>3 DEF TableStep

LEMMA ClickFitsStep ==
    ASSUME PicksAssumption, PicksInv, PicksNext
    PROVE  ClickFits'
<1>0. accepted \subseteq accepted' /\ ClickFits
  BY AcceptedGrows DEF PicksInv
<1>1. CASE click' = NoClick
  <2>1. 1 \in Ids
    BY PicksConstants DEF Ids
  <2> QED
    BY <1>1, <2>1 DEF ClickFits, NoClick
<1>2. ASSUME NEW i \in Ids, Click(i) PROVE ClickFits'
  <2>1. /\ Found(i) /\ click' = [step |-> "add", id |-> i, title |-> row[i].title]
        /\ row' = row /\ made' = made
    BY <1>2 DEF Click, table, Rows
  <2>2. i <= made /\ row[i].title \in Titles
    BY <2>1, RowIs, RowsAre
  <2> QED
    BY <2>1, <2>2 DEF ClickFits, Found
<1>3. CASE AddToService /\ click' # NoClick
  <2>1. /\ click' = [click EXCEPT !.step = "mark"] /\ row' = row /\ made' = made
        /\ accepted' = accepted \cup {click.title} /\ click.step = "add"
    BY <1>3 DEF AddToService, table
  <2>2. /\ click'.step = "mark" /\ click'.id = click.id /\ click'.title = click.title
        /\ click' \in [step : {"idle", "add", "mark"}, id : Ids, title : Titles \cup {"none"}]
    BY <2>1, <1>0 DEF ClickFits
  <2> QED
    BY <2>1, <2>2, <1>0 DEF ClickFits, Found
<1>4. CASE click' = click /\ ~TableStep
  <2>1. row' = row /\ made' = made
    BY <1>4, OtherSteps
  <2> QED
    BY <2>1, <1>0, <1>4 DEF ClickFits, Found
<1>5. CASE click' = click /\ (ClosePage \/ MarkDownloaded)
  <2>1. /\ made' = made
        /\ \A i \in Ids : Found(i)' => Found(i) /\ row'[i].title = row[i].title
    BY <1>5, MarksAre
  <2>2. click.id \in Ids
    BY <1>0 DEF ClickFits
  <2>3. row'[click.id] # NoTitle => /\ row[click.id] # NoTitle
                                    /\ row'[click.id].title = row[click.id].title
    BY <2>1, <2>2 DEF Found
  <2> QED
    BY <2>1, <2>3, <1>0, <1>5 DEF ClickFits, Found
<1>6. ASSUME NEW r \in Refreshers, InsertPicks(r) PROVE ClickFits'
  <2>1. /\ made' > made /\ click' = click /\ made' \in 0..MaxRows
        /\ \A i \in Ids : i <= made => row'[i] = IF i \in Dropped(r) THEN NoTitle ELSE row[i]
    BY <1>6, InsertIs
  <2>2. click.id \in Ids /\ made \in Nat /\ MaxRows \in Nat
    BY <1>0, PicksConstants DEF ClickFits, PicksInv, RowsRight
  <2>3. click.step # "idle" => /\ click.id <= made'
                               /\ row'[click.id] # NoTitle => row'[click.id] = row[click.id]
    BY <2>1, <2>2, <1>0 DEF ClickFits, Ids
  <2> QED
    BY <2>1, <2>3, <1>0 DEF ClickFits, Found
<1>7. CASE \E r \in Refreshers : \/ AskToRefresh(r) \/ Claim(r) \/ Generate(r)
                                 \/ RecordManualRefresh(r) \/ FinishRefresh(r)
  <2>1. click' = click
    BY <1>7 DEF AskToRefresh, Claim, Generate, RecordManualRefresh, FinishRefresh
  <2> QED
    BY <2>1, <1>4, <1>5, <1>6 DEF TableStep
<1>8. CASE StartScan \/ OpenPage \/ ClosePage \/ PickTick
  <2>1. click' = click
    BY <1>8 DEF StartScan, OpenPage, ClosePage, PickTick
  <2> QED
    BY <2>1, <1>4, <1>5, <1>6 DEF TableStep
<1>9. CASE MarkDownloaded \/ PicksCrash
  BY <1>1, <1>9 DEF MarkDownloaded, PicksCrash
<1>10. CASE \E s \in Services : ListService(s) \/ QueueOf(s)
  <2>1. click' = click
    BY <1>10 DEF ListService, QueueOf
  <2> QED
    BY <2>1, <1>4, <1>5, <1>6 DEF TableStep
<1>11. CASE \E t \in Titles : IsQueued(t) \/ \E h \in {"absent", "idle", "wanted", "file"} : Settles(t, h)
  <2>1. click' = click
    BY <1>11 DEF IsQueued, Settles
  <2> QED
    BY <2>1, <1>4, <1>5, <1>6 DEF TableStep
<1> QED
  BY <1>1, <1>2, <1>3, <1>6, <1>7, <1>8, <1>9, <1>10, <1>11 DEF PicksNext

LEMMA BatchesStayStep ==
    ASSUME PicksAssumption, PicksInv, PicksNext
    PROVE  BatchesStay'
<1>0. /\ Today \in Nat /\ hour \in Nat /\ PickDay \in Nat \ {0} /\ KeepDays \in Nat /\ MaxPickTime \in Nat
      /\ offered \in SUBSET (0..MaxPickTime)
      /\ \A d \in offered : d + KeepDays >= Today => \E i \in Rows : row[i].batch = d
  BY TimeIs, PicksConstants DEF PicksInv, BatchesStay, PicksStay
<1>1. CASE ~TableStep
  <2>1. row' = row /\ offered' = offered
    BY <1>1, OtherSteps
  <2>2. Today' \in Nat /\ Today' >= Today
    <3>1. hour' \in {hour, hour + 1}
      <4>1. CASE \E r \in Refreshers : \/ AskToRefresh(r) \/ Claim(r) \/ Generate(r)
                                       \/ RecordManualRefresh(r) \/ FinishRefresh(r)
        BY <4>1 DEF AskToRefresh, Claim, Generate, RecordManualRefresh, FinishRefresh
      <4>2. CASE StartScan \/ OpenPage \/ AddToService \/ PickTick \/ PicksCrash
        BY <4>2 DEF StartScan, OpenPage, AddToService, PickTick, PicksCrash
      <4>3. CASE \E s \in Services : ListService(s) \/ QueueOf(s)
        BY <4>3 DEF ListService, QueueOf
      <4>4. CASE \E i \in Ids : Click(i)
        BY <4>4 DEF Click
      <4>5. CASE \E t \in Titles : IsQueued(t) \/ \E h \in {"absent", "idle", "wanted", "file"} : Settles(t, h)
        BY <4>5 DEF IsQueued, Settles
      <4> QED
        BY <1>1, <4>1, <4>2, <4>3, <4>4, <4>5 DEF PicksNext, TableStep
    <3>2. CASE hour' = hour
      BY <3>2, <1>0 DEF Today
    <3>3. CASE hour' = hour + 1
      <4>1. hour' \in Nat /\ hour' \div PickDay \in Nat /\ hour \div PickDay <= hour' \div PickDay /\ hour \div PickDay \in Nat
        BY <3>3, <1>0, DaysGrow
      <4> QED
        BY <4>1 DEF Today
    <3> QED
      BY <3>1, <3>2, <3>3
  <2>3. PicksStay'
    <3> SUFFICES ASSUME NEW d \in offered, d + KeepDays >= Today'
                 PROVE  \E i \in Rows' : row'[i].batch = d
      BY <2>1 DEF PicksStay
    <3>1. d + KeepDays >= Today
      BY <2>2, <1>0
    <3>2. Rows' = Rows
      BY <2>1 DEF Rows, Found
    <3> QED
      BY <3>1, <3>2, <2>1, <1>0
  <2> QED
    BY <2>1, <2>3, <1>0 DEF BatchesStay
<1>2. CASE ClosePage \/ MarkDownloaded
  <2>1. /\ \A i \in Ids : Found(i) => Found(i)' /\ row'[i].batch = row[i].batch
        /\ hour' = hour /\ offered' = offered
    BY <1>2, MarksAre
  <2>2. \A i \in Rows : i \in Rows' /\ row'[i].batch = row[i].batch
    BY <2>1 DEF Rows
  <2>3. Today' = Today
    BY <2>1 DEF Today
  <2>4. PicksStay'
    BY <2>1, <2>2, <2>3, <1>0 DEF PicksStay
  <2> QED
    BY <2>1, <2>4, <1>0 DEF BatchesStay
<1>3. ASSUME NEW r \in Refreshers, InsertPicks(r) PROVE BatchesStay'
  <2>1. /\ \A i \in Ids : i <= made => row'[i] = IF i \in Dropped(r) THEN NoTitle ELSE row[i]
        /\ \A i \in Ids : i > made /\ Found(i)' => row'[i].batch = refresh[r].day
        /\ made + 1 \in Ids /\ row'[made + 1] # NoTitle
        /\ offered' = offered \cup {refresh[r].day} /\ hour' = hour
    BY <1>3, InsertIs
  <2>2. Today' = Today
    BY <2>1 DEF Today
  <2>3. refresh[r].day \in 0..MaxPickTime /\ refresh[r].day <= Today
    BY RefreshIs DEF PicksInv, RefreshFits, Today
  <2>4. \E i \in Rows' : row'[i].batch = refresh[r].day
    <3>1. PICK k \in Ids : k = made + 1
      BY <2>1
    <3>2. k > made
      BY <3>1, PicksConstants DEF PicksInv, RowsRight
    <3>3. k \in Rows' /\ row'[k].batch = refresh[r].day
      BY <2>1, <3>1, <3>2 DEF Rows, Found
    <3> QED
      BY <3>3
  <2>5. ASSUME NEW d \in offered, d + KeepDays >= Today, d # refresh[r].day
        PROVE  \E i \in Rows' : row'[i].batch = d
    <3>1. PICK i \in Rows : row[i].batch = d
      BY <1>0, <2>5
    <3>2. i \in Ids /\ i <= made /\ Found(i)
      BY RowIs DEF Rows
    <3>3. i \notin Dropped(r)
      <4>1. CASE r \in PickRequests
        BY <4>1, <3>1, <2>5 DEF Dropped
      <4>2. CASE r \notin PickRequests
        <5>1. d \in Nat /\ refresh[r].day \in Nat
          BY <1>0, <2>3
        <5>2. ~(d + KeepDays < refresh[r].day)
          BY <5>1, <1>0, <2>3, <2>5
        <5> QED
          BY <4>2, <5>2, <3>1 DEF Dropped
      <4> QED
        BY <4>1, <4>2
    <3>4. i \in Rows' /\ row'[i].batch = d
      BY <3>1, <3>2, <3>3, <2>1 DEF Rows, Found
    <3> QED
      BY <3>4
  <2>6. PicksStay'
    BY <2>1, <2>2, <2>4, <2>5 DEF PicksStay
  <2> QED
    BY <2>1, <2>3, <2>6, <1>0 DEF BatchesStay
<1> QED
  BY <1>1, <1>2, <1>3 DEF TableStep

-----------------------------------------------------------------------------
(* Recommendations: the page.                                              *)

\* A list that services have answered, for some of the titles.
Lists == UNION {[S -> HeldStates] : S \in SUBSET Titles}

LEMMA ListIs ==
    ASSUME NEW S \in SUBSET Titles, NEW list, list \in [S -> HeldStates]
    PROVE  list \in Lists /\ DOMAIN list = S
BY DEF Lists

LEMMA EmptyList == <<>> \in Lists /\ DOMAIN <<>> = {}
<1>1. <<>> = [t \in {} |-> "absent"]
  OBVIOUS
<1>2. <<>> \in [{} -> HeldStates]
  BY <1>1
<1> QED
  BY <1>2, ListIs

LEMMA SheetIs ==
    ASSUME NEW sheet \in Sheets
    PROVE  /\ sheet.rows \in SUBSET [id : Ids, title : Titles, flag : BOOLEAN]
           /\ DOMAIN sheet.list \in SUBSET Titles
           /\ sheet.list \in [DOMAIN sheet.list -> HeldStates]
           /\ sheet.heard \in SUBSET Services /\ sheet.queue \in SUBSET Titles
           /\ sheet.ready \in SUBSET Services /\ sheet.gone \in SUBSET Titles
<1>1. PICK S \in SUBSET Titles : sheet.list \in [S -> HeldStates]
  BY DEF Sheets
<1>2. DOMAIN sheet.list = S
  BY <1>1
<1> QED
  BY <1>1, <1>2 DEF Sheets

LEMMA NoPageIs == NoPage \in Sheets /\ ListFits(NoPage.list, NoPage.gone) /\ NoPage.rows = {}
<1>1. NoPage \in Sheets
  BY EmptyList DEF NoPage, Sheets, Lists
<1> QED
  BY <1>1, EmptyList DEF NoPage, ListFits

\* What a page forgets and what services do not answer takes nothing of a title it has
\* wrongly been told to be gone.
LEMMA PageFitsStep ==
    ASSUME PicksAssumption, PicksInv, PicksNext
    PROVE  PageFits'
<1>0. /\ page \in Sheets /\ ListFits(page.list, page.gone) /\ wronged = {}
      /\ held \in [Titles -> HeldStates] /\ queued \in SUBSET Titles
      /\ Building => \A t \in Titles : Missing(t, held[t]) => t \in page.gone
  BY DEF PicksInv, PageFits, MarksLostByTheGone
<1>1. /\ page.rows \in SUBSET [id : Ids, title : Titles, flag : BOOLEAN]
      /\ DOMAIN page.list \in SUBSET Titles /\ page.list \in [DOMAIN page.list -> HeldStates]
      /\ page.heard \in SUBSET Services /\ page.queue \in SUBSET Titles
      /\ page.ready \in SUBSET Services /\ page.gone \in SUBSET Titles
  BY <1>0, SheetIs
<1>2. \A s \in Services : s \in SUBSET Titles
  BY DEF Services
<1>3. CASE UNCHANGED <<page, held, queued, wronged>>
  BY <1>0, <1>3 DEF PageFits, Building, MarksLostByTheGone
<1>4. CASE page' = NoPage /\ UNCHANGED <<held, queued, wronged>>
  BY <1>0, <1>4, NoPageIs DEF PageFits, Building, MarksLostByTheGone
<1>5. CASE OpenPage
  <2> DEFINE rows == {[id |-> i, title |-> row[i].title, flag |-> row[i].flag] : i \in Rows}
             gone == {t \in Titles : Missing(t, held[t])}
  <2>1. page' = [NoPage EXCEPT !.rows = rows, !.gone = gone] /\ UNCHANGED <<held, queued, wronged>>
    BY <1>5 DEF OpenPage, outside
  <2>2. rows \in SUBSET [id : Ids, title : Titles, flag : BOOLEAN]
    <3>1. \A i \in Rows : i \in Ids /\ row[i].title \in Titles /\ row[i].flag \in BOOLEAN
      BY RowIs DEF Rows, RowRecords
    <3> QED
      BY <3>1
  <2>3. gone \in SUBSET Titles /\ \A t \in Titles : Missing(t, held[t]) => t \in gone
    OBVIOUS
  <2> HIDE DEF rows, gone
  <2>4. page' \in Sheets /\ page'.gone = gone /\ page'.list = <<>>
    BY <2>1, <2>2, <2>3, NoPageIs DEF Sheets, NoPage
  <2> QED
    BY <2>1, <2>3, <2>4, <1>0, EmptyList DEF PageFits, ListFits, MarksLostByTheGone
<1>6. ASSUME NEW s \in Services, ListService(s) PROVE PageFits'
  <2> DEFINE more == [t \in s \cup DOMAIN page.list |-> IF t \in s THEN held[t] ELSE page.list[t]]
  <2>1. PICK answers \in BOOLEAN :
          page' = [page EXCEPT !.heard = @ \cup {s},
                               !.ready = IF answers THEN @ ELSE @ \cup {s},
                               !.list = IF answers THEN more ELSE @]
    BY <1>6 DEF ListService
  <2>2. Building /\ UNCHANGED <<held, queued, wronged>>
    BY <1>6 DEF ListService, outside
  <2>3. more \in Lists /\ ListFits(more, page.gone)
    <3>1. s \cup DOMAIN page.list \in SUBSET Titles
      BY <1>1, <1>2
    <3>2. more \in [s \cup DOMAIN page.list -> HeldStates]
      BY <1>0, <1>1, <1>2
    <3>3. ASSUME NEW t \in s \cup DOMAIN page.list, Missing(t, more[t]) PROVE t \in page.gone
      <4>1. CASE t \in s
        BY <4>1, <3>3, <2>2, <1>0, <1>2
      <4>2. CASE t \notin s
        BY <4>2, <3>3, <1>0 DEF ListFits
      <4> QED
        BY <4>1, <4>2
    <3> HIDE DEF more
    <3>4. more \in Lists /\ DOMAIN more = s \cup DOMAIN page.list
      BY <3>1, <3>2, ListIs
    <3> QED
      BY <3>3, <3>4 DEF ListFits
  <2> HIDE DEF more
  <2>4. /\ page' \in Sheets /\ page'.list \in {more, page.list} /\ page'.gone = page.gone
        /\ page'.rows = page.rows
    BY <2>1, <2>3, <1>0, <1>1 DEF Sheets, Lists
  <2> QED
    BY <2>2, <2>3, <2>4, <1>0 DEF PageFits, Building, MarksLostByTheGone
<1>7. ASSUME NEW s \in Services, QueueOf(s) PROVE PageFits'
  <2> DEFINE less == [t \in DOMAIN page.list \ s |-> page.list[t]]
  <2>1. PICK answers \in BOOLEAN :
          page' = [page EXCEPT !.ready = @ \cup {s},
                               !.queue = IF answers THEN @ \cup (queued \cap s) ELSE @,
                               !.list = IF answers THEN @ ELSE less]
    BY <1>7 DEF QueueOf
  <2>2. UNCHANGED <<held, queued, wronged>>
    BY <1>7 DEF QueueOf, outside
  <2>3. less \in Lists /\ ListFits(less, page.gone)
    <3>1. DOMAIN page.list \ s \in SUBSET Titles /\ less \in [DOMAIN page.list \ s -> HeldStates]
      BY <1>1
    <3>2. \A t \in DOMAIN page.list \ s : less[t] = page.list[t]
      OBVIOUS
    <3> HIDE DEF less
    <3>3. less \in Lists /\ DOMAIN less = DOMAIN page.list \ s
      BY <3>1, ListIs
    <3> QED
      BY <3>2, <3>3, <1>0 DEF ListFits
  <2> HIDE DEF less
  <2>4. /\ page' \in Sheets /\ page'.list \in {less, page.list} /\ page'.gone = page.gone
        /\ page'.rows = page.rows
    BY <2>1, <2>3, <1>0, <1>1 DEF Sheets, Lists
  <2> QED
    BY <2>2, <2>3, <2>4, <1>0 DEF PageFits, Building, MarksLostByTheGone
<1>8. CASE ClosePage
  <2> DEFINE stale == {rec \in page.rows : rec.flag /\ rec.title \in DOMAIN page.list
                                           /\ ~HasState(rec.title)}
  <2>1. /\ page' = NoPage /\ UNCHANGED <<held, queued>>
        /\ wronged' = wronged \cup {rec.title : rec \in {x \in stale : x.title \notin page.gone}}
    BY <1>8 DEF ClosePage, outside
  <2>2. ASSUME NEW x \in stale PROVE x.title \in page.gone
    <3>1. x.title \in DOMAIN page.list /\ ~HasState(x.title)
      OBVIOUS
    <3>2. page.list[x.title] \in HeldStates
      BY <3>1, <1>1
    <3>3. Missing(x.title, page.list[x.title])
      BY <3>1, <3>2 DEF HasState, Missing, HeldStates
    <3> QED
      BY <3>1, <3>3, <1>0 DEF ListFits
  <2>3. wronged' = wronged
    BY <2>1, <2>2
  <2> QED
    BY <2>1, <2>3, <1>4
<1>9. CASE AddToService
  <2>1. UNCHANGED <<page, queued, wronged>> /\ click.title \in Titles
    BY <1>9 DEF AddToService, PicksInv, ClickFits
  <2>2. \/ held' = held
        \/ held' = [held EXCEPT ![click.title] = "wanted"]
    BY <1>9 DEF AddToService
  <2>3. /\ held' \in [Titles -> HeldStates]
        /\ \A t \in Titles : held'[t] = held[t] \/ held'[t] = "wanted"
    BY <2>1, <2>2, <1>0 DEF HeldStates
  <2>4. \A t \in Titles : Missing(t, held'[t]) => Missing(t, held[t])
    BY <2>3 DEF Missing
  <2> QED
    BY <2>1, <2>3, <2>4, <1>0 DEF PageFits, Building, MarksLostByTheGone
<1>10. ASSUME NEW t \in Titles, NEW h \in HeldStates, Settles(t, h) PROVE PageFits'
  <2>1. /\ held' = [held EXCEPT ![t] = h] /\ queued' \in {queued, queued \ {t}}
        /\ page' = IF Building /\ Missing(t, h) THEN [page EXCEPT !.gone = @ \cup {t}] ELSE page
        /\ wronged' = wronged
    BY <1>10 DEF Settles
  <2>2. /\ held' \in [Titles -> HeldStates] /\ held'[t] = h
        /\ \A u \in Titles : u # t => held'[u] = held[u]
    BY <2>1, <1>0
  <2>3. queued' \in SUBSET Titles
    BY <2>1, <1>0
  <2>4. /\ page' \in Sheets /\ page'.list = page.list /\ page'.rows = page.rows
        /\ page.gone \subseteq page'.gone
        /\ Building /\ Missing(t, h) => t \in page'.gone
    BY <2>1, <1>0, <1>1 DEF Sheets
  <2>5. ListFits(page'.list, page'.gone)
    BY <2>4, <1>0 DEF ListFits
  <2>6. Building => \A u \in Titles : Missing(u, held'[u]) => u \in page'.gone
    BY <2>2, <2>4, <1>0
  <2> QED
    BY <2>1, <2>2, <2>3, <2>4, <2>5, <2>6, <1>0 DEF PageFits, Building, MarksLostByTheGone
<1>11. ASSUME NEW t \in Titles, IsQueued(t) PROVE PageFits'
  <2>1. queued' \in SUBSET Titles /\ UNCHANGED <<page, held, wronged>>
    BY <1>11, <1>0 DEF IsQueued
  <2> QED
    BY <2>1, <1>0 DEF PageFits, Building, MarksLostByTheGone
<1>12. CASE \E r \in Refreshers : \/ AskToRefresh(r) \/ Claim(r) \/ Generate(r) \/ InsertPicks(r)
                                  \/ RecordManualRefresh(r) \/ FinishRefresh(r)
  BY <1>3, <1>12 DEF AskToRefresh, Claim, Generate, InsertPicks, RecordManualRefresh, FinishRefresh,
                     outside
<1>13. CASE StartScan \/ MarkDownloaded \/ PickTick
  BY <1>3, <1>13 DEF StartScan, MarkDownloaded, PickTick, outside
<1>14. CASE \E i \in Ids : Click(i)
  BY <1>3, <1>14 DEF Click, outside
<1>15. CASE PicksCrash
  BY <1>4, <1>15 DEF PicksCrash
<1> QED
  BY <1>5, <1>6, <1>7, <1>8, <1>9, <1>10, <1>11, <1>12, <1>13, <1>14, <1>15
  DEF PicksNext, HeldStates

-----------------------------------------------------------------------------
(* Recommendations: the theorem.                                           *)

LEMMA MovesCount ==
    ASSUME PicksAssumption, PicksInv, PicksNext
    PROVE  moves' \in 0..MaxMoves
<1>0. moves \in 0..MaxMoves /\ MaxMoves \in Nat
  BY PicksConstants DEF PicksInv
<1>1. CASE Move
  BY <1>0, <1>1 DEF Move
<1>2. CASE moves' = moves
  BY <1>0, <1>2
<1>3. CASE \E r \in Refreshers : \/ AskToRefresh(r) \/ Claim(r) \/ Generate(r) \/ InsertPicks(r)
                                 \/ RecordManualRefresh(r) \/ FinishRefresh(r)
  BY <1>2, <1>3 DEF AskToRefresh, Claim, Generate, InsertPicks, RecordManualRefresh, FinishRefresh
<1>4. CASE StartScan \/ OpenPage \/ PicksCrash
  BY <1>1, <1>4 DEF StartScan, OpenPage, PicksCrash
<1>5. CASE ClosePage \/ MarkDownloaded \/ PickTick \/ AddToService
  BY <1>2, <1>5 DEF ClosePage, MarkDownloaded, PickTick, AddToService
<1>6. CASE \E s \in Services : ListService(s) \/ QueueOf(s)
  BY <1>2, <1>6 DEF ListService, QueueOf
<1>7. CASE \E i \in Ids : Click(i)
  BY <1>1, <1>7 DEF Click
<1>8. CASE \E t \in Titles : IsQueued(t) \/ \E h \in {"absent", "idle", "wanted", "file"} : Settles(t, h)
  BY <1>1, <1>8 DEF IsQueued, Settles
<1> QED
  BY <1>3, <1>4, <1>5, <1>6, <1>7, <1>8 DEF PicksNext

LEMMA PicksInvInit ==
    ASSUME PicksAssumption, PicksInit
    PROVE  PicksInv
<1>0. /\ PickDay \in Nat \ {0} /\ MaxRows \in Nat \ {0} /\ KeepDays \in Nat /\ MaxPickTime \in Nat
      /\ MaxMoves \in Nat
  BY PicksConstants
<1>1. RefreshesFit
  <2>1. /\ refresh = [r \in Refreshers |-> Resting] /\ hour = 0 /\ lastRefresh = {} /\ lease = {}
    BY DEF PicksInit
  <2>2. /\ Resting \in RefreshRecords /\ Resting.step = "idle" /\ Resting.asked = 0
        /\ Resting.day = 0
    BY <1>0 DEF Resting, RefreshRecords, RefreshSteps
  <2>3. 0 \div PickDay \in Nat
    BY <1>0, DaysGrow
  <2>4. \A r \in Refreshers : RefreshFits(r, Resting, {}, {}, 0)
    BY <2>2, <2>3 DEF RefreshFits, WorkSteps
  <2> QED
    BY <2>1, <2>2, <2>4, <1>0 DEF RefreshesFit
<1>2. RowsRight
  <2>1. row = [i \in Ids |-> NoTitle] /\ made = 0
    BY DEF PicksInit
  <2>2. Rows = {}
    BY <2>1 DEF Rows, Found
  <2> QED
    BY <2>1, <2>2, <1>0 DEF RowsRight, MarksHitTheirTitle, OneRefreshPerBatch
<1>3. ClickFits
  <2>1. click = NoClick /\ 1 \in Ids
    BY <1>0 DEF PicksInit, Ids
  <2> QED
    BY <2>1 DEF ClickFits, NoClick
<1>4. BatchesStay
  BY DEF PicksInit, BatchesStay, PicksStay
<1>5. PageFits
  <2>1. /\ page = NoPage /\ queued = {} /\ wronged = {}
        /\ held \in [Titles -> {"absent", "wanted"}]
    BY DEF PicksInit
  <2>2. held \in [Titles -> HeldStates]
    BY <2>1 DEF HeldStates
  <2> QED
    BY <2>1, <2>2, NoPageIs DEF PageFits, Building, MarksLostByTheGone
<1>6. moves \in 0..MaxMoves
  BY <1>0 DEF PicksInit
<1> QED
  BY <1>1, <1>2, <1>3, <1>4, <1>5, <1>6 DEF PicksInv

LEMMA PicksInvStep ==
    ASSUME PicksAssumption, PicksInv, [PicksNext]_pickVars
    PROVE  PicksInv'
<1>1. CASE PicksNext
  <2>1. RefreshesFit'
    BY <1>1, RefreshesFitStep DEF PicksInv
  <2> QED
    BY <2>1, <1>1, RowsRightStep, ClickFitsStep, BatchesStayStep, PageFitsStep, MovesCount
    DEF PicksInv
<1>2. CASE UNCHANGED pickVars
  <2>1. RefreshesFit'
    BY <1>2 DEF pickVars, PicksInv, RefreshesFit
  <2>2. RowsRight'
    BY <1>2 DEF pickVars, PicksInv, RowsRight, MarksHitTheirTitle, OneRefreshPerBatch, Rows, Found
  <2>3. ClickFits'
    BY <1>2 DEF pickVars, PicksInv, ClickFits, Found
  <2>4. BatchesStay'
    BY <1>2 DEF pickVars, PicksInv, BatchesStay, PicksStay, Rows, Found, Today
  <2>5. PageFits'
    BY <1>2 DEF pickVars, PicksInv, PageFits, Building, MarksLostByTheGone
  <2>6. moves' \in 0..MaxMoves
    BY <1>2 DEF pickVars, PicksInv
  <2> QED
    BY <2>1, <2>2, <2>3, <2>4, <2>5, <2>6 DEF PicksInv
<1> QED
  BY <1>1, <1>2

LEMMA PicksInvHolds ==
    ASSUME PicksAssumption, PicksInv
    PROVE  SuggestionsKept
<1>1. MarksHitTheirTitle /\ MarksLostByTheGone /\ PicksStay /\ OneRefreshPerBatch
  BY DEF PicksInv, RowsRight, PageFits, BatchesStay
<1>2. RefreshesApart
  <2> SUFFICES ASSUME NEW r \in PickRequests, Working(r)
               PROVE  /\ lease = {r}
                      /\ \A t \in lastRefresh : t >= refresh[r].asked \/ hour - t >= PickDay
    BY DEF RefreshesApart
  <2>1. r \in Refreshers
    BY DEF Refreshers
  <2>2. RefreshFits(r, refresh[r], lastRefresh, lease, hour)
    BY <2>1, RefreshIs DEF PicksInv
  <2>3. refresh[r].step \in WorkSteps
    BY DEF Working, WorkSteps
  <2> QED
    BY <2>2, <2>3 DEF RefreshFits
<1>3. PicksTypeOK
  <2>1. /\ hour \in 0..MaxPickTime /\ made \in 0..MaxRows /\ moves \in 0..MaxMoves
        /\ row \in [Ids -> {NoTitle} \cup RowRecords] /\ lease \in SUBSET PickRequests
    BY DEF PicksInv, RefreshesFit, RowsRight
  <2>2. lastRefresh \in SUBSET (0..MaxPickTime)
    <3>1. lastRefresh \in SUBSET (0..hour)
      BY DEF PicksInv, RefreshesFit
    <3>2. 0..hour \subseteq 0..MaxPickTime
      BY <2>1, PicksConstants
    <3> QED
      BY <3>1, <3>2
  <2>3. held \in [Titles -> {"absent", "idle", "wanted", "file"}] /\ queued \subseteq Titles
    BY DEF PicksInv, PageFits, HeldStates
  <2>4. click \in [step : {"idle", "add", "mark"}, id : Ids, title : Titles \cup {"none"}]
    BY DEF PicksInv, ClickFits
  <2> QED
    BY <2>1, <2>2, <2>3, <2>4 DEF PicksTypeOK, RowRecords
<1> QED
  BY <1>1, <1>2, <1>3 DEF SuggestionsKept

\* Whatever scans, refreshes, pages, clicks and services do in whatever order, for any titles,
\* requests, days and times: marks are those of titles the button has added and are taken
\* back only from titles that were gone, a day keeps its picks, and refreshes run alone
\* (_insert_recommendations, mark_downloaded, attach_download_states,
\* api_refresh_recommendations).
THEOREM SuggestionsKeptAlways == PicksSpec => []SuggestionsKept
<1> USE PicksAssumed
<1>1. PicksInit => PicksInv
  BY PicksInvInit
<1>2. PicksInv /\ [PicksNext]_pickVars => PicksInv'
  BY PicksInvStep
<1>3. PicksInv => SuggestionsKept
  BY PicksInvHolds
<1> QED
  BY <1>1, <1>2, <1>3, PTL DEF PicksSpec
=============================================================================
