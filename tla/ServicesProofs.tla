--------------------------- MODULE ServicesProofs ----------------------------
(***************************************************************************)
(* Deletions by hand and the scanner's judgement, for any number of items, *)
(* libraries, workers and intents, and any ages.                           *)
(***************************************************************************)
EXTENDS LibraryDelete, Eligibility, SequenceTheorems, WellFoundedInduction, TLAPS

-----------------------------------------------------------------------------
(* Deletions by hand: the invariant.                                       *)

Going(w)  == request[w] # NoRequest
Holds(w, n) == Going(w) /\ request[w].intent = n

\* A pending intent whose request is not about to complete it: nobody but the
\* next start will take it off the record while its row is there.
Standing(n) == n \in Pending /\ \A w \in Workers : Holds(w, n) => request[w].at # 4

OwedStands ==
    /\ owed \subseteq rows
    /\ \A i \in owed : \E n \in Pending : intents[n].item = i /\ Standing(n)

\* Every request has an intent of its own, which it alone completes.
RequestsOwn ==
    /\ \A w \in Workers : Going(w) /\ request[w].intent # NoIntent =>
          request[w].intent \in Pending /\ intents[request[w].intent].item = request[w].item
    /\ \A v, w \in Workers : v # w /\ Going(v) /\ Holds(w, request[v].intent) =>
          request[v].intent = NoIntent

\* Requests are served once the start-up is over; its list names intents, and
\* those whose row it has dropped already owe nothing.
StartsClean ==
    /\ phase # "up" => \A w \in Workers : request[w] = NoRequest
    /\ \A e \in todo : phase = "boot" /\ e[1] \in DOMAIN intents
    /\ \A e \in todo : e[2] = "intent" => intents[e[1]].item \notin owed

\* A library on the list has been doubted, and one whose rows go after a doubt
\* has been doubted twice, unless the list was written over since it was read.
MarksRight ==
    /\ \A l \in marked \ blurred : doubts[l] \in {1, 2}
    /\ \A j \in Jobs : pass[j] # NoPass /\ pass[j].step = "drop" =>
          pass[j].looks = 2 \/ pass[j].mixed

LibraryInv == LibraryTypeOK /\ OwedStands /\ RequestsOwn /\ StartsClean /\ MarksRight

-----------------------------------------------------------------------------
(* Types. *)

\* The fields of a request, and where it is.
LEMMA RequestIs ==
    ASSUME LibraryTypeOK, NEW w \in Workers
    PROVE  /\ Going(w) => request[w] \in Requests
           /\ At(w, "record") => Up /\ Going(w) /\ request[w].at = 1
           /\ At(w, "call") => Up /\ Going(w) /\ request[w].at = 2
           /\ At(w, "finalise") => Up /\ Going(w) /\ request[w].at = 3
           /\ At(w, "complete") => Up /\ Going(w) /\ request[w].at = 4
<1>1. Going(w) => request[w] \in Requests
  BY DEF Going, LibraryTypeOK
<1>2. /\ DeleteSteps[1] = "record" /\ DeleteSteps[2] = "call"
      /\ DeleteSteps[3] = "finalise" /\ DeleteSteps[4] = "complete"
  BY DEF DeleteSteps
<1>3. Going(w) => request[w].at \in {1, 2, 3, 4}
  BY <1>1 DEF Requests
<1> QED
  BY <1>1, <1>2, <1>3 DEF At, Going

\* The pending intents are among the recorded ones.
LEMMA IntentsAre ==
    ASSUME LibraryTypeOK
    PROVE  /\ DOMAIN intents = 1..Len(intents) /\ Len(intents) \in Nat
           /\ DOMAIN intents \subseteq 1..MaxIntents /\ Pending \subseteq DOMAIN intents
           /\ \A n \in DOMAIN intents : intents[n] \in Intents
           /\ MaxIntents \in Nat
<1>1. MaxIntents \in Nat
  BY LibraryAssumption
<1>2. DOMAIN intents = 1..Len(intents) /\ Len(intents) \in Nat
      /\ \A n \in DOMAIN intents : intents[n] \in Intents
  BY DEF LibraryTypeOK
<1> QED
  BY <1>1, <1>2 DEF LibraryTypeOK, Pending

\* UPDATE delete_intents: one intent changes its state, none its item.
LEMMA MarkIs ==
    ASSUME LibraryTypeOK, NEW n \in DOMAIN intents, NEW s \in {"open", "failed", "done"}, Mark(n, s)
    PROVE  /\ intents' \in Seq(Intents) /\ Len(intents') = Len(intents) /\ DOMAIN intents' = DOMAIN intents
           /\ \A m \in DOMAIN intents :
                 /\ intents'[m].item = intents[m].item
                 /\ intents'[m].state = IF m = n THEN s ELSE intents[m].state
<1>1. intents' = [intents EXCEPT ![n] = [intents[n] EXCEPT !.state = s]]
  BY DEF Mark
<1>2. [intents[n] EXCEPT !.state = s] \in Intents
  BY IntentsAre DEF Intents
<1>3. intents' \in Seq(Intents) /\ Len(intents') = Len(intents)
  BY <1>1, <1>2, ExceptSeq DEF LibraryTypeOK
<1>4. DOMAIN intents' = DOMAIN intents
  BY <1>1
<1> QED
  BY <1>1, <1>3, <1>4, IntentsAre DEF Intents

\* INSERT INTO delete_intents: a new last one.
LEMMA AppendIs ==
    ASSUME LibraryTypeOK, NEW r \in Intents, intents' = Append(intents, r)
    PROVE  /\ intents' \in Seq(Intents) /\ Len(intents') = Len(intents) + 1
           /\ DOMAIN intents' = DOMAIN intents \union {Len(intents) + 1}
           /\ \A m \in DOMAIN intents : intents'[m] = intents[m]
           /\ intents'[Len(intents) + 1] = r
<1>1. intents \in Seq(Intents) /\ Len(intents) \in Nat
  BY DEF LibraryTypeOK
<1>2. intents' \in Seq(Intents) /\ Len(intents') = Len(intents) + 1
      /\ intents'[Len(intents) + 1] = r
      /\ \A m \in 1..Len(intents) : intents'[m] = intents[m]
  BY <1>1, AppendProperties
<1>3. DOMAIN intents' = 1..(Len(intents) + 1) /\ DOMAIN intents = 1..Len(intents)
  BY <1>1, <1>2
<1> QED
  BY <1>1, <1>2, <1>3

\* A request that takes its step, or ends, leaves the others where they are.
LEMMA ProgressIs ==
    ASSUME LibraryTypeOK, NEW w \in Workers, Going(w), Done(w) \/ GiveUp(w)
    PROVE  /\ request' \in [Workers -> Requests \union {NoRequest}]
           /\ \A v \in Workers : v # w => request'[v] = request[v]
           /\ Going(w)' => /\ Done(w) /\ request[w].at < 4 /\ request'[w].at = request[w].at + 1
                           /\ request'[w].item = request[w].item
                           /\ request'[w].intent = request[w].intent
<1>1. request \in [Workers -> Requests \union {NoRequest}] /\ request[w] \in Requests
  BY RequestIs DEF LibraryTypeOK
<1>2. CASE GiveUp(w)
  BY <1>1, <1>2 DEF GiveUp, Going
<1>3. CASE Done(w) /\ request[w].at = 4
  <2>1. request' = [request EXCEPT ![w] = NoRequest]
    BY <1>1, <1>3 DEF Done, DeleteSteps
  <2> QED
    BY <1>1, <2>1 DEF Going
<1>4. CASE Done(w) /\ request[w].at # 4
  <2>1. request' = [request EXCEPT ![w] = [request[w] EXCEPT !.at = request[w].at + 1]]
    BY <1>1, <1>4 DEF Done, DeleteSteps
  <2>2. /\ request[w].at \in 1..4 /\ request[w].at < 4
        /\ [request[w] EXCEPT !.at = request[w].at + 1] \in Requests
    BY <1>1, <1>4 DEF Requests
  <2>3. /\ request'[w] = [request[w] EXCEPT !.at = request[w].at + 1]
        /\ \A v \in Workers : v # w => request'[v] = request[v]
    BY <1>1, <2>1
  <2>4. /\ request'[w].at = request[w].at + 1 /\ request'[w].item = request[w].item
        /\ request'[w].intent = request[w].intent
    BY <1>1, <2>3 DEF Requests
  <2> QED
    BY <1>1, <1>4, <2>1, <2>2, <2>3, <2>4
<1> QED
  BY <1>2, <1>3, <1>4

\* Steps that touch neither intents nor requests, and owe nothing new.
LEMMA FrameSafe ==
    ASSUME LibraryInv, LibraryTypeOK', MarksRight', UNCHANGED <<intents, request, phase, todo>>,
           owed' \subseteq owed, owed' \subseteq rows'
    PROVE  LibraryInv'
<1>1. OwedStands'
  BY DEF LibraryInv, OwedStands, Standing, Pending, Holds, Going
<1>2. RequestsOwn'
  BY DEF LibraryInv, RequestsOwn, Pending, Holds, Going
<1>3. StartsClean'
  BY DEF LibraryInv, StartsClean
<1> QED
  BY <1>1, <1>2, <1>3 DEF LibraryInv

\* Nothing but a look at a library changes a mark.
LEMMA MarksStay ==
    ASSUME MarksRight, UNCHANGED <<marked, doubts, blurred>>,
           \A j \in Jobs : pass'[j] = pass[j] \/ pass'[j] = NoPass \/ pass'[j].step # "drop"
    PROVE  MarksRight'
<1>1. NoPass.step # "drop"
  BY DEF NoPass
<1> QED
  BY <1>1 DEF MarksRight

-----------------------------------------------------------------------------
(* Deletions by hand: the steps of a request.                              *)

\* The read that opens a request.
LEMMA SnapshotSafe ==
    ASSUME LibraryInv, NEW w \in Workers, NEW i \in Items, Snapshot(w, i)
    PROVE  LibraryInv'
<1> DEFINE r == [at |-> 1, item |-> i, intent |-> NoIntent]
<1>1. MaxIntents \in Nat /\ r \in Requests
  BY LibraryAssumption DEF Requests, NoIntent
<1>2. /\ request' = [request EXCEPT ![w] = r] /\ phase = "up"
      /\ request \in [Workers -> Requests \union {NoRequest}]
      /\ UNCHANGED <<files, rows, intents, owed, listed, marked, pass, phase, todo, doubts, blurred>>
  BY DEF Snapshot, passUnchanged, Up, LibraryInv, LibraryTypeOK
<1>3. request'[w] = r /\ \A v \in Workers : v # w => request'[v] = request[v]
  BY <1>2
<1>4. LibraryTypeOK'
  BY <1>1, <1>2 DEF LibraryInv, LibraryTypeOK
<1>5. Pending' = Pending /\ Pending \subseteq 1..Len(intents) /\ Len(intents) \in Nat
  BY <1>2, IntentsAre DEF LibraryInv, Pending
<1>6. OwedStands'
  <2>1. ASSUME NEW n \in Pending, Standing(n) PROVE Standing(n)'
    <3>1. n # NoIntent
      BY <1>5 DEF NoIntent
    <3> QED
      BY <1>3, <1>5, <2>1, <3>1 DEF Standing, Holds, Going
  <2> QED
    BY <1>2, <1>5, <2>1 DEF LibraryInv, OwedStands, Standing
<1>7. RequestsOwn'
  BY <1>2, <1>3, <1>5 DEF LibraryInv, RequestsOwn, Holds, Going
<1>8. StartsClean' /\ MarksRight'
  BY <1>2, MarksStay DEF LibraryInv, StartsClean
<1> QED
  BY <1>4, <1>6, <1>7, <1>8 DEF LibraryInv

\* INSERT INTO delete_intents: nobody held the new number before.
LEMMA RecordIntentSafe ==
    ASSUME LibraryInv, NEW w \in Workers, RecordIntent(w)
    PROVE  LibraryInv'
<1>1. /\ LibraryTypeOK /\ phase = "up" /\ Going(w) /\ request[w].at = 1 /\ request[w] \in Requests
      /\ request \in [Workers -> Requests \union {NoRequest}]
      /\ UNCHANGED <<files, rows, owed, listed, marked, pass, phase, todo, doubts, blurred>>
  BY RequestIs DEF LibraryInv, LibraryTypeOK, RecordIntent, Up, passUnchanged
<1>2. todo = {}
  BY <1>1 DEF LibraryInv, StartsClean
<1>3. StartsClean' /\ MarksRight'
  BY <1>1, <1>2, MarksStay DEF LibraryInv, StartsClean
<1>4. CASE Item(w) \in Managed
  <2> DEFINE n == Len(intents) + 1
             i == [item |-> request[w].item, state |-> "open"]
  <2>1. /\ Len(intents) < MaxIntents /\ intents' = Append(intents, i)
        /\ request' = [request EXCEPT ![w] = [request[w] EXCEPT !.at = request[w].at + 1, !.intent = n]]
    BY <1>1, <1>4 DEF RecordIntent, Item
  <2>2. i \in Intents /\ n \in 1..MaxIntents /\ n \in 0..MaxIntents /\ n # NoIntent /\ n \notin DOMAIN intents
    BY <1>1, <2>1, IntentsAre DEF Requests, Intents, NoIntent
  <2>3. /\ intents' \in Seq(Intents) /\ Len(intents') = n /\ DOMAIN intents' = DOMAIN intents \union {n}
        /\ intents'[n] = i /\ \A m \in DOMAIN intents : intents'[m] = intents[m]
    BY <1>1, <2>1, <2>2, AppendIs
  <2>4. Pending' = Pending \union {n} /\ Pending \subseteq DOMAIN intents
    BY <2>2, <2>3 DEF Pending
  <2>5. [request[w] EXCEPT !.at = request[w].at + 1, !.intent = n] \in Requests
    <3>1. ASSUME NEW r \in Requests, NEW a \in 1..4, NEW m \in 0..MaxIntents
          PROVE  [r EXCEPT !.at = a, !.intent = m] \in Requests
      BY DEF Requests
    <3>2. request[w].at + 1 \in 1..4
      BY <1>1
    <3> HIDE DEF n
    <3> QED
      BY <1>1, <2>2, <3>1, <3>2
  <2>6. /\ request'[w].at = 2 /\ request'[w].item = request[w].item /\ request'[w].intent = n
        /\ \A v \in Workers : v # w => request'[v] = request[v]
        /\ request' \in [Workers -> Requests \union {NoRequest}]
    BY <1>1, <2>1, <2>5 DEF Requests
  <2>7. LibraryTypeOK'
    BY <1>1, <2>2, <2>3, <2>6 DEF LibraryTypeOK
  <2>8. OwedStands'
    BY <1>1, <2>3, <2>4, <2>6, <2>2 DEF LibraryInv, OwedStands, Standing, Holds, Going
  <2>9. RequestsOwn'
    <3>1. ASSUME NEW v \in Workers, v # w, Going(v) PROVE request[v].intent \in Pending \union {NoIntent}
      BY <3>1 DEF LibraryInv, RequestsOwn
    <3>2. ASSUME NEW v \in Workers, v # w, Going(v) PROVE request[v].intent # n
      BY <2>2, <2>4, <3>1, <3>2
    <3>3. ASSUME NEW v \in Workers, Going(v)', request'[v].intent # NoIntent
          PROVE  request'[v].intent \in Pending' /\ intents'[request'[v].intent].item = request'[v].item
      <4>1. CASE v = w
        BY <2>3, <2>4, <2>6, <4>1
      <4>2. CASE v # w
        BY <2>3, <2>4, <2>6, <3>3, <4>2 DEF LibraryInv, RequestsOwn, Going
      <4> QED
        BY <4>1, <4>2
    <3>4. ASSUME NEW u \in Workers, NEW v \in Workers, u # v, Going(u)', Going(v)', request'[v].intent = request'[u].intent
          PROVE  request'[u].intent = NoIntent
      <4>1. CASE u = w \/ v = w
        BY <2>6, <3>2, <3>4, <4>1 DEF Going
      <4>2. CASE u # w /\ v # w
        BY <2>6, <3>4, <4>2 DEF LibraryInv, RequestsOwn, Holds, Going
      <4> QED
        BY <4>1, <4>2
    <3> QED
      BY <3>3, <3>4 DEF RequestsOwn, Holds
  <2> QED
    BY <1>3, <2>7, <2>8, <2>9 DEF LibraryInv
<1>5. CASE Item(w) \notin Managed
  <2>1. Done(w) /\ UNCHANGED intents
    BY <1>5 DEF RecordIntent
  <2>2. /\ request' \in [Workers -> Requests \union {NoRequest}]
        /\ \A v \in Workers : v # w => request'[v] = request[v]
        /\ Going(w)' => request'[w].at = 2 /\ request'[w].item = request[w].item
                        /\ request'[w].intent = request[w].intent
    BY <1>1, <2>1, ProgressIs
  <2>3. LibraryTypeOK'
    BY <1>1, <2>1, <2>2 DEF LibraryTypeOK
  <2>4. OwedStands'
    BY <1>1, <2>1, <2>2 DEF LibraryInv, OwedStands, Standing, Pending, Holds, Going
  <2>5. RequestsOwn'
    BY <1>1, <2>1, <2>2 DEF LibraryInv, RequestsOwn, Pending, Holds, Going
  <2> QED
    BY <1>3, <2>3, <2>4, <2>5 DEF LibraryInv
<1> QED
  BY <1>4, <1>5

\* What an admin's request has in hand when it calls the service or completes.
LEMMA RequestHas ==
    ASSUME LibraryInv, NEW w \in Workers, Going(w), request[w].intent # NoIntent
    PROVE  /\ request[w].intent \in Pending /\ request[w].intent \in DOMAIN intents
           /\ intents[request[w].intent].item = request[w].item
           /\ \A v \in Workers : Holds(v, request[w].intent) => v = w
<1>1. Pending \subseteq DOMAIN intents
  BY IntentsAre DEF LibraryInv
<1> QED
  BY <1>1 DEF LibraryInv, RequestsOwn

\* A request goes on, or ends, and the record of intents stays as it is: what is
\* owed afterwards was owed and still has its row, and is not what this request is
\* about to complete, or it is the item of this request, whose intent stands.
LEMMA GoOnSafe ==
    ASSUME LibraryInv, NEW w \in Workers, Going(w), phase = "up", Done(w) \/ GiveUp(w),
           UNCHANGED <<intents, listed, marked, pass, phase, todo, doubts, blurred>>,
           files' \subseteq Items, rows' \subseteq rows, owed' \subseteq rows',
           \A i \in owed' : \/ i \in owed /\ (request[w].at # 3 \/ i # request[w].item \/ GiveUp(w))
                            \/ /\ i = request[w].item /\ request[w].intent # NoIntent
                               /\ request[w].at = 2
    PROVE  LibraryInv'
<1>1. /\ request' \in [Workers -> Requests \union {NoRequest}]
      /\ \A v \in Workers : v # w => request'[v] = request[v]
      /\ Going(w)' => /\ request'[w].at = request[w].at + 1 /\ request[w].at < 4
                      /\ request'[w].item = request[w].item
                      /\ request'[w].intent = request[w].intent
  BY ProgressIs DEF LibraryInv
<1>2. LibraryTypeOK' /\ todo = {}
  BY <1>1 DEF LibraryInv, LibraryTypeOK, StartsClean
<1>3. Pending' = Pending
  BY DEF Pending
<1>4. request[w] \in Requests
  BY RequestIs DEF LibraryInv
<1>5. GiveUp(w) => ~Going(w)'
  BY DEF GiveUp, Going, LibraryInv, LibraryTypeOK
<1>6. ASSUME NEW n \in Pending, Standing(n), n # request[w].intent \/ request[w].at # 3 \/ GiveUp(w)
      PROVE  Standing(n)'
  <2>1. ASSUME NEW v \in Workers, Holds(v, n)' PROVE request'[v].at # 4
    <3>1. CASE v # w
      BY <1>1, <1>6, <2>1, <3>1 DEF Standing, Holds, Going
    <3>2. CASE v = w
      <4>1. request[w].intent = n /\ request'[w].at = request[w].at + 1 /\ request[w].at \in 1..4
        BY <1>1, <1>4, <2>1, <3>2 DEF Holds, Requests
      <4>2. ~GiveUp(w)
        BY <1>5, <2>1, <3>2 DEF Holds
      <4> QED
        BY <1>6, <3>2, <4>1, <4>2
    <3> QED
      BY <3>1, <3>2
  <2> QED
    BY <1>3, <1>6, <2>1 DEF Standing
<1>7. ASSUME NEW i \in owed' PROVE \E n \in Pending' : intents'[n].item = i /\ Standing(n)'
  <2>1. CASE i \in owed /\ (request[w].at # 3 \/ i # request[w].item \/ GiveUp(w))
    <3>1. PICK n \in Pending : intents[n].item = i /\ Standing(n)
      BY <2>1 DEF LibraryInv, OwedStands
    <3>2. n # NoIntent
      BY IntentsAre DEF LibraryInv, NoIntent
    <3>3. n # request[w].intent \/ request[w].at # 3 \/ GiveUp(w)
      BY <2>1, <3>1, <3>2, RequestHas
    <3> QED
      BY <1>3, <1>6, <3>1, <3>3
  <2>2. CASE i = request[w].item /\ request[w].intent # NoIntent /\ request[w].at = 2
    <3>1. PICK n \in Pending : n = request[w].intent /\ intents[n].item = i /\ Standing(n)
      BY <2>2, RequestHas DEF Standing
    <3>2. Standing(n)'
      BY <1>6, <2>2, <3>1
    <3> QED
      BY <1>3, <3>1, <3>2
  <2> QED
    BY <1>7, <2>1, <2>2
<1>8. OwedStands'
  BY <1>7 DEF OwedStands
<1>9. RequestsOwn'
  BY <1>1, <1>3 DEF LibraryInv, RequestsOwn, Holds, Going
<1>10. StartsClean' /\ MarksRight'
  BY <1>2, MarksStay DEF LibraryInv, StartsClean
<1> QED
  BY <1>2, <1>8, <1>9, <1>10 DEF LibraryInv

\* The call that removes the file.
LEMMA CallServiceSafe ==
    ASSUME LibraryInv, NEW w \in Workers, CallService(w)
    PROVE  LibraryInv'
<1>1. /\ LibraryTypeOK /\ Going(w) /\ phase = "up" /\ request[w].at = 2 /\ Done(w)
      /\ UNCHANGED <<rows, intents, listed, marked, pass, phase, todo, doubts, blurred>>
  BY RequestIs DEF CallService, LibraryInv, Up, passUnchanged
<1>2. /\ files' \subseteq Items /\ owed' \subseteq rows'
      /\ \A i \in owed' : i \in owed \/ (i = request[w].item /\ request[w].intent # NoIntent)
  <2>1. owed \subseteq rows /\ files \subseteq Items
    BY <1>1 DEF LibraryInv, OwedStands, LibraryTypeOK
  <2>2. CASE request[w].intent = NoIntent
    BY <1>1, <2>1, <2>2 DEF CallService
  <2>3. CASE request[w].intent # NoIntent
    BY <1>1, <2>1, <2>3 DEF CallService, Remove, Item
  <2> QED
    BY <2>2, <2>3
<1> QED
  BY <1>1, <1>2, GoOnSafe

\* The transaction that drops the row, and the one that fails to.
LEMMA FinaliseSafe ==
    ASSUME LibraryInv, NEW w \in Workers, Finalise(w) \/ FinaliseFails(w)
    PROVE  LibraryInv'
<1>1. /\ LibraryTypeOK /\ Going(w) /\ phase = "up" /\ request[w].at = 3
      /\ owed \subseteq rows /\ files \subseteq Items
      /\ UNCHANGED <<files, intents, listed, marked, pass, phase, todo, doubts, blurred>>
  BY RequestIs DEF Finalise, FinaliseFails, LibraryInv, OwedStands, LibraryTypeOK, Up, passUnchanged
<1>2. CASE Finalise(w)
  BY <1>1, <1>2, GoOnSafe DEF Finalise, Item
<1>3. CASE FinaliseFails(w)
  BY <1>1, <1>3, GoOnSafe DEF FinaliseFails
<1> QED
  BY <1>2, <1>3


\* UPDATE delete_intents SET error: the file may have gone all the same.
LEMMA CallFailsSafe ==
    ASSUME LibraryInv, NEW w \in Workers, CallFails(w)
    PROVE  LibraryInv'
<1> DEFINE n == request[w].intent
<1>1. /\ LibraryTypeOK /\ Going(w) /\ phase = "up" /\ n # NoIntent /\ Mark(n, "failed") /\ GiveUp(w)
      /\ UNCHANGED <<rows, listed, marked, pass, phase, todo, doubts, blurred>>
  BY RequestIs DEF CallFails, LibraryInv, Up, passUnchanged
<1>2. /\ n \in Pending /\ n \in DOMAIN intents /\ intents[n].item = request[w].item
      /\ \A v \in Workers : Holds(v, n) => v = w
  BY <1>1, RequestHas
<1>3. /\ intents' \in Seq(Intents) /\ Len(intents') = Len(intents) /\ DOMAIN intents' = DOMAIN intents
      /\ \A m \in DOMAIN intents : /\ intents'[m].item = intents[m].item
                                   /\ intents'[m].state = IF m = n THEN "failed" ELSE intents[m].state
  BY <1>1, <1>2, MarkIs
<1>4. Pending' = Pending
  BY <1>2, <1>3 DEF Pending
<1>5. /\ request' \in [Workers -> Requests \union {NoRequest}] /\ ~Going(w)'
      /\ \A v \in Workers : v # w => request'[v] = request[v]
  BY <1>1 DEF GiveUp, Going, LibraryTypeOK
<1>6. /\ files' \subseteq Items /\ owed' \subseteq rows' /\ \A i \in owed' : i \in owed \/ i = request[w].item
  <2>1. owed \subseteq rows /\ files \subseteq Items
    BY <1>1 DEF LibraryInv, OwedStands, LibraryTypeOK
  <2> QED
    BY <1>1, <2>1 DEF CallFails, Remove, Item
<1>7. LibraryTypeOK' /\ todo = {}
  BY <1>1, <1>3, <1>5, <1>6 DEF LibraryInv, LibraryTypeOK, StartsClean
<1>8. ASSUME NEW m \in Pending, Standing(m) \/ m = n PROVE Standing(m)'
  BY <1>2, <1>4, <1>5, <1>8 DEF Standing, Holds, Going
<1>9. OwedStands'
  <2>1. ASSUME NEW i \in owed' PROVE \E m \in Pending' : intents'[m].item = i /\ Standing(m)'
    <3>1. CASE i \in owed
      BY <1>3, <1>4, <1>8, <3>1, IntentsAre, <1>1 DEF LibraryInv, OwedStands
    <3>2. CASE i = request[w].item
      BY <1>2, <1>3, <1>4, <1>8, <3>2
    <3> QED
      BY <1>6, <2>1, <3>1, <3>2
  <2> QED
    BY <1>6, <2>1 DEF OwedStands
<1>10. RequestsOwn'
  BY <1>1, <1>3, <1>4, <1>5, IntentsAre DEF LibraryInv, RequestsOwn, Holds, Going
<1>11. StartsClean' /\ MarksRight'
  BY <1>1, <1>7, MarksStay DEF LibraryInv, StartsClean
<1> QED
  BY <1>7, <1>9, <1>10, <1>11 DEF LibraryInv

\* UPDATE delete_intents SET completed_at: nothing is owed for this intent.
LEMMA CompleteSafe ==
    ASSUME LibraryInv, NEW w \in Workers, Complete(w)
    PROVE  LibraryInv'
<1> DEFINE n == request[w].intent
<1>1. /\ LibraryTypeOK /\ Going(w) /\ phase = "up" /\ request[w].at = 4 /\ Done(w)
      /\ owed \subseteq rows
      /\ UNCHANGED <<files, rows, owed, listed, marked, pass, phase, todo, doubts, blurred>>
  BY RequestIs DEF Complete, LibraryInv, OwedStands, Up, passUnchanged
<1>2. CASE n = NoIntent
  <2>1. UNCHANGED intents /\ files \subseteq Items
    BY <1>1, <1>2 DEF Complete, LibraryTypeOK
  <2> QED
    BY <1>1, <2>1, GoOnSafe
<1>3. CASE n # NoIntent
  <2>1. Mark(n, "done")
    BY <1>3 DEF Complete
  <2>2. /\ n \in Pending /\ n \in DOMAIN intents /\ \A v \in Workers : Holds(v, n) => v = w
    BY <1>1, <1>3, RequestHas
  <2>3. /\ intents' \in Seq(Intents) /\ Len(intents') = Len(intents) /\ DOMAIN intents' = DOMAIN intents
        /\ \A m \in DOMAIN intents : /\ intents'[m].item = intents[m].item
                                     /\ intents'[m].state = IF m = n THEN "done" ELSE intents[m].state
    BY <1>1, <2>1, <2>2, MarkIs
  <2>4. Pending' = Pending \ {n} /\ Pending \subseteq DOMAIN intents
    BY <2>3 DEF Pending
  <2>5. /\ request' \in [Workers -> Requests \union {NoRequest}] /\ ~Going(w)'
        /\ \A v \in Workers : v # w => request'[v] = request[v]
    BY <1>1, ProgressIs
  <2>6. LibraryTypeOK' /\ todo = {}
    BY <1>1, <2>3, <2>5 DEF LibraryInv, LibraryTypeOK, StartsClean
  <2>7. ASSUME NEW m \in Pending, Standing(m) PROVE m \in Pending' /\ Standing(m)'
    <3>1. m # n
      BY <1>1, <2>7 DEF Standing, Holds
    <3> QED
      BY <2>4, <2>5, <2>7, <3>1 DEF Standing, Holds, Going
  <2>8. OwedStands'
    <3>1. ASSUME NEW i \in owed PROVE \E m \in Pending' : intents'[m].item = i /\ Standing(m)'
      BY <2>3, <2>4, <2>7 DEF LibraryInv, OwedStands
    <3> QED
      BY <1>1, <3>1 DEF OwedStands
  <2>9. RequestsOwn'
    BY <2>2, <2>3, <2>4, <2>5 DEF LibraryInv, RequestsOwn, Holds, Going
  <2>10. StartsClean' /\ MarksRight'
    BY <1>1, <2>6, MarksStay DEF LibraryInv, StartsClean
  <2> QED
    BY <2>6, <2>8, <2>9, <2>10 DEF LibraryInv
<1> QED
  BY <1>2, <1>3

-----------------------------------------------------------------------------
(* Deletions by hand: the library passes beside the requests.              *)

\* What Plex and the services do.
LEMMA OutsideSafe ==
    ASSUME LibraryInv, NEW i \in Items, Redownload(i) \/ PlexNotices(i)
    PROVE  LibraryInv'
<1>1. LibraryTypeOK /\ MarksRight /\ owed \subseteq rows /\ Managed \subseteq Items
  BY LibraryAssumption DEF LibraryInv, OwedStands
<1>2. CASE Redownload(i)
  <2>1. UNCHANGED <<rows, intents, request, owed, listed, marked, pass, phase, todo, doubts, blurred>>
        /\ files' = files \union {i}
    BY <1>2 DEF Redownload, passUnchanged
  <2>2. LibraryTypeOK'
    BY <1>1, <2>1 DEF LibraryTypeOK
  <2> QED
    BY <1>1, <2>1, <2>2, MarksStay, FrameSafe
<1>3. CASE PlexNotices(i)
  <2>1. UNCHANGED <<files, rows, intents, marked, request, pass, phase, todo, owed, doubts, blurred>>
        /\ (listed' = listed \union {i} \/ listed' = listed \ {i})
    BY <1>3 DEF PlexNotices
  <2>2. LibraryTypeOK'
    BY <1>1, <2>1 DEF LibraryTypeOK
  <2> QED
    BY <1>1, <2>1, <2>2, MarksStay, FrameSafe
<1> QED
  BY <1>2, <1>3

\* A pass that asks Plex.
LEMMA FetchSafe ==
    ASSUME LibraryInv, NEW j \in Jobs, NEW l \in Libraries, Fetch(j, l)
    PROVE  LibraryInv'
<1>1. LibraryTypeOK /\ MarksRight /\ owed \subseteq rows /\ pass \in [Jobs -> Passes \union {NoPass}]
  BY DEF LibraryInv, OwedStands, LibraryTypeOK
<1>2. PICK seen \in SUBSET {i \in listed : LibraryOf[i] = l}, fetched \in SUBSET listed :
         pass' = [pass EXCEPT ![j] =
                    [step |-> "fetched", library |-> l, seen |-> seen, fetched |-> fetched,
                     marks |-> {}, looks |-> 0, mixed |-> FALSE]]
  BY DEF Fetch
<1>3. UNCHANGED <<files, listed, rows, intents, marked, request, phase, todo, owed, doubts, blurred>>
  BY DEF Fetch
<1>4. /\ pass' \in [Jobs -> Passes \union {NoPass}] /\ pass'[j].step = "fetched"
      /\ \A k \in Jobs : k # j => pass'[k] = pass[k]
  BY <1>1, <1>2 DEF Passes, LibraryTypeOK
<1>5. LibraryTypeOK' /\ MarksRight'
  BY <1>1, <1>3, <1>4, MarksStay DEF LibraryTypeOK
<1> QED
  BY <1>1, <1>3, <1>5, FrameSafe

\* The fields of a pass in progress.
LEMMA PassIs ==
    ASSUME LibraryTypeOK, NEW j \in Jobs, pass[j].step # "idle"
    PROVE  /\ pass[j] \in Passes /\ pass[j] # NoPass /\ pass[j].library \in Libraries
           /\ pass \in [Jobs -> Passes \union {NoPass}]
           /\ pass[j].marks \subseteq Libraries
           /\ pass[j].seen \subseteq Items /\ pass[j].fetched \subseteq Items
  BY DEF LibraryTypeOK, Passes, NoPass

\* Changing the pass of one job.
LEMMA PassBecomes ==
    ASSUME LibraryTypeOK, NEW j \in Jobs, NEW p \in Passes \union {NoPass}, pass' = [pass EXCEPT ![j] = p]
    PROVE  /\ pass' \in [Jobs -> Passes \union {NoPass}] /\ pass'[j] = p
           /\ \A k \in Jobs : k # j => pass'[k] = pass[k]
  BY DEF LibraryTypeOK

\* An answer that is believed: what stays on the list was on it, or its mark is blurred.
LEMMA TrustSafe ==
    ASSUME LibraryInv, NEW j \in Jobs, pass[j].step # "idle",
           NEW marks \in SUBSET Libraries, NEW R \in SUBSET Items, rows \subseteq R, Trust(j, marks, R),
           UNCHANGED <<files, listed, intents, request, phase, todo>>
    PROVE  LibraryInv'
<1> DEFINE l == pass[j].library
<1>1. /\ rows' = R \ (InLibrary(j, R) \ pass[j].seen) /\ owed' = owed \intersect rows'
      /\ doubts' = [doubts EXCEPT ![l] = 0] /\ pass' = [pass EXCEPT ![j] = NoPass]
      /\ marked' = IF l \in marks THEN marks \ {l} ELSE marked
      /\ blurred' = marked' \intersect (blurred \union IF l \in marks THEN Late(marks) ELSE {l})
  BY DEF Trust, DropFrom, LetGo
<1>2. /\ LibraryTypeOK /\ MarksRight /\ l \in Libraries
      /\ doubts \in [Libraries -> 0..2] /\ marked \subseteq Libraries
  BY PassIs DEF LibraryInv, LibraryTypeOK
<1>3. /\ pass' \in [Jobs -> Passes \union {NoPass}] /\ pass'[j] = NoPass
      /\ \A k \in Jobs : k # j => pass'[k] = pass[k]
  BY <1>1, <1>2, PassBecomes
<1>4. LibraryTypeOK'
  BY <1>1, <1>2, <1>3 DEF LibraryTypeOK
<1>5. MarksRight'
  <2>1. ASSUME NEW k \in marked' \ blurred' PROVE k \in marked \ blurred /\ doubts'[k] = doubts[k]
    <3>1. k \notin blurred /\ k # l /\ k \in Libraries
      BY <1>1, <1>2, <2>1 DEF Late
    <3>2. k \in marked
      BY <1>1, <1>2, <2>1 DEF Late
    <3> QED
      BY <1>1, <1>2, <3>1, <3>2
  <2>2. \A k \in marked' \ blurred' : doubts'[k] \in {1, 2}
    BY <1>2, <2>1 DEF MarksRight
  <2> QED
    BY <1>2, <1>3, <2>2 DEF MarksRight
<1> QED
  BY <1>1, <1>4, <1>5, FrameSafe

\* An answer that is doubted, and noted or confirmed by the note it has read.
LEMMA DoubtSafe ==
    ASSUME LibraryInv, NEW j \in Jobs, pass[j].step # "idle",
           NEW marks \in SUBSET Libraries, NEW R \in SUBSET Items, rows \subseteq R, Doubt(j, marks, R),
           UNCHANGED <<files, listed, intents, request, phase, todo>>
    PROVE  LibraryInv'
<1> DEFINE l == pass[j].library
           d == doubts'[l]
           m == l \in blurred \union Late(marks)
           p == [pass[j] EXCEPT !.step = "drop", !.marks = {}, !.fetched = {}, !.looks = d, !.mixed = m]
<1>1. /\ rows' = R /\ owed' = owed
      /\ doubts' = [doubts EXCEPT ![l] = IF doubts[l] < 2 THEN doubts[l] + 1 ELSE 2]
      /\ marked' = IF l \in marks THEN marks \ {l} ELSE marks \union {l}
      /\ blurred' = marked' \intersect ((blurred \union Late(marks)) \ {l})
      /\ l \in marks => pass' = [pass EXCEPT ![j] = p]
      /\ l \notin marks => pass' = [pass EXCEPT ![j] = NoPass]
  BY DEF Doubt, LetGo
<1>2. /\ LibraryTypeOK /\ MarksRight /\ l \in Libraries /\ owed \subseteq rows /\ pass[j] \in Passes
      /\ doubts \in [Libraries -> 0..2] /\ marked \subseteq Libraries
  BY PassIs DEF LibraryInv, LibraryTypeOK, OwedStands
<1>3. /\ doubts' \in [Libraries -> 0..2] /\ d \in {1, 2}
      /\ doubts[l] \in {1, 2} => d = 2
      /\ \A k \in Libraries : k # l => doubts'[k] = doubts[k]
  <2>1. doubts[l] \in {0, 1, 2}
    BY <1>2
  <2>2. (IF doubts[l] < 2 THEN doubts[l] + 1 ELSE 2) \in {1, 2}
        /\ (doubts[l] \in {1, 2} => (IF doubts[l] < 2 THEN doubts[l] + 1 ELSE 2) = 2)
    BY <2>1
  <2> QED
    BY <1>1, <1>2, <2>2
<1>4. /\ pass' \in [Jobs -> Passes \union {NoPass}]
      /\ \A k \in Jobs : k # j => pass'[k] = pass[k]
      /\ pass'[j] = NoPass \/ (l \in marks /\ pass'[j].looks = d /\ pass'[j].mixed = m)
  <2>1. p \in Passes /\ p.looks = d /\ p.mixed = m
    <3>1. ASSUME NEW q \in Passes, NEW n \in 0..2, NEW b \in BOOLEAN
          PROVE  [q EXCEPT !.step = "drop", !.marks = {}, !.fetched = {}, !.looks = n, !.mixed = b] \in Passes
      BY DEF Passes
    <3>2. d \in 0..2 /\ m \in BOOLEAN
      BY <1>3
    <3> HIDE DEF d, m
    <3>3. p \in Passes
      BY <1>2, <3>1, <3>2
    <3> QED
      BY <1>2, <3>3 DEF Passes
  <2> HIDE DEF p, d, m
  <2>2. CASE l \in marks
    BY <1>1, <1>2, <2>1, <2>2, PassBecomes
  <2>3. CASE l \notin marks
    BY <1>1, <1>2, <2>3, PassBecomes
  <2> QED
    BY <2>2, <2>3
<1>5. LibraryTypeOK'
  BY <1>1, <1>2, <1>3, <1>4 DEF LibraryTypeOK
<1>6. MarksRight'
  <2>1. ASSUME NEW k \in marked' \ blurred' PROVE doubts'[k] \in {1, 2}
    <3>1. CASE k = l
      BY <1>3, <3>1
    <3>2. CASE k # l
      <4>1. k \in Libraries /\ k \in marked \ blurred
        BY <1>1, <1>2, <2>1, <3>2 DEF Late
      <4> QED
        BY <1>2, <1>3, <3>2, <4>1 DEF MarksRight
    <3> QED
      BY <3>1, <3>2
  <2>2. ASSUME pass'[j] # NoPass PROVE pass'[j].looks = 2 \/ pass'[j].mixed
    <3>1. l \in marks /\ pass'[j].looks = d /\ pass'[j].mixed = m
      BY <1>4, <2>2
    <3>2. ~m => l \in marked \ blurred
      BY <1>2, <3>1 DEF Late
    <3>3. ~m => d = 2
      BY <1>2, <1>3, <3>2 DEF MarksRight
    <3> QED
      BY <3>1, <3>3
  <2> QED
    BY <1>2, <1>4, <2>1, <2>2 DEF MarksRight
<1> QED
  BY <1>1, <1>2, <1>5, <1>6, FrameSafe

\* The steps of a pass after its answer has come.
LEMMA PassSafe ==
    ASSUME LibraryInv, NEW j \in Jobs,
           WriteRows(j) \/ Look(j) \/ Decide(j) \/ SyncLook(j) \/ DropConfirmed(j)
    PROVE  LibraryInv'
<1> DEFINE p == pass[j]
<1>1. p.step # "idle"
  BY DEF WriteRows, Look, Decide, SyncLook, DropConfirmed, Step
<1>2. /\ p \in Passes /\ p.marks \subseteq Libraries /\ p.fetched \subseteq Items
      /\ LibraryTypeOK /\ MarksRight /\ marked \subseteq Libraries
      /\ rows \subseteq Items /\ owed \subseteq rows
  BY <1>1, PassIs DEF LibraryInv, LibraryTypeOK, OwedStands
<1>3. ASSUME NEW q \in Passes, NEW s \in {"guard", "trust", "doubt"}, NEW marks \in SUBSET Libraries,
             NEW fetched \in SUBSET Items
      PROVE  [q EXCEPT !.step = s, !.marks = marks, !.fetched = fetched] \in Passes
  BY DEF Passes
<1>4. CASE WriteRows(j)
  <2> DEFINE r == [p EXCEPT !.step = "guard", !.marks = p.marks, !.fetched = {}]
  <2>1. /\ rows' = rows \union p.fetched /\ pass' = [pass EXCEPT ![j] = [p EXCEPT !.step = "guard", !.fetched = {}]]
        /\ UNCHANGED <<files, listed, intents, marked, request, phase, todo, owed, doubts, blurred>>
    BY <1>4 DEF WriteRows
  <2>2. r \in Passes
    BY <1>2, <1>3
  <2>3. r = [p EXCEPT !.step = "guard", !.fetched = {}] /\ r.step = "guard"
    BY <1>2 DEF Passes
  <2> HIDE DEF p, r
  <2>4. /\ pass' \in [Jobs -> Passes \union {NoPass}] /\ pass'[j].step = "guard"
        /\ \A k \in Jobs : k # j => pass'[k] = pass[k]
    BY <1>2, <2>1, <2>2, <2>3, PassBecomes
  <2>5. LibraryTypeOK' /\ MarksRight' /\ owed' \subseteq rows'
    BY <1>2, <2>1, <2>4, MarksStay DEF LibraryTypeOK
  <2> QED
    BY <2>1, <2>5, FrameSafe
<1>5. CASE Look(j)
  <2> DEFINE s == IF Suspicious(j, rows) THEN "doubt" ELSE "trust"
             r == [p EXCEPT !.step = s, !.marks = marked, !.fetched = p.fetched]
  <2>1. /\ pass' = [pass EXCEPT ![j] = [p EXCEPT !.marks = marked, !.step = s]]
        /\ UNCHANGED <<files, listed, rows, intents, marked, request, phase, todo, owed, doubts, blurred>>
    BY <1>5 DEF Look
  <2>2. s \in {"guard", "trust", "doubt"} /\ s # "drop"
    OBVIOUS
  <2> HIDE DEF s, p
  <2>3. r \in Passes
    BY <1>2, <1>3, <2>2
  <2>4. r = [p EXCEPT !.marks = marked, !.step = s] /\ r.step = s
    BY <1>2 DEF Passes
  <2> HIDE DEF r
  <2>5. /\ pass' \in [Jobs -> Passes \union {NoPass}] /\ pass'[j].step # "drop"
        /\ \A k \in Jobs : k # j => pass'[k] = pass[k]
    BY <1>2, <2>1, <2>2, <2>3, <2>4, PassBecomes
  <2>6. LibraryTypeOK' /\ MarksRight' /\ owed' \subseteq rows'
    BY <1>2, <2>1, <2>5, MarksStay DEF LibraryTypeOK
  <2> QED
    BY <2>1, <2>6, FrameSafe
<1>6. CASE Decide(j)
  <2>1. (Trust(j, p.marks, rows) \/ Doubt(j, p.marks, rows))
        /\ UNCHANGED <<files, listed, intents, request, phase, todo>>
    BY <1>6 DEF Decide
  <2> QED
    BY <1>1, <1>2, <2>1, TrustSafe, DoubtSafe
<1>7. CASE SyncLook(j)
  <2> DEFINE R == rows \union p.fetched
  <2>1. (Trust(j, marked, R) \/ Doubt(j, marked, R)) /\ UNCHANGED <<files, listed, intents, request, phase, todo>>
    BY <1>7 DEF SyncLook
  <2>2. R \in SUBSET Items /\ rows \subseteq R
    BY <1>2
  <2> HIDE DEF R
  <2> QED
    BY <1>1, <1>2, <2>1, <2>2, TrustSafe, DoubtSafe
<1>8. CASE DropConfirmed(j)
  <2>1. /\ rows' = rows \ (InLibrary(j, rows) \ p.seen) /\ owed' = owed \intersect rows'
        /\ pass' = [pass EXCEPT ![j] = NoPass]
        /\ UNCHANGED <<files, listed, intents, marked, request, phase, todo, doubts, blurred>>
    BY <1>8 DEF DropConfirmed, DropFrom, LetGo
  <2>2. /\ pass' \in [Jobs -> Passes \union {NoPass}] /\ pass'[j] = NoPass
        /\ \A k \in Jobs : k # j => pass'[k] = pass[k]
    BY <1>2, <2>1, PassBecomes
  <2>3. LibraryTypeOK' /\ MarksRight'
    BY <1>2, <2>1, <2>2, MarksStay DEF LibraryTypeOK
  <2> QED
    BY <1>2, <2>1, <2>3, FrameSafe
<1> QED
  BY <1>4, <1>5, <1>6, <1>7, <1>8

-----------------------------------------------------------------------------
(* Deletions by hand: crashes and the next start.                          *)

\* Crash, Boot and StartServing.
LEMMA RestartSafe ==
    ASSUME LibraryInv, Crash \/ Boot \/ StartServing
    PROVE  LibraryInv'
<1>1. LibraryTypeOK /\ MarksRight /\ UNCHANGED <<files, listed, rows, intents, marked, owed, doubts, blurred>>
  BY DEF LibraryInv, Crash, Boot, StartServing
<1>2. /\ request' = [w \in Workers |-> NoRequest] \/ UNCHANGED request
      /\ UNCHANGED pass \/ pass' = [j \in Jobs |-> NoPass]
  BY DEF Crash, Boot, StartServing
<1>3. Pending \subseteq DOMAIN intents /\ DOMAIN intents \subseteq 1..MaxIntents
  BY <1>1, IntentsAre
<1>4. /\ phase' \in {"up", "down", "boot"} /\ todo' \subseteq (1..MaxIntents) \X {"row", "intent"}
  <2>1. todo \subseteq (1..MaxIntents) \X {"row", "intent"}
    BY <1>1 DEF LibraryTypeOK
  <2>2. Pending \X {"row"} \subseteq (1..MaxIntents) \X {"row", "intent"}
    BY <1>3
  <2> QED
    BY <2>1, <2>2 DEF Crash, Boot, StartServing
<1>5. LibraryTypeOK'
  <2>1. request' \in [Workers -> Requests \union {NoRequest}] /\ pass' \in [Jobs -> Passes \union {NoPass}]
    BY <1>1, <1>2 DEF LibraryTypeOK
  <2> QED
    BY <1>1, <1>4, <2>1 DEF LibraryTypeOK
<1>6. OwedStands' /\ RequestsOwn'
  BY <1>1, <1>2 DEF LibraryInv, OwedStands, RequestsOwn, Standing, Pending, Holds, Going
<1>7. StartsClean'
  <2>1. CASE Crash
    BY <2>1 DEF Crash, StartsClean
  <2>2. CASE Boot
    BY <1>1, <1>3, <2>2 DEF Boot, LibraryInv, StartsClean
  <2>3. CASE StartServing
    BY <2>3 DEF StartServing, LibraryInv, StartsClean
  <2> QED
    BY <2>1, <2>2, <2>3
<1> QED
  BY <1>1, <1>2, <1>5, <1>6, <1>7, MarksStay DEF LibraryInv

\* One intent of the start-up's list: its row, or its record.
LEMMA ReconcileSafe ==
    ASSUME LibraryInv, NEW n \in 1..MaxIntents,
           ReconcileRow(n) \/ ReconcileIntent(n) \/ ReconcileFails(n)
    PROVE  LibraryInv'
<1>1. /\ LibraryTypeOK /\ MarksRight /\ owed \subseteq rows /\ phase = "boot"
      /\ UNCHANGED <<files, listed, marked, request, pass, phase, doubts, blurred>>
  BY DEF LibraryInv, OwedStands, ReconcileRow, ReconcileIntent, ReconcileFails, Booting
<1>2. /\ \A w \in Workers : request[w] = NoRequest /\ request'[w] = NoRequest
      /\ \A e \in todo : e[1] \in DOMAIN intents
  BY <1>1 DEF LibraryInv, StartsClean
<1>3. n \in DOMAIN intents
  BY <1>2 DEF ReconcileRow, ReconcileIntent, ReconcileFails, Booting
<1>4. RequestsOwn' /\ \A m \in Pending' : Standing(m)'
  BY <1>2 DEF RequestsOwn, Standing, Holds, Going
<1>5. MarksRight'
  BY <1>1, MarksStay
<1>6. CASE ReconcileRow(n)
  <2>1. /\ rows' = rows \ {intents[n].item} /\ owed' = owed \ {intents[n].item}
        /\ todo' = (todo \ {<<n, "row">>}) \union {<<n, "intent">>} /\ UNCHANGED intents
    BY <1>6 DEF ReconcileRow
  <2>2. LibraryTypeOK'
    BY <1>1, <2>1 DEF LibraryTypeOK
  <2>3. OwedStands'
    BY <1>1, <1>4, <2>1 DEF LibraryInv, OwedStands, Pending
  <2>4. StartsClean'
    BY <1>1, <1>2, <1>3, <2>1 DEF LibraryInv, StartsClean
  <2> QED
    BY <1>4, <1>5, <2>2, <2>3, <2>4 DEF LibraryInv
<1>7. ASSUME NEW s \in {"done", "failed"}, Mark(n, s),
             todo' = todo \ {<<n, "row">>, <<n, "intent">>}, UNCHANGED <<rows, owed>>,
             s = "done" => intents[n].item \notin owed
      PROVE  LibraryInv'
  <2>1. /\ intents' \in Seq(Intents) /\ Len(intents') = Len(intents) /\ DOMAIN intents' = DOMAIN intents
        /\ \A m \in DOMAIN intents : /\ intents'[m].item = intents[m].item
                                     /\ intents'[m].state = IF m = n THEN s ELSE intents[m].state
    BY <1>1, <1>3, <1>7, MarkIs
  <2>2. LibraryTypeOK'
    BY <1>1, <1>7, <2>1 DEF LibraryTypeOK
  <2>3. OwedStands'
    <3>1. ASSUME NEW i \in owed PROVE \E m \in Pending' : intents'[m].item = i
      <4>1. PICK m \in Pending : intents[m].item = i
        BY DEF LibraryInv, OwedStands
      <4>2. m \in DOMAIN intents /\ intents[m].state # "done"
        BY <4>1 DEF Pending
      <4>3. m = n => s # "done"
        BY <1>7, <4>1
      <4> QED
        BY <2>1, <4>1, <4>2, <4>3 DEF Pending
    <3> QED
      BY <1>1, <1>4, <1>7, <3>1 DEF OwedStands
  <2>4. StartsClean'
    BY <1>1, <1>2, <1>7, <2>1 DEF LibraryInv, StartsClean
  <2> QED
    BY <1>4, <1>5, <2>2, <2>3, <2>4 DEF LibraryInv
<1>8. CASE ReconcileIntent(n)
  <2>1. intents[n].item \notin owed
    <3>1. CASE <<n, "intent">> \in todo
      BY <3>1 DEF LibraryInv, StartsClean
    <3>2. CASE intents[n].item \notin rows
      BY <1>1, <3>2
    <3> QED
      BY <1>8, <3>1, <3>2 DEF ReconcileIntent, Booting
  <2> QED
    BY <1>7, <1>8, <2>1 DEF ReconcileIntent
<1>9. CASE ReconcileFails(n)
  BY <1>7, <1>9 DEF ReconcileFails
<1> QED
  BY <1>6, <1>8, <1>9

-----------------------------------------------------------------------------
(* Deletions by hand: the theorems.                                        *)

LEMMA LibraryInvInit ==
    ASSUME LibraryInit
    PROVE  LibraryInv
<1>1. MaxIntents \in Nat
  BY LibraryAssumption
<1>2. Len(intents) = 0 /\ intents \in Seq(Intents) /\ Pending = {}
  BY DEF LibraryInit, Pending
<1>3. LibraryTypeOK
  BY <1>1, <1>2 DEF LibraryInit, LibraryTypeOK
<1>4. RequestsOwn
  BY DEF LibraryInit, RequestsOwn, Going
<1> QED
  BY <1>2, <1>3, <1>4 DEF LibraryInv, LibraryInit, OwedStands, StartsClean, MarksRight, NoPass

LEMMA LibraryInvStep ==
    ASSUME LibraryInv, [LibraryNext]_libVars
    PROVE  LibraryInv'
<1>1. CASE UNCHANGED libVars
  <2>1. UNCHANGED <<files, listed, rows, intents, marked, request, pass, phase, todo, owed, doubts, blurred>>
    BY <1>1 DEF libVars
  <2>2. LibraryTypeOK' /\ MarksRight' /\ owed' \subseteq rows'
    BY <2>1, MarksStay DEF LibraryInv, LibraryTypeOK, OwedStands
  <2> QED
    BY <2>1, <2>2, FrameSafe
<1>2. ASSUME NEW w \in Workers,
             \/ RecordIntent(w) \/ CallService(w) \/ CallFails(w)
             \/ Finalise(w) \/ FinaliseFails(w) \/ Complete(w)
             \/ \E i \in Items : Snapshot(w, i)
      PROVE  LibraryInv'
  BY <1>2, RecordIntentSafe, CallServiceSafe, CallFailsSafe, FinaliseSafe, CompleteSafe, SnapshotSafe
<1>3. ASSUME NEW i \in Items, Redownload(i) \/ PlexNotices(i) PROVE LibraryInv'
  <2>1. LibraryOf[i] \in Libraries
    BY LibraryAssumption
  <2> QED
    BY <1>3, <2>1, OutsideSafe
<1>4. ASSUME NEW j \in Jobs,
             \/ WriteRows(j) \/ Look(j) \/ Decide(j) \/ SyncLook(j) \/ DropConfirmed(j)
             \/ \E l \in Libraries : Fetch(j, l)
      PROVE  LibraryInv'
  BY <1>4, FetchSafe, PassSafe
<1> QED
  BY <1>1, <1>2, <1>3, <1>4, RestartSafe, ReconcileSafe DEF LibraryNext

\* A deletion by hand that removed a file leaves a row only while an intent on
\* record says that the row has to go: with any number of requests for the same
\* items together, calls and transactions that fail, passes that write the row
\* again, and crashes and restarts at any point.
THEOREM OwedRowsRememberedAlways == LibrarySpec => []OwedRowsRemembered
<1>1. LibraryInv => OwedRowsRemembered
  BY DEF LibraryInv, OwedStands, OwedRowsRemembered
<1> QED
  BY <1>1, LibraryInvInit, LibraryInvStep, PTL DEF LibrarySpec

\* A library loses rows only to an answer that is believed, or to the second in a
\* row that is not: the mark in the settings counts the doubts, whatever crashes and
\* restarts come between them and however many passes run together, unless the pass
\* decided on marks of that library that another had changed since they were read.
THEOREM PruneNeedsTwoLooksAlways == LibrarySpec => PruneNeedsTwoLooks
<1>1. ASSUME LibraryInv, NEW j \in Jobs, NEW l \in Libraries, PrunesOnDoubt(j, l)
      PROVE  pass[j].step = "drop" /\ pass[j].library = l /\ (pass[j].looks = 2 \/ pass[j].mixed)
  <2>1. PICK i \in rows \ rows' : LibraryOf[i] = l
    BY <1>1 DEF PrunesOnDoubt
  <2>2. pass[j].step # "idle"
    BY <1>1 DEF PrunesOnDoubt, WriteRows, Decide, SyncLook, DropConfirmed, Step
  <2>3. /\ LibraryTypeOK /\ doubts \in [Libraries -> 0..2] /\ pass[j] # NoPass
        /\ pass[j].library \in Libraries /\ i \in rows /\ i \notin rows'
    BY <1>1, <2>1, <2>2, PassIs DEF LibraryInv, LibraryTypeOK
  <2>4. ASSUME NEW R, i \in R, DropFrom(j, R) PROVE pass[j].library = l
    BY <2>1, <2>3, <2>4 DEF DropFrom, InLibrary
  <2>5. CASE DropConfirmed(j)
    <3>1. pass[j].step = "drop" /\ pass[j].library = l
      BY <2>3, <2>4, <2>5 DEF DropConfirmed, Step
    <3> QED
      BY <1>1, <2>3, <3>1 DEF LibraryInv, MarksRight
  <2>6. ASSUME NEW marks, NEW R, i \in R, Trust(j, marks, R) PROVE doubts'[l] = 0
    BY <2>3, <2>4, <2>6 DEF Trust
  <2>7. \A marks, R : i \in R => ~Doubt(j, marks, R)
    BY <2>3 DEF Doubt
  <2>8. ~WriteRows(j)
    BY <2>3 DEF WriteRows
  <2>9. CASE Decide(j)
    <3>1. Step(j, "trust") /\ Trust(j, pass[j].marks, rows)
      BY <2>3, <2>7, <2>9 DEF Decide
    <3> QED
      BY <1>1, <2>3, <2>6, <3>1 DEF PrunesOnDoubt, Step
  <2>10. CASE SyncLook(j)
    <3> DEFINE R == rows \union pass[j].fetched
    <3>1. i \in R /\ (Trust(j, marked, R) \/ Doubt(j, marked, R)) /\ pass[j].step = "fetched"
      BY <2>3, <2>10 DEF SyncLook, Step
    <3> HIDE DEF R
    <3>2. Trust(j, marked, R)
      BY <2>7, <3>1
    <3> QED
      BY <1>1, <2>6, <3>1, <3>2 DEF PrunesOnDoubt
  <2> QED
    BY <1>1, <2>5, <2>8, <2>9, <2>10 DEF PrunesOnDoubt
<1>2. LibraryInv /\ [LibraryNext]_libVars =>
        [\A j \in Jobs, l \in Libraries : PrunesOnDoubt(j, l) =>
            pass[j].step = "drop" /\ pass[j].library = l
            /\ (pass[j].looks = 2 \/ pass[j].mixed)]_libVars
  BY <1>1
<1> QED
  BY <1>2, LibraryInvInit, LibraryInvStep, PTL DEF LibrarySpec, PruneNeedsTwoLooks

-----------------------------------------------------------------------------
(* Deletions by hand keep the promise of WriteAhead. *)

OnRecord == {intents[n].item : n \in Pending}

\* Steps that leave the table of intents alone and remove no file.
LEMMA QuietMaps ==
    ASSUME UNCHANGED intents, owed' \subseteq owed
    PROVE  [Ahead!Next]_Ahead!vars
<1>1. UNCHANGED OnRecord
  BY DEF OnRecord, Pending
<1> QED
  BY <1>1 DEF OnRecord, Ahead!Next, Ahead!MakeGood, Ahead!vars

\* An intent that changes its state goes on record, stays there, or leaves it
\* when nothing is owed for it.
LEMMA MarkMaps ==
    ASSUME LibraryInv, LibraryInv', NEW n \in DOMAIN intents,
           NEW s \in {"open", "failed", "done"}, Mark(n, s), UNCHANGED owed
    PROVE  [Ahead!Next]_Ahead!vars
<1> DEFINE i == intents[n].item
<1>1. LibraryTypeOK /\ i \in Items /\ Pending \subseteq DOMAIN intents
  BY IntentsAre DEF LibraryInv, Intents
<1>2. /\ DOMAIN intents' = DOMAIN intents
      /\ \A m \in DOMAIN intents : /\ intents'[m].item = intents[m].item
                                   /\ intents'[m].state = IF m = n THEN s ELSE intents[m].state
  BY <1>1, MarkIs
<1>3. \A m \in DOMAIN intents : m # n => (m \in Pending' <=> m \in Pending)
  BY <1>2 DEF Pending
<1>4. Pending' \subseteq DOMAIN intents
  BY <1>2 DEF Pending
<1>5. \A j : j # i => (j \in OnRecord' <=> j \in OnRecord)
  BY <1>1, <1>2, <1>3, <1>4 DEF OnRecord
<1>6. CASE i \in OnRecord'
  <2>1. OnRecord' = OnRecord \union {i}
    BY <1>5, <1>6
  <2> QED
    BY <1>1, <2>1 DEF OnRecord, Ahead!Next, Ahead!Promise
<1>7. CASE i \notin OnRecord'
  <2>1. OnRecord' = OnRecord \ {i}
    BY <1>5, <1>7
  <2>2. i \notin owed
    BY <1>7 DEF LibraryInv, OwedStands, OnRecord
  <2> QED
    BY <1>1, <2>1, <2>2 DEF OnRecord, Ahead!Next, Ahead!Release
<1> QED
  BY <1>6, <1>7

\* A request: it records first, removes what it recorded, and completes last.
LEMMA RequestMaps ==
    ASSUME LibraryInv, LibraryInv', NEW w \in Workers,
           \/ RecordIntent(w) \/ CallService(w) \/ CallFails(w)
           \/ Finalise(w) \/ FinaliseFails(w) \/ Complete(w)
    PROVE  [Ahead!Next]_Ahead!vars
<1> DEFINE n == request[w].intent
           i == request[w].item
<1>1. LibraryTypeOK /\ Going(w) /\ i \in Items
  BY RequestIs DEF LibraryInv, RecordIntent, CallService, CallFails, Finalise, FinaliseFails, Complete,
                   Requests
<1>2. n # NoIntent => n \in Pending /\ n \in DOMAIN intents /\ intents[n].item = i /\ i \in OnRecord
  BY <1>1, IntentsAre DEF LibraryInv, RequestsOwn, OnRecord
<1>3. CASE RecordIntent(w)
  <2>1. CASE i \in Managed
    <3> DEFINE r == [item |-> i, state |-> "open"]
    <3>1. intents' = Append(intents, r) /\ r \in Intents /\ UNCHANGED owed
      BY <1>1, <1>3, <2>1 DEF RecordIntent, Item, Intents
    <3>2. /\ DOMAIN intents' = DOMAIN intents \union {Len(intents) + 1}
          /\ \A m \in DOMAIN intents : intents'[m] = intents[m]
          /\ intents'[Len(intents) + 1] = r
      BY <1>1, <3>1, AppendIs
    <3>3. Len(intents) + 1 \notin DOMAIN intents
      BY <1>1, IntentsAre
    <3>4. Pending' = Pending \union {Len(intents) + 1} /\ Pending \subseteq DOMAIN intents
      BY <3>2, <3>3 DEF Pending
    <3>5. OnRecord' = OnRecord \union {i}
      BY <3>2, <3>4 DEF OnRecord
    <3> QED
      BY <1>1, <3>1, <3>5 DEF OnRecord, Ahead!Next, Ahead!Promise
  <2>2. CASE i \notin Managed
    BY <1>3, <2>2, QuietMaps DEF RecordIntent, Item
  <2> QED
    BY <2>1, <2>2
<1>4. CASE CallService(w)
  <2>1. UNCHANGED intents /\ (n = NoIntent => UNCHANGED owed)
        /\ (n # NoIntent => owed' = owed \union {i} \/ owed' = owed)
    BY <1>4 DEF CallService, Remove, Item
  <2>2. UNCHANGED OnRecord
    BY <2>1 DEF OnRecord, Pending
  <2> QED
    BY <1>1, <1>2, <2>1, <2>2, QuietMaps DEF OnRecord, Ahead!Next, Ahead!Act
<1>5. CASE CallFails(w)
  <2>1. n # NoIntent /\ Mark(n, "failed") /\ (owed' = owed \union {i} \/ owed' = owed)
    BY <1>5 DEF CallFails, Remove, Item
  <2>2. /\ DOMAIN intents' = DOMAIN intents
        /\ \A m \in DOMAIN intents : /\ intents'[m].item = intents[m].item
                                     /\ intents'[m].state = IF m = n THEN "failed" ELSE intents[m].state
    BY <1>1, <1>2, <2>1, MarkIs
  <2>3. Pending' = Pending /\ Pending \subseteq DOMAIN intents
    BY <1>2, <2>1, <2>2 DEF Pending
  <2>4. UNCHANGED OnRecord
    BY <2>2, <2>3 DEF OnRecord
  <2> QED
    BY <1>1, <1>2, <2>1, <2>4 DEF OnRecord, Ahead!Next, Ahead!Act, Ahead!vars
<1>6. CASE Finalise(w) \/ FinaliseFails(w)
  BY <1>6, QuietMaps DEF Finalise, FinaliseFails
<1>7. CASE Complete(w)
  BY <1>2, <1>7, QuietMaps, MarkMaps DEF Complete
<1> QED
  BY <1>3, <1>4, <1>5, <1>6, <1>7

\* The next start: rows go before their intents are completed.
LEMMA ReconcileMaps ==
    ASSUME LibraryInv, LibraryInv', NEW n \in 1..MaxIntents,
           ReconcileRow(n) \/ ReconcileIntent(n) \/ ReconcileFails(n)
    PROVE  [Ahead!Next]_Ahead!vars
<1>1. n \in DOMAIN intents
  BY DEF LibraryInv, StartsClean, ReconcileRow, ReconcileIntent, ReconcileFails, Booting
<1>2. CASE ReconcileRow(n)
  BY <1>2, QuietMaps DEF ReconcileRow
<1>3. CASE ReconcileIntent(n) \/ ReconcileFails(n)
  BY <1>1, <1>3, MarkMaps DEF ReconcileIntent, ReconcileFails
<1> QED
  BY <1>2, <1>3

\* delete_intents is kept ahead of the removals: for any number of requests,
\* failures, passes, crashes and restarts, no file goes before its intent is on
\* record, and no intent leaves the record while a row is owed for it.
THEOREM ImplementsWriteAhead == LibrarySpec => DeletionsWriteAhead
<1>1. LibraryInit => Ahead!Init
  BY DEF LibraryInit, Ahead!Init, Pending
<1>2. ASSUME LibraryInv, LibraryInv', [LibraryNext]_libVars PROVE [Ahead!Next]_Ahead!vars
  <2>1. CASE UNCHANGED libVars
    BY <2>1, QuietMaps DEF libVars
  <2>2. ASSUME NEW w \in Workers, NEW i \in Items, Snapshot(w, i) PROVE [Ahead!Next]_Ahead!vars
    BY <2>2, QuietMaps DEF Snapshot
  <2>3. ASSUME NEW i \in Items, Redownload(i) \/ PlexNotices(i) PROVE [Ahead!Next]_Ahead!vars
    BY <2>3, QuietMaps DEF Redownload, PlexNotices
  <2>4. ASSUME NEW j \in Jobs, NEW l \in Libraries, Fetch(j, l) PROVE [Ahead!Next]_Ahead!vars
    BY <2>4, QuietMaps DEF Fetch
  <2>5. ASSUME NEW j \in Jobs, WriteRows(j) \/ Look(j) \/ Decide(j) \/ SyncLook(j) \/ DropConfirmed(j)
        PROVE  [Ahead!Next]_Ahead!vars
    <3>1. UNCHANGED intents /\ owed' \subseteq owed
      BY <2>5 DEF WriteRows, Look, Decide, SyncLook, DropConfirmed, Trust, Doubt, DropFrom
    <3> QED
      BY <3>1, QuietMaps
  <2>6. CASE Crash \/ Boot \/ StartServing
    BY <2>6, QuietMaps DEF Crash, Boot, StartServing
  <2> QED
    BY <1>2, <2>1, <2>2, <2>3, <2>4, <2>5, <2>6, RequestMaps, ReconcileMaps DEF LibraryNext
<1> QED
  BY <1>1, <1>2, LibraryInvInit, LibraryInvStep, PTL DEF LibrarySpec, DeletionsWriteAhead, Ahead!Spec

-----------------------------------------------------------------------------
(* The judgement of an item: the invariant.                                *)

\* What Plex, Radarr and Sonarr hold: only what has a file was watched, and
\* Plex's date is that of the first file.
FilesKnown ==
    /\ kind = "film" => Present \subseteq {FilmPart}
    /\ \A p \in Parts : viewed[p] # Never => p \in Present
    /\ plexDate <= clock
    /\ plexDate # Never => Present # {} /\ \A p \in Present : plexDate <= file[p].at
    /\ \A p \in Present : file[p].at <= clock

\* What a run has heard covers every viewing from before it began, of the parts
\* it has asked about.
ViewingsHeard ==
    /\ run.began <= clock
    /\ run.step # "fetch" => run.left = {}
    /\ \A p \in Parts : viewed[p] \in 0..run.began - 1 => p \in run.left \/ viewed[p] <= run.heard

\* What a run was told of the files is no older than any of them that it was told
\* of, and no newer than the newest there is.
DateHeard ==
    /\ Present # {} /\ run.asked <= clock
    /\ ~run.loaded => run.date = NoDate
    /\ run.date # NoDate =>
          /\ \A p \in Readable : file[p].at < run.asked =>
                run.date.form # "bad" /\ file[p].at <= run.date.at
          /\ run.date.form # "bad" => \E p \in Present : run.date.at <= file[p].at

\* A decision is that of the dates it was made with, while it is fresh.
DecisionStands ==
    run.step = "decided" =>
        /\ run.used = AddedAt(run.date)
        /\ run.job = "scan" => run.verdict = Evaluate(run.used, run.heard)
        /\ dates.added \in {run.used, Unreadable} /\ dates.watched >= run.heard

JudgeInv ==
    /\ EligTypeOK /\ FilesKnown
    /\ run # Idle => ViewingsHeard /\ DateHeard /\ DecisionStands

-----------------------------------------------------------------------------
(* The judgement of an item: its operators.                                *)

\* The later of two times.
LEMMA LaterOf ==
    ASSUME NEW a \in Int, NEW b \in Int
    PROVE  Max({a, b}) \in {a, b} /\ Max({a, b}) >= a /\ Max({a, b}) >= b
<1>1. \E x \in {a, b} : \A y \in {a, b} : x >= y
  OBVIOUS
<1>2. Max({a, b}) \in {a, b} /\ \A y \in {a, b} : Max({a, b}) >= y
  BY <1>1 DEF Max
<1> QED
  BY <1>2

\* timedelta.days, compared with a number of days.
LEMMA DaysAre ==
    ASSUME NEW t \in Int, NEW n \in Int, clock \in Int
    PROVE  Days(t) >= n <=> clock - t >= n * Day
<1> DEFINE x == clock - t  q == x \div Day
<1>1. Day \in Int /\ Day > 0 /\ x \in Int
  BY AgesAssumption
<1>2. q \in Int /\ x = Day * q + (x % Day) /\ 0 <= x % Day /\ x % Day < Day
  BY <1>1
<1> HIDE DEF x, q
<1>3. ASSUME q >= n PROVE x >= n * Day
  <2>1. Day * q >= Day * n
    BY <1>1, <1>2, <1>3
  <2> QED
    BY <1>1, <1>2, <2>1
<1>4. ASSUME q < n PROVE x < n * Day
  <2>1. q + 1 <= n
    BY <1>2, <1>4
  <2>2. Day * (q + 1) <= Day * n
    BY <1>1, <1>2, <2>1
  <2> QED
    BY <1>1, <1>2, <2>2
<1>5. q >= n <=> x >= n * Day
  BY <1>1, <1>2, <1>3, <1>4
<1> QED
  BY <1>5 DEF Days, x, q

\* The newest of some files is among them.
LEMMA NewestIs ==
    ASSUME EligTypeOK, NEW S \in SUBSET Present, S # {}
    PROVE  Newest(S) \in S /\ \A q \in S : file[q].at <= file[Newest(S)].at
<1> DEFINE gaps == {MaxTime - file[p].at : p \in S}
<1>1. \A p \in S : file[p] \in Dates /\ file[p].at \in Nat /\ MaxTime - file[p].at \in Nat
  BY AgesAssumption DEF EligTypeOK, Present, Dates, Times
<1>2. gaps \subseteq Nat /\ gaps # {}
  BY <1>1
<1>3. \E g \in gaps : \A h \in gaps : ~(<<h, g>> \in OpToRel(<, Nat))
  BY <1>2, NatLessThanWellFounded, WFMin
<1>4. PICK g \in gaps : \A h \in gaps : ~(h < g)
  BY <1>2, <1>3 DEF OpToRel
<1>5. PICK p \in S : g = MaxTime - file[p].at
  OBVIOUS
<1>6. ASSUME NEW q \in S PROVE file[p].at >= file[q].at
  <2>1. MaxTime - file[q].at \in gaps
    OBVIOUS
  <2>2. ~(MaxTime - file[q].at < MaxTime - file[p].at)
    BY <1>4, <1>5, <2>1
  <2> QED
    BY <1>1, <2>2, AgesAssumption
<1>7. Newest(S) \in S /\ \A q \in S : file[Newest(S)].at >= file[q].at
  BY <1>6 DEF Newest
<1> QED
  BY <1>1, <1>7

\* What Radarr or Sonarr answers: the date of a file, and no readable one is newer.
LEMMA DatesNowAre ==
    ASSUME EligTypeOK, FilesKnown, NEW d \in DatesNow, d # NoDate
    PROVE  /\ d \in Dates /\ \E p \in Present : d = file[p]
           /\ \A p \in Readable : d.form # "bad" /\ file[p].at <= d.at
<1>1. d \in ArrDate
  BY DEF DatesNow
<1>2. \A p \in Present : file[p] \in Dates /\ file[p].at \in Nat
  BY DEF EligTypeOK, Present, Dates, Times
<1>3. Readable \subseteq Present
  BY DEF Readable
<1>4. CASE kind = "film"
  <2>1. PICK p \in Present : d = file[p]
    BY <1>1, <1>4 DEF ArrDate
  <2>2. \A q \in Readable : q = p
    BY <1>3, <1>4, <2>1 DEF FilesKnown
  <2> QED
    BY <1>2, <2>1, <2>2 DEF Readable
<1>5. CASE kind # "film"
  <2>1. d = file[Newest(Readable)] /\ Readable # {}
    BY <1>1, <1>5 DEF ArrDate
  <2>2. Newest(Readable) \in Readable /\ \A q \in Readable : file[q].at <= file[Newest(Readable)].at
    BY <1>3, <2>1, NewestIs
  <2>3. file[Newest(Readable)].form # "bad"
    BY <2>2 DEF Readable
  <2> QED
    BY <1>2, <1>3, <2>1, <2>2, <2>3
<1> QED
  BY <1>4, <1>5

\* The numbers among the types.
LEMMA NumbersAre ==
    ASSUME EligTypeOK
    PROVE  /\ clock \in Nat /\ clock \in Int /\ clock <= MaxTime /\ plexDate \in Int /\ plexDate >= Never
           /\ \A p \in Parts : viewed[p] \in Int /\ viewed[p] >= Never
           /\ \A p \in Present : file[p] \in Dates /\ file[p].at \in Nat
           /\ dates.watched \in Int /\ MaxTime \in Nat
           /\ run # Idle => /\ run \in Runs /\ run.began \in Nat /\ run.asked \in Nat
                            /\ run.heard \in Int /\ run.heard >= Never
                            /\ run.date # NoDate => run.date \in Dates /\ run.date.at \in Nat
<1>1. MaxTime \in Nat /\ Times \subseteq Nat /\ Never \in Int /\ Never = -1
  BY AgesAssumption DEF Times, Never
<1>2. clock \in Times /\ plexDate \in Times \union {Never} /\ dates.watched \in Times \union {Never}
      /\ \A p \in Parts : viewed[p] \in Times \union {Never}
  BY DEF EligTypeOK
<1>3. \A p \in Present : file[p] \in Dates /\ file[p].at \in Times
  BY DEF EligTypeOK, Present, Dates
<1>4. run # Idle => /\ run \in Runs /\ run.began \in Times /\ run.asked \in Times
                    /\ run.heard \in Times \union {Never} /\ run.date \in Dates \union {NoDate}
  BY DEF EligTypeOK, Runs
<1>5. \A d \in Dates : d.at \in Times
  BY DEF Dates
<1> QED
  BY <1>1, <1>2, <1>3, <1>4, <1>5 DEF Times

-----------------------------------------------------------------------------
(* The judgement of an item: the steps.                                    *)

\* A new file, beside whatever runs.
LEMMA ArriveSafe ==
    ASSUME JudgeInv, NEW p \in Parts, Arrive(p)
    PROVE  JudgeInv'
<1>1. /\ EligTypeOK /\ FilesKnown /\ UNCHANGED <<kind, clock, viewed, dates, run>>
      /\ plexDate' \in PlexDates /\ (kind = "film" => p = FilmPart)
  BY DEF JudgeInv, Arrive
<1>2. PICK f \in Forms : file' = [file EXCEPT ![p] = [at |-> clock, form |-> f]]
  BY DEF Arrive
<1>3. [at |-> clock, form |-> f] \in Dates /\ [at |-> clock, form |-> f] # NoDate /\ clock \in Times
  BY <1>1 DEF Dates, NoDate, EligTypeOK
<1>4. /\ file' \in [Parts -> Dates \union {NoDate}]
      /\ file'[p] = [at |-> clock, form |-> f] /\ \A q \in Parts : q # p => file'[q] = file[q]
  BY <1>1, <1>2, <1>3 DEF EligTypeOK
<1>5. Present' = Present \union {p}
  BY <1>3, <1>4 DEF Present
<1>6. IF Present = {} THEN plexDate' \in {Never, clock} ELSE plexDate' = plexDate
  <2>1. CASE Present = {}
    BY <1>1, <2>1 DEF PlexDates
  <2>2. CASE Present # {}
    BY <1>1, <2>2 DEF PlexDates
  <2> QED
    BY <2>1, <2>2
<1>7. EligTypeOK'
  <2>1. plexDate' \in Times \union {Never}
    BY <1>1, <1>6 DEF EligTypeOK
  <2>2. changes' \in 0..MaxChanges
    BY <1>1, AgesAssumption DEF EligTypeOK, Arrive, Change
  <2> QED
    BY <1>1, <1>4, <2>1, <2>2 DEF EligTypeOK
<1>8. FilesKnown'
  <2>1. plexDate' <= clock /\ (Present = {} /\ plexDate' # Never => plexDate' = clock)
    BY <1>1, <1>6, NumbersAre DEF FilesKnown, Never
  <2>2. \A q \in Present : file'[q] = file[q] \/ (q = p /\ file'[q].at = clock)
    BY <1>4 DEF Present
  <2>3. plexDate' # Never => \A q \in Present' : plexDate' <= file'[q].at
    BY <1>1, <1>4, <1>5, <1>6, <2>1, <2>2, NumbersAre DEF FilesKnown
  <2>4. \A q \in Present' : file'[q].at <= clock
    BY <1>1, <1>4, <1>5, <2>2, NumbersAre DEF FilesKnown
  <2>5. kind = "film" => Present' \subseteq {FilmPart}
    BY <1>1, <1>5 DEF FilesKnown
  <2>6. \A q \in Parts : viewed[q] # Never => q \in Present'
    BY <1>1, <1>5 DEF FilesKnown
  <2> QED
    BY <1>1, <1>5, <2>1, <2>3, <2>4, <2>5, <2>6 DEF FilesKnown
<1>9. ASSUME run # Idle PROVE ViewingsHeard' /\ DateHeard' /\ DecisionStands'
  <2>1. Present # {} /\ plexDate' = plexDate /\ run.asked <= clock
    BY <1>6, <1>9 DEF JudgeInv, DateHeard
  <2>2. ViewingsHeard'
    BY <1>1, <1>9 DEF JudgeInv, ViewingsHeard
  <2>3. DecisionStands'
    BY <1>1, <1>9, <2>1 DEF JudgeInv, DecisionStands, AddedAt, Evaluate, IsOldEnough, IsInactive, Days
  <2>4. ASSUME NEW q \in Readable', file'[q].at < run.asked PROVE q \in Readable /\ file'[q] = file[q]
    <3>1. q \in Present' /\ file'[q].form # "bad"
      BY <2>4 DEF Readable
    <3>2. q # p
      BY <1>1, <1>4, <1>9, <2>1, <2>4, NumbersAre
    <3>3. q \in Present /\ file'[q] = file[q]
      BY <1>4, <1>5, <3>1, <3>2 DEF Present
    <3> QED
      BY <3>1, <3>3 DEF Readable
  <2>5. ASSUME NEW q \in Present PROVE file[q].at <= file'[q].at /\ file'[q].at \in Nat
    <3>1. q \in Parts
      BY DEF Present
    <3> QED
      BY <1>1, <1>4, <3>1, NumbersAre DEF FilesKnown
  <2>6. \A q \in Present : file[q] \in Dates /\ file[q].at \in Nat
    BY <1>1, NumbersAre
  <2>7. ASSUME run.date # NoDate, run.date.form # "bad" PROVE \E q \in Present' : run.date.at <= file'[q].at
    <3>1. PICK q \in Present : run.date.at <= file[q].at
      BY <1>9, <2>7 DEF JudgeInv, DateHeard
    <3>2. run.date.at \in Nat
      BY <1>1, <1>9, <2>7, NumbersAre
    <3> QED
      BY <1>5, <2>5, <2>6, <3>1, <3>2
  <2>8. DateHeard'
    BY <1>1, <1>5, <1>9, <2>1, <2>4, <2>7 DEF JudgeInv, DateHeard
  <2> QED
    BY <2>2, <2>3, <2>8
<1> QED
  BY <1>1, <1>7, <1>8, <1>9 DEF JudgeInv

\* A viewing, or a history that Plex has lost, beside whatever runs.
LEMMA WatchSafe ==
    ASSUME JudgeInv, NEW p \in Parts, Watch(p) \/ Forget(p)
    PROVE  JudgeInv'
<1>1. /\ EligTypeOK /\ FilesKnown /\ UNCHANGED <<kind, clock, file, plexDate, dates, run>>
      /\ Present' = Present /\ Readable' = Readable
  BY DEF JudgeInv, Watch, Forget, Present, Readable
<1>2. PICK t \in {clock, Never} :
         viewed' = [viewed EXCEPT ![p] = t] /\ (t # Never => p \in Present)
  BY DEF Watch, Forget, Present
<1>3. /\ viewed' \in [Parts -> Times \union {Never}]
      /\ viewed'[p] = t /\ \A q \in Parts : q # p => viewed'[q] = viewed[q]
  BY <1>1, <1>2 DEF EligTypeOK
<1>4. EligTypeOK'
  <2>1. changes' \in 0..MaxChanges
    BY <1>1, AgesAssumption DEF EligTypeOK, Watch, Forget, Change
  <2> QED
    BY <1>1, <1>3, <2>1 DEF EligTypeOK
<1>5. FilesKnown'
  BY <1>1, <1>2, <1>3 DEF FilesKnown
<1>6. ASSUME run # Idle PROVE ViewingsHeard' /\ DateHeard' /\ DecisionStands'
  <2>1. ViewingsHeard /\ DateHeard /\ DecisionStands
    BY <1>6 DEF JudgeInv
  <2>2. ASSUME NEW q \in Parts, viewed'[q] \in 0..run.began - 1 PROVE viewed'[q] = viewed[q]
    <3>1. t \notin 0..run.began - 1
      BY <1>1, <1>2, <1>6, <2>1, NumbersAre DEF ViewingsHeard, Never
    <3> QED
      BY <1>3, <2>2, <3>1
  <2>3. ViewingsHeard'
    BY <1>1, <2>1, <2>2 DEF ViewingsHeard
  <2>4. DateHeard' /\ DecisionStands'
    BY <1>1, <2>1 DEF DateHeard, DecisionStands, AddedAt, Evaluate, IsOldEnough, IsInactive, Days
  <2> QED
    BY <2>3, <2>4
<1> QED
  BY <1>1, <1>4, <1>5, <1>6 DEF JudgeInv

\* The clock, which leaves a fresh decision alone.
LEMMA TickSafe ==
    ASSUME JudgeInv, EligTick
    PROVE  JudgeInv'
<1>1. /\ EligTypeOK /\ FilesKnown /\ UNCHANGED <<kind, file, plexDate, viewed, dates, run, changes>>
      /\ Present' = Present /\ Readable' = Readable /\ clock' = clock + 1 /\ clock < MaxTime
  BY DEF JudgeInv, EligTick, Present, Readable
<1>2. EligTypeOK'
  BY <1>1, NumbersAre DEF EligTypeOK, Times
<1>3. FilesKnown'
  BY <1>1, NumbersAre DEF FilesKnown
<1>4. ASSUME run # Idle PROVE ViewingsHeard' /\ DateHeard' /\ DecisionStands'
  <2>1. ViewingsHeard /\ DateHeard /\ run.step # "decided"
    BY <1>4 DEF JudgeInv, EligTick
  <2> QED
    BY <1>1, <1>4, <2>1, NumbersAre DEF ViewingsHeard, DateHeard, DecisionStands
<1> QED
  BY <1>1, <1>2, <1>3, <1>4 DEF JudgeInv

\* Steps of the run leave the services as they are.
LEMMA RunSafe ==
    ASSUME JudgeInv, UNCHANGED <<kind, clock, file, plexDate, viewed, changes>>,
           dates' \in [added : Times \union {Never, Unreadable}, watched : Times \union {Never}],
           run' \in Runs \union {Idle},
           run' # Idle => ViewingsHeard' /\ DateHeard' /\ DecisionStands'
    PROVE  JudgeInv'
<1>1. EligTypeOK'
  BY DEF JudgeInv, EligTypeOK
<1>2. FilesKnown'
  BY DEF JudgeInv, FilesKnown, Present
<1> QED
  BY <1>1, <1>2 DEF JudgeInv

\* A scan or a sync comes to the item.
LEMMA BeginSafe ==
    ASSUME JudgeInv, NEW job \in {"scan", "sync"}, Begin(job)
    PROVE  JudgeInv'
<1>1. /\ EligTypeOK /\ FilesKnown /\ UNCHANGED <<kind, clock, file, plexDate, viewed, dates, changes>>
      /\ Present' = Present /\ Readable' = Readable /\ Present # {} /\ clock \in Times
      /\ Present \subseteq Parts
  BY DEF JudgeInv, Begin, EligTypeOK, Present, Readable
<1>2. PICK loaded \in BOOLEAN, d \in DatesNow \union {NoDate} :
         /\ ~loaded => d = NoDate
         /\ run' = [step |-> "fetch", job |-> job, left |-> Present,
                    heard |-> Never, loaded |-> loaded, date |-> d, began |-> clock, asked |-> clock,
                    verdict |-> "none", used |-> Never]
  <2>1. PICK loaded \in BOOLEAN : \E d \in IF loaded THEN DatesNow ELSE {NoDate} :
         run' = [step |-> "fetch", job |-> job, left |-> Present,
                 heard |-> Never, loaded |-> loaded, date |-> d, began |-> clock, asked |-> clock,
                 verdict |-> "none", used |-> Never]
    BY DEF Begin
  <2>2. CASE loaded
    BY <2>1, <2>2
  <2>3. CASE ~loaded
    BY <2>1, <2>3
  <2> QED
    BY <2>2, <2>3
<1>3. d \in Dates \union {NoDate}
  BY <1>1, DatesNowAre
<1>4. run' \in Runs
  BY <1>1, <1>2, <1>3 DEF Runs
<1>5. ViewingsHeard'
  <2>1. run'.began = clock /\ run'.step = "fetch" /\ run'.left = Present
    BY <1>2
  <2>2. \A p \in Parts : viewed[p] # Never => p \in Present
    BY <1>1 DEF FilesKnown
  <2>3. \A t \in 0..clock - 1 : t # Never
    BY DEF Never
  <2> QED
    BY <1>1, <2>1, <2>2, <2>3, NumbersAre DEF ViewingsHeard
<1>6. DateHeard'
  <2>1. run'.date = d /\ run'.asked = clock /\ run'.loaded = loaded
    BY <1>2
  <2>2. d # NoDate => /\ \A p \in Readable : d.form # "bad" /\ file[p].at <= d.at
                      /\ \E p \in Present : d = file[p]
    BY <1>1, DatesNowAre
  <2> QED
    BY <1>1, <1>2, <2>1, <2>2, NumbersAre DEF DateHeard
<1>7. DecisionStands'
  BY <1>2 DEF DecisionStands
<1>8. dates' \in [added : Times \union {Never, Unreadable}, watched : Times \union {Never}]
  BY <1>1 DEF EligTypeOK
<1> QED
  BY <1>1, <1>4, <1>5, <1>6, <1>7, <1>8, RunSafe

\* One part of the history.
LEMMA AskHistorySafe ==
    ASSUME JudgeInv, NEW p \in Parts, AskHistory(p)
    PROVE  JudgeInv'
<1>1. /\ EligTypeOK /\ run # Idle /\ run \in Runs /\ p \in run.left /\ run.step = "fetch"
      /\ UNCHANGED <<kind, clock, file, plexDate, viewed, dates, changes>>
      /\ Present' = Present /\ Readable' = Readable
      /\ ViewingsHeard /\ DateHeard
  BY NumbersAre DEF JudgeInv, AskHistory, Present, Readable
<1> DEFINE h == Max({run.heard, viewed[p]})
           s == IF run.left = {p} THEN "write" ELSE "fetch"
<1>2. run' = [run EXCEPT !.left = run.left \ {p}, !.heard = h, !.step = s]
  BY DEF AskHistory
<1>3. h \in {run.heard, viewed[p]} /\ h >= run.heard /\ h >= viewed[p]
  BY <1>1, NumbersAre, LaterOf
<1>4. h \in Times \union {Never}
  BY <1>1, <1>3 DEF Runs, EligTypeOK
<1>5. s \in {"fetch", "write"} /\ (s # "fetch" => run.left \ {p} = {})
  OBVIOUS
<1> HIDE DEF h, s
<1>6. /\ run' \in Runs /\ run'.left = run.left \ {p} /\ run'.heard = h /\ run'.step = s
      /\ run'.began = run.began /\ run'.asked = run.asked /\ run'.loaded = run.loaded
      /\ run'.date = run.date
  BY <1>1, <1>2, <1>4, <1>5 DEF Runs
<1>7. ViewingsHeard'
  <2>1. ASSUME NEW q \in Parts, viewed[q] \in 0..run.began - 1
        PROVE  q \in run.left \ {p} \/ viewed[q] <= h
    <3>1. CASE q = p
      BY <1>3, <3>1
    <3>2. CASE q # p
      BY <1>1, <1>3, <1>6, <2>1, <3>2, NumbersAre DEF ViewingsHeard
    <3> QED
      BY <3>1, <3>2
  <2> QED
    BY <1>1, <1>5, <1>6, <2>1 DEF ViewingsHeard
<1>8. DateHeard' /\ DecisionStands'
  BY <1>1, <1>5, <1>6 DEF DateHeard, DecisionStands
<1>9. dates' \in [added : Times \union {Never, Unreadable}, watched : Times \union {Never}]
  BY <1>1 DEF EligTypeOK
<1> QED
  BY <1>1, <1>6, <1>7, <1>8, <1>9, RunSafe

\* The run leaves the item: a history that cannot be read, or the end.
LEMMA LeaveSafe ==
    ASSUME JudgeInv, run' = Idle, UNCHANGED <<kind, clock, file, plexDate, viewed, dates, changes>>
    PROVE  JudgeInv'
<1>1. dates' \in [added : Times \union {Never, Unreadable}, watched : Times \union {Never}]
  BY DEF JudgeInv, EligTypeOK
<1> QED
  BY <1>1, RunSafe DEF Idle

\* The dates are asked for with the first item that is written.
LEMMA LoadDatesSafe ==
    ASSUME JudgeInv, LoadDates
    PROVE  JudgeInv'
<1>1. /\ EligTypeOK /\ FilesKnown /\ run # Idle /\ run \in Runs /\ run.step = "write" /\ ~run.loaded
      /\ UNCHANGED <<kind, clock, file, plexDate, viewed, dates, changes>>
      /\ Present' = Present /\ Readable' = Readable /\ clock \in Times
      /\ ViewingsHeard /\ DateHeard
  BY NumbersAre DEF JudgeInv, LoadDates, EligTypeOK, Present, Readable
<1>2. CASE run' = Idle
  BY <1>1, <1>2, LeaveSafe
<1>3. ASSUME NEW d \in DatesNow \union {NoDate},
             run' = [run EXCEPT !.loaded = TRUE, !.date = d, !.asked = clock]
      PROVE  JudgeInv'
  <2>1. d \in Dates \union {NoDate}
    BY <1>1, DatesNowAre
  <2>2. /\ run' \in Runs /\ run'.date = d /\ run'.asked = clock /\ run'.loaded = TRUE
        /\ run'.left = run.left /\ run'.heard = run.heard /\ run'.began = run.began
        /\ run'.step = "write"
    BY <1>1, <1>3, <2>1 DEF Runs
  <2>3. ViewingsHeard' /\ DecisionStands'
    BY <1>1, <2>2 DEF ViewingsHeard, DecisionStands
  <2>4. d # NoDate => /\ \A p \in Readable : d.form # "bad" /\ file[p].at <= d.at
                      /\ \E p \in Present : d = file[p]
    BY <1>1, DatesNowAre
  <2>5. DateHeard'
    BY <1>1, <2>2, <2>4, NumbersAre DEF DateHeard
  <2>6. dates' \in [added : Times \union {Never, Unreadable}, watched : Times \union {Never}]
    BY <1>1 DEF EligTypeOK
  <2> QED
    BY <1>1, <2>2, <2>3, <2>5, <2>6, RunSafe
<1>4. run' # Idle => \E d \in DatesNow \union {NoDate} :
                       run' = [run EXCEPT !.loaded = TRUE, !.date = d, !.asked = clock]
  <2>1. CASE Clash
    <3>1. run.date = NoDate
      BY <1>1 DEF DateHeard
    <3>2. run = [run EXCEPT !.date = NoDate]
      BY <1>1, <3>1 DEF Runs
    <3>3. run' # Idle => run' = [run EXCEPT !.loaded = TRUE, !.asked = clock]
      BY <2>1 DEF LoadDates
    <3>4. [run EXCEPT !.loaded = TRUE, !.date = NoDate, !.asked = clock]
          = [[run EXCEPT !.date = NoDate] EXCEPT !.loaded = TRUE, !.asked = clock]
      BY <1>1 DEF Runs
    <3> QED
      BY <3>2, <3>3, <3>4
  <2>2. CASE ~Clash
    BY <2>2 DEF LoadDates
  <2> QED
    BY <2>1, <2>2
<1> QED
  BY <1>2, <1>3, <1>4

\* The item is written, and a scan decides.
LEMMA WriteItemSafe ==
    ASSUME JudgeInv, WriteItem
    PROVE  JudgeInv'
<1> DEFINE added == AddedAt(run.date)
           seen == Max({dates.watched, run.heard})
           verdict == IF run.job = "scan" THEN Evaluate(added, run.heard) ELSE "none"
<1>1. /\ EligTypeOK /\ run # Idle /\ run \in Runs /\ run.step = "write"
      /\ UNCHANGED <<kind, clock, file, plexDate, viewed, changes>>
      /\ Present' = Present /\ Readable' = Readable /\ clock \in Times
      /\ ViewingsHeard /\ DateHeard
  BY NumbersAre DEF JudgeInv, WriteItem, EligTypeOK, Present, Readable
<1>2. /\ dates' = [added |-> StoredDate(run.date), watched |-> seen]
      /\ run' = [run EXCEPT !.step = "decided", !.used = added, !.verdict = verdict]
  BY DEF WriteItem
<1>3. added \in Times
  <2>1. plexDate # Never => plexDate \in Times
    BY <1>1 DEF EligTypeOK
  <2>2. run.date \in Dates \union {NoDate} /\ \A d \in Dates : d.at \in Times
    BY <1>1 DEF Runs, Dates
  <2>3. NoDate.form = "none"
    BY DEF NoDate
  <2> QED
    BY <1>1, <2>1, <2>2, <2>3 DEF AddedAt
<1>4. seen \in {dates.watched, run.heard} /\ seen >= run.heard
  BY <1>1, NumbersAre, LaterOf
<1>5. seen \in Times \union {Never} /\ StoredDate(run.date) \in {added, Unreadable}
  BY <1>1, <1>4 DEF EligTypeOK, Runs, StoredDate
<1>6. verdict \in {"none", "skip", "schedule_deletion"}
  BY DEF Evaluate
<1> HIDE DEF added, seen, verdict
<1>7. dates' \in [added : Times \union {Never, Unreadable}, watched : Times \union {Never}]
      /\ dates'.added \in {added, Unreadable} /\ dates'.watched >= run.heard
  BY <1>2, <1>3, <1>4, <1>5
<1>8. /\ run' \in Runs /\ run'.step = "decided" /\ run'.used = added /\ run'.verdict = verdict
      /\ run'.job = run.job /\ run'.left = run.left /\ run'.heard = run.heard
      /\ run'.began = run.began /\ run'.asked = run.asked /\ run'.loaded = run.loaded
      /\ run'.date = run.date
  BY <1>1, <1>2, <1>3, <1>6 DEF Runs
<1>9. ViewingsHeard' /\ DateHeard'
  BY <1>1, <1>8 DEF ViewingsHeard, DateHeard
<1>10. DecisionStands'
  <2>1. run'.used = AddedAt(run.date)'
    BY <1>1, <1>8 DEF added, AddedAt
  <2>2. run'.job = "scan" => run'.verdict = Evaluate(run.used, run.heard)'
    BY <1>1, <1>8 DEF verdict, Evaluate, IsOldEnough, IsInactive, Days
  <2> QED
    BY <1>7, <1>8, <2>1, <2>2 DEF DecisionStands
<1> QED
  BY <1>1, <1>7, <1>8, <1>9, <1>10, RunSafe

-----------------------------------------------------------------------------
(* The judgement of an item: the theorem.                                  *)

LEMMA JudgeInvInit ==
    ASSUME EligInit
    PROVE  JudgeInv
<1>1. MaxTime \in Nat /\ MaxChanges \in Nat
  BY AgesAssumption
<1>2. EligTypeOK
  BY <1>1 DEF EligInit, EligTypeOK, Times
<1> QED
  BY <1>2 DEF JudgeInv, EligInit, FilesKnown, Present, Never

LEMMA JudgeInvStep ==
    ASSUME JudgeInv, [EligNext]_eligVars
    PROVE  JudgeInv'
<1>1. CASE UNCHANGED eligVars
  <2>1. UNCHANGED <<kind, clock, file, plexDate, viewed, dates, run, changes>>
    BY <1>1 DEF eligVars
  <2>2. EligTypeOK' /\ FilesKnown'
    BY <2>1 DEF JudgeInv, EligTypeOK, FilesKnown, Present
  <2>3. run # Idle => ViewingsHeard' /\ DateHeard'
    BY <2>1 DEF JudgeInv, ViewingsHeard, DateHeard, Present, Readable
  <2>4. run # Idle => DecisionStands'
    BY <2>1 DEF JudgeInv, DecisionStands, AddedAt, Evaluate, IsOldEnough, IsInactive, Days
  <2> QED
    BY <2>1, <2>2, <2>3, <2>4 DEF JudgeInv
<1>2. CASE HistoryFails \/ EndPass
  BY <1>2, LeaveSafe DEF HistoryFails, EndPass
<1> QED
  BY <1>1, <1>2, TickSafe, LoadDatesSafe, WriteItemSafe, ArriveSafe, WatchSafe, AskHistorySafe,
     BeginSafe DEF EligNext

\* What the invariant says of a decision.
LEMMA JudgeInvKept ==
    ASSUME JudgeInv
    PROVE  EligibilityKept
<1>1. CASE ~(run # Idle /\ run.step = "decided")
  BY <1>1 DEF JudgeInv, EligibilityKept, CondemnedIsOld, SparedForAReason, TablesAgree, Decided
<1>2. CASE run # Idle /\ run.step = "decided"
  <2>1. /\ EligTypeOK /\ FilesKnown /\ ViewingsHeard /\ DateHeard /\ DecisionStands
        /\ run.left = {} /\ Readable \subseteq Present
        /\ run.used = AddedAt(run.date) /\ clock \in Int
        /\ NoDate.form = "none"
    BY <1>2, NumbersAre DEF JudgeInv, ViewingsHeard, DecisionStands, Readable, NoDate
  <2>2. /\ Day \in Int /\ Day > 0 /\ MinAge \in Int /\ Inactivity \in Int
        /\ MinAge * Day \in Int /\ Inactivity * Day \in Int
    BY AgesAssumption
  <2>3. \A d \in Dates : d.form \in {"aware", "naive", "bad"}
    BY DEF Dates, Forms
  <2>4. run.date = NoDate \/ run.date \in Dates
    BY <1>2, <2>1, NumbersAre
  <2>5. IF run.date.form \in {"none", "bad"}
        THEN run.used = IF plexDate # Never THEN plexDate ELSE clock
        ELSE run.date # NoDate /\ run.used = run.date.at
    BY <2>1, <2>3, <2>4 DEF AddedAt
  <2>6. run.used \in Int
    BY <1>2, <2>1, <2>5, NumbersAre
  <2>7. IsOldEnough(run.used) <=> clock - run.used >= MinAge * Day
    BY <2>1, <2>2, <2>6, DaysAre DEF IsOldEnough
  <2>8. IsInactive(run.heard) <=> run.heard = Never \/ clock - run.heard >= Inactivity * Day
    BY <1>2, <2>1, <2>2, NumbersAre, DaysAre DEF IsInactive
  <2>9. \A t : (Young(t) <=> clock - t < MinAge * Day) /\ (Recent(t) <=> clock - t < Inactivity * Day)
    BY DEF Young, Recent
  <2>10. CondemnedIsOld
    <3>1. SUFFICES ASSUME run.job = "scan", run.verdict = "schedule_deletion"
                   PROVE  /\ \A p \in Parts : viewed[p] \in 0..run.began - 1 => ~Recent(viewed[p])
                          /\ run.date # NoDate =>
                                \A p \in Readable : file[p].at < run.asked => ~Young(file[p].at)
                          /\ run.date.form \in {"none", "bad"} =>
                                MinAge <= 0 \/ (plexDate # Never /\ ~Young(plexDate))
      BY DEF CondemnedIsOld, Decided
    <3>2. IsOldEnough(run.used) /\ IsInactive(run.heard)
      BY <1>2, <2>1, <3>1 DEF DecisionStands, Evaluate
    <3>3. ASSUME NEW p \in Parts, viewed[p] \in 0..run.began - 1 PROVE ~Recent(viewed[p])
      <4>1. viewed[p] \in Int /\ viewed[p] >= 0 /\ viewed[p] <= run.heard
        BY <1>2, <2>1, <3>3, NumbersAre DEF ViewingsHeard
      <4>2. run.heard \in Int /\ run.heard # Never
        BY <1>2, <2>1, <4>1, NumbersAre DEF Never
      <4>3. clock - run.heard >= Inactivity * Day
        BY <2>8, <3>2, <4>2
      <4> QED
        BY <2>1, <2>2, <2>9, <4>1, <4>2, <4>3
    <3>4. ASSUME run.date # NoDate, NEW p \in Readable, file[p].at < run.asked
          PROVE  ~Young(file[p].at)
      <4>1. run.date.form # "bad" /\ file[p].at <= run.date.at
        BY <2>1, <3>4 DEF DateHeard
      <4>2. run.used = run.date.at
        BY <2>3, <2>4, <2>5, <3>4, <4>1
      <4>3. file[p].at \in Int
        BY <2>1, NumbersAre
      <4>4. clock - run.used >= MinAge * Day
        BY <2>7, <3>2
      <4> QED
        BY <2>1, <2>2, <2>6, <2>9, <4>1, <4>2, <4>3, <4>4
    <3>5. ASSUME run.date.form \in {"none", "bad"}
          PROVE  MinAge <= 0 \/ (plexDate # Never /\ ~Young(plexDate))
      <4>1. CASE plexDate # Never
        BY <2>1, <2>2, <2>5, <2>6, <2>7, <2>9, <3>2, <3>5, <4>1
      <4>2. CASE plexDate = Never
        <5>1. 0 >= MinAge * Day
          BY <2>1, <2>2, <2>5, <2>7, <3>2, <3>5, <4>2
        <5> QED
          BY <2>2, <5>1
      <4> QED
        BY <4>1, <4>2
    <3> QED
      BY <3>3, <3>4, <3>5
  <2>11. SparedForAReason
    <3>1. SUFFICES ASSUME run.job = "scan", run.verdict = "skip"
                   PROVE  \/ run.heard # Never /\ Recent(run.heard)
                          \/ \E p \in Present : Young(file[p].at)
                          \/ run.date.form \in {"none", "bad"} /\ plexDate = Never
      BY DEF SparedForAReason, Decided
    <3>2. ~IsOldEnough(run.used) \/ ~IsInactive(run.heard)
      BY <1>2, <2>1, <3>1 DEF DecisionStands, Evaluate
    <3>3. CASE ~IsInactive(run.heard)
      BY <1>2, <2>1, <2>2, <2>8, <2>9, <3>3, NumbersAre
    <3>4. CASE ~IsOldEnough(run.used)
      <4>1. ASSUME NEW p \in Present, run.used <= file[p].at PROVE Young(file[p].at)
        BY <2>1, <2>2, <2>6, <2>7, <2>9, <3>4, <4>1, NumbersAre
      <4>2. CASE run.date.form \in {"none", "bad"} /\ plexDate # Never
        <5>1. \E p \in Present : run.used <= file[p].at
          BY <2>1, <2>5, <4>2 DEF FilesKnown
        <5> QED
          BY <4>1, <5>1
      <4>3. CASE run.date.form \notin {"none", "bad"}
        <5>1. \E p \in Present : run.used <= file[p].at
          BY <2>1, <2>5, <4>3 DEF DateHeard
        <5> QED
          BY <4>1, <5>1
      <4> QED
        BY <4>2, <4>3
    <3> QED
      BY <3>2, <3>3, <3>4
  <2>12. TablesAgree
    BY <1>2, <2>1 DEF TablesAgree, DecisionStands
  <2> QED
    BY <2>1, <2>10, <2>11, <2>12 DEF EligibilityKept
<1> QED
  BY <1>1, <1>2

\* A scan condemns an item for its age and its idleness alone, and spares it for
\* one of them alone, with any thresholds and however the dates of its parts are
\* written, arrive, go missing or change while the run is asking.
THEOREM EligibilityKeptAlways == EligSpec => []EligibilityKept
<1>1. JudgeInv => EligibilityKept
  BY JudgeInvKept
<1> QED
  BY <1>1, JudgeInvInit, JudgeInvStep, PTL DEF EligSpec
=============================================================================
