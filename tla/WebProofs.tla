------------------------------ MODULE WebProofs ------------------------------
(***************************************************************************)
(* Administrators with their sessions and tickets, the secret settings,    *)
(* the calls to other programs, and the limiters in front of the handlers, *)
(* for any number of names, tokens, requests, keys, starts, threads,       *)
(* hosts, addresses and attempts, and for any limits.                      *)
(***************************************************************************)
EXTENDS Accounts, Settings, Outbound, RateLimits, FiniteSetTheorems, SequenceTheorems,
        WellFoundedInduction, TLAPS

-----------------------------------------------------------------------------
(* Accounts: the invariant.                                                *)

\* The user has a row, and in it a password the policy refuses today.
WeakNow(u) == Exists(u) /\ Weak(u)

\* A token that was never drawn names no ticket.
UnusedBare == \A t \in Tokens : sessions[t] = Unused => tickets[t] = NoTicket

\* A request knows the user of the session it came with; what it knows of his
\* password, it knows of the one that session was opened under.
RequestKnows(w) ==
    /\ req[w].at \in 1..Len(Handler[req[w].kind])
    /\ req[w].kind # "login" =>
          /\ req[w].token \in Tokens /\ sessions[req[w].token] # Unused
          /\ Open(req[w].token) => sessions[req[w].token].user = req[w].user
    /\ req[w].kind = "reauth" /\ req[w].at = 3 /\ Open(req[w].token) =>
          sessions[req[w].token].made = req[w].ver

\* How far a request of a user with a weak password can be: a login has typed that
\* password and then flags him, and one that is in finds him flagged, so that the
\* gate stops it; the forms for the change itself end with another password.
WeakIsHeld(w) ==
    WeakNow(req[w].user) =>
        /\ req[w].kind = "login" /\ req[w].at = 1 => req[w].ver = 0
        /\ req[w].kind = "login" /\ req[w].at = 2 => users[req[w].user].must
        /\ req[w].kind # "login" => users[req[w].user].must
        /\ req[w].kind = "revoke" => req[w].at = 1
        /\ req[w].kind = "change" => req[w].at < 4
        /\ req[w].kind = "forced" => req[w].at < 3

RequestsHeld == \A w \in Workers : ~Idle(w) => RequestKnows(w) /\ WeakIsHeld(w)

AccessInv == AccountsKept /\ UnusedBare /\ RequestsHeld

-----------------------------------------------------------------------------
(* Accounts: the handlers.                                                 *)

LEMMA HandlerIs ==
    /\ Kinds = {"login", "reauth", "change", "forced", "revoke", "delete", "create", "logout"}
    /\ Handler["login"] = <<"flag", "open">>
    /\ Handler["reauth"] = <<"gate", "prove", "grant">>
    /\ Handler["change"] = <<"gate", "prove", "change", "open">>
    /\ Handler["forced"] = <<"prove", "change", "open">>
    /\ Handler["revoke"] = <<"gate", "untick", "close", "tidy", "open", "forget">>
    /\ Handler["delete"] = <<"gate", "ticket", "delete", "tidy">>
    /\ Handler["create"] = <<"gate", "ticket", "create">>
    /\ Handler["logout"] = <<"destroy">>
BY DEF Kinds, Handler, LoginSteps, ReauthSteps, ChangeSteps, ForcedSteps, RevokeSteps,
       DeleteSteps, CreateSteps, LogoutSteps

\* How many transactions each handler makes.
Length(k) ==
    IF k = "logout" THEN 1 ELSE IF k = "login" THEN 2
    ELSE IF k \in {"reauth", "forced", "create"} THEN 3
    ELSE IF k \in {"change", "delete"} THEN 4 ELSE 6

LEMMA LengthIs ==
    ASSUME NEW k \in Kinds
    PROVE  Len(Handler[k]) = Length(k) /\ Length(k) \in 1..6
<1>1. /\ Len(LoginSteps) = 2 /\ Len(ReauthSteps) = 3 /\ Len(ChangeSteps) = 4
      /\ Len(ForcedSteps) = 3 /\ Len(RevokeSteps) = 6 /\ Len(DeleteSteps) = 4
      /\ Len(CreateSteps) = 3 /\ Len(LogoutSteps) = 1
  BY DEF LoginSteps, ReauthSteps, ChangeSteps, ForcedSteps, RevokeSteps,
         DeleteSteps, CreateSteps, LogoutSteps
<1>2. /\ Handler["login"] = LoginSteps /\ Handler["reauth"] = ReauthSteps
      /\ Handler["change"] = ChangeSteps /\ Handler["forced"] = ForcedSteps
      /\ Handler["revoke"] = RevokeSteps /\ Handler["delete"] = DeleteSteps
      /\ Handler["create"] = CreateSteps /\ Handler["logout"] = LogoutSteps
  BY DEF Handler
<1>3. k \in {"login", "reauth", "change", "forced", "revoke", "delete", "create", "logout"}
  BY HandlerIs
<1>4. Len(Handler[k]) = Length(k)
  BY <1>1, <1>2, <1>3 DEF Length
<1> QED
  BY <1>4 DEF Length

\* The fields of a request, and where it is.
LEMMA AtIs ==
    ASSUME AccountsTypeOK, RequestsHeld, NEW w \in Workers, ~Idle(w)
    PROVE  /\ req[w] \in Requests /\ req[w] # NoRequest /\ RequestKnows(w) /\ WeakIsHeld(w)
           /\ req[w].kind \in Kinds /\ req[w].at \in 1..Length(req[w].kind)
           /\ At(w, "gate") => req[w].at = 1 /\ req[w].kind \notin {"login", "forced", "logout"}
           /\ At(w, "flag") => req[w].at = 1 /\ req[w].kind = "login"
           /\ At(w, "open") => <<req[w].kind, req[w].at>> \in
                 {<<"login", 2>>, <<"change", 4>>, <<"forced", 3>>, <<"revoke", 5>>}
           /\ At(w, "prove") => <<req[w].kind, req[w].at>> \in
                 {<<"reauth", 2>>, <<"change", 2>>, <<"forced", 1>>}
           /\ At(w, "grant") => req[w].kind = "reauth" /\ req[w].at = 3
           /\ At(w, "ticket") => req[w].kind \in {"delete", "create"} /\ req[w].at = 2
           /\ At(w, "change") => <<req[w].kind, req[w].at>> \in {<<"change", 3>>, <<"forced", 2>>}
           /\ At(w, "delete") => req[w].kind = "delete" /\ req[w].at = 3
           /\ At(w, "create") => req[w].kind = "create" /\ req[w].at = 3
           /\ At(w, "untick") => req[w].kind = "revoke" /\ req[w].at = 2
           /\ At(w, "close") => req[w].kind = "revoke" /\ req[w].at = 3
           /\ At(w, "forget") => req[w].kind = "revoke" /\ req[w].at = 6
           /\ At(w, "tidy") => <<req[w].kind, req[w].at>> \in {<<"revoke", 4>>, <<"delete", 4>>}
           /\ At(w, "destroy") => req[w].kind = "logout" /\ req[w].at = 1
<1>1. req[w] \in Requests /\ req[w] # NoRequest /\ RequestKnows(w) /\ WeakIsHeld(w)
  BY DEF AccountsTypeOK, RequestsHeld, Idle
<1>2. req[w].kind \in Kinds /\ req[w].at \in 1..Length(req[w].kind)
  BY <1>1, LengthIs DEF Requests, RequestKnows
<1> DEFINE k == req[w].kind  n == req[w].at
<1>3. ASSUME NEW step, At(w, step) PROVE Handler[k][n] = step
  BY <1>3 DEF At
<1>4. ~Idle(w)
  OBVIOUS
<1> HIDE DEF k, n
<1>5. \/ k = "login" /\ n \in 1..2
      \/ k = "reauth" /\ n \in 1..3
      \/ k = "change" /\ n \in 1..4
      \/ k = "forced" /\ n \in 1..3
      \/ k = "revoke" /\ n \in 1..6
      \/ k = "delete" /\ n \in 1..4
      \/ k = "create" /\ n \in 1..3
      \/ k = "logout" /\ n = 1
  BY <1>2, HandlerIs DEF Length, k, n
<1> QED
  BY <1>1, <1>2, <1>3, <1>5, HandlerIs DEF k, n

-----------------------------------------------------------------------------
(* Accounts: what a step does to what others rely on.                      *)

\* A token is drawn once, and a session that is open stays what it was.
KeepsOpen ==
    \A t \in Tokens : sessions[t] # Unused =>
        /\ sessions'[t] # Unused
        /\ Open(t)' => sessions'[t] = sessions[t]

\* Nobody comes by a weak password, and whoever is told to change his stays told.
KeepsWeak ==
    \A u \in Users : WeakNow(u)' =>
        WeakNow(u) /\ (users[u].must => users'[u].must)

\* A request that rests in such a step knows what it knew.
LEMMA RestsHeld ==
    ASSUME AccountsTypeOK, KeepsOpen, KeepsWeak, NEW v \in Workers, req[v] \in Requests,
           UNCHANGED req[v], RequestKnows(v), WeakIsHeld(v)
    PROVE  RequestKnows(v)' /\ WeakIsHeld(v)'
<1>1. req[v].user \in Users
  BY DEF Requests
<1>2. RequestKnows(v)'
  <2>1. req[v].kind # "login" =>
          /\ req[v].token \in Tokens /\ sessions'[req[v].token] # Unused
          /\ Open(req[v].token)' => Open(req[v].token)
          /\ Open(req[v].token)' => sessions'[req[v].token] = sessions[req[v].token]
    BY DEF RequestKnows, KeepsOpen, Open
  <2>2. req[v].kind = "reauth" => req[v].kind # "login"
    OBVIOUS
  <2> QED
    BY <2>1, <2>2 DEF RequestKnows
<1>3. WeakIsHeld(v)'
  BY <1>1 DEF KeepsWeak, WeakIsHeld, WeakNow
<1> QED
  BY <1>2, <1>3

\* The request that takes a step, or ends; the others rest.
LEMMA ProgressIs ==
    ASSUME AccountsTypeOK, RequestsHeld, NEW w \in Workers, ~Idle(w), Done(w) \/ Refused(w)
    PROVE  /\ req' \in [Workers -> Requests \union {NoRequest}]
           /\ \A v \in Workers : v # w => req'[v] = req[v]
           /\ ~Idle(w)' => /\ req'[w].at = req[w].at + 1 /\ req'[w].at \in 1..Length(req[w].kind)
                           /\ req'[w].kind = req[w].kind /\ req'[w].user = req[w].user
                           /\ req'[w].token = req[w].token /\ req'[w].ver = req[w].ver
<1>1. /\ req \in [Workers -> Requests \union {NoRequest}] /\ req[w] \in Requests
      /\ req[w].kind \in Kinds /\ req[w].at \in 1..Length(req[w].kind)
  BY AtIs DEF AccountsTypeOK
<1>2. Len(Handler[req[w].kind]) = Length(req[w].kind) /\ Length(req[w].kind) \in 1..6
  BY <1>1, LengthIs
<1>3. CASE req' = [req EXCEPT ![w] = NoRequest]
  BY <1>1, <1>3 DEF Idle
<1>4. CASE req[w].at # Length(req[w].kind) /\ req' = [req EXCEPT ![w].at = req[w].at + 1]
  <2>1. req[w].at + 1 \in 1..Length(req[w].kind) /\ req[w].at + 1 \in 1..6
    BY <1>1, <1>2, <1>4
  <2>2. [req[w] EXCEPT !.at = req[w].at + 1] \in Requests
    BY <1>1, <2>1 DEF Requests
  <2> QED
    BY <1>1, <1>4, <2>1, <2>2 DEF Requests
<1> QED
  BY <1>2, <1>3, <1>4 DEF Done, Refused

\* What a step has to show of the request that takes it.
LEMMA GoesOn ==
    ASSUME AccountsTypeOK, RequestsHeld, KeepsOpen, KeepsWeak,
           NEW w \in Workers, ~Idle(w), Done(w) \/ Refused(w), NEW r, r = req[w],
           r.kind = "reauth" => r.at # 2,
           ~Idle(w)' /\ WeakNow(r.user)' =>
              /\ r.kind = "login" /\ r.at = 1 => users'[r.user].must
              /\ <<r.kind, r.at>> \notin {<<"revoke", 1>>, <<"change", 3>>, <<"forced", 2>>}
    PROVE  req' \in [Workers -> Requests \union {NoRequest}] /\ RequestsHeld'
<1>1. /\ req' \in [Workers -> Requests \union {NoRequest}]
      /\ \A v \in Workers : v # w => req'[v] = req[v]
      /\ ~Idle(w)' => /\ req'[w].at = r.at + 1 /\ req'[w].at \in 1..Length(r.kind)
                      /\ req'[w].kind = r.kind /\ req'[w].user = r.user
                      /\ req'[w].token = r.token /\ req'[w].ver = r.ver
  BY ProgressIs
<1>2. /\ r \in Requests /\ r.kind \in Kinds /\ RequestKnows(w) /\ WeakIsHeld(w)
      /\ r.at \in Nat /\ r.at >= 1 /\ r.user \in Users
  BY AtIs DEF Requests
<1>3. ASSUME NEW v \in Workers, v # w, ~Idle(v)' PROVE RequestKnows(v)' /\ WeakIsHeld(v)'
  <2>1. req[v] \in Requests /\ RequestKnows(v) /\ WeakIsHeld(v) /\ UNCHANGED req[v]
    BY <1>1, <1>3 DEF RequestsHeld, Idle, AccountsTypeOK
  <2> QED
    BY <2>1, RestsHeld
<1>4. ASSUME ~Idle(w)' PROVE RequestKnows(w)' /\ WeakIsHeld(w)'
  <2>1. Len(Handler[r.kind]) = Length(r.kind)
    BY <1>2, LengthIs
  <2>2. r.kind # "login" =>
          /\ r.token \in Tokens /\ sessions'[r.token] # Unused
          /\ Open(r.token)' => sessions'[r.token] = sessions[r.token] /\ Open(r.token)
    BY <1>2 DEF RequestKnows, KeepsOpen, Open
  <2>3. r.kind = "reauth" => req'[w].at # 3
    BY <1>1, <1>2, <1>4
  <2>4. RequestKnows(w)'
    BY <1>1, <1>2, <1>4, <2>1, <2>2, <2>3 DEF RequestKnows
  <2>5. ASSUME WeakNow(r.user)'
        PROVE  /\ r.kind = "login" => (r.at + 1 = 1 => r.ver = 0) /\ users'[r.user].must
               /\ r.kind # "login" => users'[r.user].must
               /\ r.kind # "revoke"
               /\ r.kind = "change" => r.at + 1 < 4
               /\ r.kind = "forced" => r.at + 1 < 3
    <3>1. WeakNow(r.user) /\ (users[r.user].must => users'[r.user].must)
      BY <1>2, <2>5 DEF KeepsWeak
    <3>2. r.kind = "login" => Length(r.kind) = 2
      BY DEF Length
    <3>3. r.kind = "login" => r.at \in {1, 2}
      <4>1. r.at + 1 \in 1..Length(r.kind)
        BY <1>1, <1>4
      <4> QED
        BY <1>2, <3>2, <4>1
    <3> QED
      BY <1>2, <1>4, <2>5, <3>1, <3>3 DEF WeakIsHeld
  <2>6. WeakIsHeld(w)'
    BY <1>1, <1>4, <2>5 DEF WeakIsHeld
  <2> QED
    BY <2>4, <2>6
<1> QED
  BY <1>1, <1>3, <1>4 DEF RequestsHeld

\* Sessions are closed and tickets withdrawn, and nothing else happens to them.
LEMMA TablesShrink ==
    ASSUME AccessInv, UNCHANGED <<users, last>>, req' \in [Workers -> Requests \union {NoRequest}],
           sessions' \in [Tokens -> Sessions \union {Unused, Closed}],
           tickets' \in [Tokens -> Tickets \union {NoTicket}],
           \A t \in Tokens : /\ sessions'[t] \in {sessions[t], Closed}
                             /\ tickets'[t] \in {tickets[t], NoTicket}
    PROVE  AccountsKept' /\ UnusedBare' /\ KeepsOpen /\ KeepsWeak
<1>1. AccountsTypeOK /\ AccessProvesPassword /\ WeakSessionsFlagged /\ UnusedBare
  BY DEF AccessInv, AccountsKept
<1>2. Unused # Closed /\ \A t \in Tokens : Open(t)' => sessions'[t] = sessions[t] /\ Open(t)
  BY DEF Open, Unused, Closed
<1>3. AccountsTypeOK'
  BY <1>1 DEF AccountsTypeOK
<1>4. AccessProvesPassword'
  BY <1>1, <1>2 DEF AccessProvesPassword, Exists
<1>5. WeakSessionsFlagged'
  BY <1>1, <1>2 DEF WeakSessionsFlagged, Weak
<1>6. UnusedBare'
  BY <1>1, <1>2 DEF UnusedBare
<1>7. KeepsOpen
  BY <1>2 DEF KeepsOpen
<1>8. KeepsWeak
  BY DEF KeepsWeak, WeakNow, Exists, Weak
<1> QED
  BY <1>3, <1>4, <1>5, <1>6, <1>7, <1>8 DEF AccountsKept

-----------------------------------------------------------------------------
(* Accounts: how a request begins.                                         *)

LEMMA EnterSafe ==
    ASSUME AccessInv, NEW w \in Workers, NEW u \in Users, NEW t, NEW k, NEW v,
           \/ LoginVerify(w, u)
           \/ t \in Tokens /\ k \in Kinds /\ v \in Users /\ Enter(w, t, k, v)
    PROVE  AccessInv'
<1>1. /\ AccountsTypeOK /\ AccessProvesPassword /\ WeakSessionsFlagged /\ UnusedBare /\ RequestsHeld
      /\ Idle(w) /\ UNCHANGED <<users, last, sessions, tickets>>
  BY DEF AccessInv, AccountsKept, LoginVerify, Enter
<1>2. PICK r \in Requests :
         /\ req' = [req EXCEPT ![w] = r] /\ r.at = 1 /\ r.kind \in Kinds
         /\ r.kind = "login" => Exists(r.user) /\ r.ver = users[r.user].ver
         /\ r.kind # "login" => r.token \in Tokens /\ Open(r.token) /\ sessions[r.token].user = r.user
  <2>1. 0 \in Versions /\ \A x \in Users : Exists(x) => users[x].ver \in Versions /\ users[x].born \in Versions
    BY <1>1, AccountsAssumption DEF Versions, AccountsTypeOK, Rows, Exists
  <2>2. CASE LoginVerify(w, u)
    <3> DEFINE r == Request("login", u, "none", u, 0, users[u].ver)
    <3>1. r \in Requests /\ "login" \in Kinds
      BY <2>1, <2>2, HandlerIs DEF LoginVerify, Request, Requests
    <3> QED
      BY <2>2, <3>1 DEF LoginVerify, Request
  <2>3. CASE t \in Tokens /\ k \in Kinds /\ v \in Users /\ Enter(w, t, k, v)
    <3>1. /\ t \in Tokens /\ k \in Kinds /\ v \in Users
          /\ Open(t) /\ k # "login" /\ (k = "delete" => Exists(v))
          /\ req' = [req EXCEPT ![w] = Request(k, sessions[t].user, t, v,
                                               IF k = "delete" THEN users[v].born ELSE 0, 0)]
      BY <2>3 DEF Enter
    <3>2. sessions[t].user \in Users
      BY <1>1, <3>1 DEF Open, AccountsTypeOK, Sessions
    <3>3. PICK b \in Versions : b = IF k = "delete" THEN users[v].born ELSE 0
      BY <2>1, <3>1
    <3>4. PICK r : r = Request(k, sessions[t].user, t, v, b, 0)
      OBVIOUS
    <3>5. req' = [req EXCEPT ![w] = r]
      BY <3>1, <3>3, <3>4
    <3>6. r \in Requests
      BY <2>1, <3>1, <3>2, <3>3, <3>4 DEF Request, Requests
    <3>7. r.at = 1 /\ r.kind = k /\ r.token = t /\ r.user = sessions[t].user
      BY <3>4 DEF Request
    <3> QED
      BY <3>1, <3>5, <3>6, <3>7
  <2> QED
    BY <2>2, <2>3
<1>3. /\ req'[w] = r /\ req' \in [Workers -> Requests \union {NoRequest}]
      /\ \A x \in Workers : x # w => req'[x] = req[x]
  BY <1>1, <1>2 DEF AccountsTypeOK
<1>4. AccountsKept' /\ UnusedBare' /\ KeepsOpen /\ KeepsWeak
  <2>1. /\ sessions' \in [Tokens -> Sessions \union {Unused, Closed}]
        /\ tickets' \in [Tokens -> Tickets \union {NoTicket}]
        /\ \A x \in Tokens : sessions'[x] \in {sessions[x], Closed}
        /\ \A x \in Tokens : tickets'[x] \in {tickets[x], NoTicket}
    BY <1>1 DEF AccountsTypeOK
  <2>2. UNCHANGED <<users, last>>
    BY <1>1
  <2> QED
    BY <1>3, <2>1, <2>2, TablesShrink
<1>5. ASSUME NEW x \in Workers, x # w, ~Idle(x)' PROVE RequestKnows(x)' /\ WeakIsHeld(x)'
  <2>1. req[x] \in Requests /\ RequestKnows(x) /\ WeakIsHeld(x) /\ UNCHANGED req[x]
    BY <1>1, <1>3, <1>5 DEF RequestsHeld, Idle, AccountsTypeOK
  <2> QED
    BY <1>1, <1>4, <2>1, RestsHeld
<1>6. RequestKnows(w)'
  <2>1. Len(Handler[r.kind]) = Length(r.kind) /\ Length(r.kind) \in 1..6
    BY <1>2, LengthIs
  <2>2. r.kind # "login" => sessions[r.token] # Unused
    BY <1>2 DEF Open
  <2> QED
    BY <1>1, <1>2, <1>3, <2>1, <2>2 DEF RequestKnows
<1>7. WeakIsHeld(w)'
  <2>1. r.kind # "login" /\ Weak(r.user) => users[r.user].must
    BY <1>1, <1>2 DEF WeakSessionsFlagged
  <2>2. WeakNow(r.user)' = WeakNow(r.user)
    BY <1>1 DEF WeakNow, Exists, Weak
  <2> QED
    BY <1>1, <1>2, <1>3, <2>1, <2>2 DEF WeakIsHeld, WeakNow, Weak
<1>8. RequestsHeld'
  BY <1>5, <1>6, <1>7 DEF RequestsHeld
<1> QED
  BY <1>4, <1>8 DEF AccessInv

-----------------------------------------------------------------------------
(* Accounts: the transactions of a request.                                *)

\* The parts of the invariant, and of the request that takes a step.
LEMMA AccessIs ==
    ASSUME AccessInv
    PROVE  /\ AccountsTypeOK /\ AccessProvesPassword /\ WeakSessionsFlagged /\ UnusedBare /\ RequestsHeld
           /\ sessions \in [Tokens -> Sessions \union {Unused, Closed}]
           /\ tickets \in [Tokens -> Tickets \union {NoTicket}]
           /\ users \in [Users -> Rows \union {NoUser}] /\ last \in [Users -> Versions]
           /\ req \in [Workers -> Requests \union {NoRequest}]
           /\ \A t \in Tokens : Open(t) => sessions[t] \in Sessions
           /\ \A u \in Users : Exists(u) => users[u] \in Rows
           /\ Unused \notin Sessions /\ Closed \notin Sessions /\ NoUser \notin Rows
           /\ NoTicket \notin Tickets /\ Unused # Closed
<1>1. AccountsTypeOK /\ AccessProvesPassword /\ WeakSessionsFlagged /\ UnusedBare /\ RequestsHeld
  BY DEF AccessInv, AccountsKept
<1>2. Unused \notin Sessions /\ Closed \notin Sessions /\ NoUser \notin Rows /\ NoTicket \notin Tickets
      /\ Unused # Closed
  BY DEF Unused, Closed, NoUser, NoTicket, Sessions, Rows, Tickets
<1> QED
  BY <1>1, <1>2 DEF AccountsTypeOK, Open, Exists

\* closing sessions and withdrawing tickets, by user or by token.
LEMMA ShrinkIs ==
    ASSUME AccessInv, NEW u, NEW t
    PROVE  /\ CloseAll(u) =>
                 /\ sessions' \in [Tokens -> Sessions \union {Unused, Closed}]
                 /\ \A x \in Tokens : /\ sessions'[x] \in {sessions[x], Closed}
                                      /\ Open(x) /\ sessions[x].user = u => sessions'[x] = Closed
                                      /\ sessions[x] = Unused => sessions'[x] = Unused
           /\ UntickAll(u) \/ Untick(t) =>
                 /\ tickets' \in [Tokens -> Tickets \union {NoTicket}]
                 /\ \A x \in Tokens : tickets'[x] \in {tickets[x], NoTicket}
<1>1. ASSUME CloseAll(u)
      PROVE  /\ sessions' \in [Tokens -> Sessions \union {Unused, Closed}]
             /\ \A x \in Tokens : /\ sessions'[x] \in {sessions[x], Closed}
                                  /\ Open(x) /\ sessions[x].user = u => sessions'[x] = Closed
                                  /\ sessions[x] = Unused => sessions'[x] = Unused
  BY <1>1, AccessIs DEF CloseAll
<1>2. ASSUME UntickAll(u)
      PROVE  /\ tickets' \in [Tokens -> Tickets \union {NoTicket}]
             /\ \A x \in Tokens : tickets'[x] \in {tickets[x], NoTicket}
  BY <1>2, AccessIs DEF UntickAll
<1>3. ASSUME Untick(t)
      PROVE  /\ tickets' \in [Tokens -> Tickets \union {NoTicket}]
             /\ \A x \in Tokens : tickets'[x] \in {tickets[x], NoTicket}
  BY <1>3, AccessIs DEF Untick
<1> QED
  BY <1>1, <1>2, <1>3

\* Sessions that are dropped, and the sweeps.
LEMMA DropSafe ==
    ASSUME AccessInv, NEW t \in Tokens, DropSession(t) \/ SweepSession(t) \/ SweepTicket(t)
    PROVE  AccessInv'
<1>1. /\ UNCHANGED <<users, last, req>>
      /\ (sessions' = [sessions EXCEPT ![t] = Closed] /\ Open(t)) \/ UNCHANGED sessions
      /\ Untick(t) \/ UNCHANGED tickets
  BY DEF DropSession, SweepSession, SweepTicket
<1>2. /\ sessions' \in [Tokens -> Sessions \union {Unused, Closed}]
      /\ \A x \in Tokens : sessions'[x] \in {sessions[x], Closed}
  BY <1>1, AccessIs
<1>3. /\ tickets' \in [Tokens -> Tickets \union {NoTicket}]
      /\ \A x \in Tokens : tickets'[x] \in {tickets[x], NoTicket}
  BY <1>1, AccessIs, ShrinkIs
<1>4. AccountsKept' /\ UnusedBare' /\ KeepsOpen /\ KeepsWeak
  BY <1>1, <1>2, <1>3, AccessIs, TablesShrink
<1>5. RequestsHeld'
  <2>1. ASSUME NEW x \in Workers, ~Idle(x)' PROVE RequestKnows(x)' /\ WeakIsHeld(x)'
    <3>1. req[x] \in Requests /\ RequestKnows(x) /\ WeakIsHeld(x) /\ UNCHANGED req[x]
      BY <1>1, <2>1, AccessIs DEF RequestsHeld, Idle
    <3> QED
      BY <1>4, <3>1, AccessIs, RestsHeld
  <2> QED
    BY <2>1 DEF RequestsHeld
<1> QED
  BY <1>4, <1>5 DEF AccessInv

\* The steps that close sessions or withdraw tickets, and those that only look.
LEMMA ClosingSafe ==
    ASSUME AccessInv, NEW w \in Workers,
           \/ Gate(w) \/ CheckTicket(w) \/ UntickUser(w) \/ CloseSessions(w)
           \/ ForgetTicket(w) \/ DestroySession(w)
    PROVE  AccessInv'
<1>1. /\ UNCHANGED <<users, last>> /\ ~Idle(w) /\ (Done(w) \/ Refused(w))
  BY DEF Gate, CheckTicket, UntickUser, CloseSessions, ForgetTicket, DestroySession, At
<1>2. /\ req[w].kind \in Kinds /\ RequestKnows(w) /\ WeakIsHeld(w)
      /\ req[w].user \in Users
  BY <1>1, AccessIs, AtIs DEF Requests
<1>3. /\ sessions' \in [Tokens -> Sessions \union {Unused, Closed}]
      /\ \A x \in Tokens : sessions'[x] \in {sessions[x], Closed}
  <2>1. CASE UNCHANGED sessions
    BY <2>1, AccessIs
  <2>2. CASE CloseAll(User(w))
    BY <2>2, ShrinkIs
  <2>3. CASE sessions' = [sessions EXCEPT ![req[w].token] = Closed]
    BY <2>3, AccessIs
  <2> QED
    BY <2>1, <2>2, <2>3
    DEF Gate, CheckTicket, UntickUser, CloseSessions, ForgetTicket, DestroySession
<1>4. /\ tickets' \in [Tokens -> Tickets \union {NoTicket}]
      /\ \A x \in Tokens : tickets'[x] \in {tickets[x], NoTicket}
  <2>1. CASE UNCHANGED tickets
    BY <2>1, AccessIs
  <2>2. CASE UntickAll(req[w].about) \/ Untick(req[w].token)
    BY <2>2, ShrinkIs
  <2> QED
    BY <2>1, <2>2
    DEF Gate, CheckTicket, UntickUser, CloseSessions, ForgetTicket, DestroySession
<1>5. req' \in [Workers -> Requests \union {NoRequest}]
  BY <1>1, AccessIs, ProgressIs
<1>6. AccountsKept' /\ UnusedBare' /\ KeepsOpen /\ KeepsWeak
  BY <1>1, <1>3, <1>4, <1>5, TablesShrink
<1>7. RequestsHeld'
  <2>1. PICK r : r = req[w]
    OBVIOUS
  <2>2. r.kind = "reauth" => r.at # 2
    BY <1>1, <2>1, AccessIs, AtIs
    DEF Gate, CheckTicket, UntickUser, CloseSessions, ForgetTicket, DestroySession
  <2>3. WeakNow(r.user)' = WeakNow(r.user)
    BY <1>1 DEF WeakNow, Exists, Weak
  <2>4. ASSUME ~Idle(w)', WeakNow(r.user)'
        PROVE  /\ ~(r.kind = "login" /\ r.at = 1)
               /\ <<r.kind, r.at>> \notin {<<"revoke", 1>>, <<"change", 3>>, <<"forced", 2>>}
    <3>1. CASE Gate(w)
      <4>1. r.at = 1 /\ r.kind \notin {"login", "forced", "logout"}
        BY <1>1, <2>1, <3>1, AccessIs, AtIs DEF Gate
      <4>2. users[r.user].must /\ Exists(r.user)
        BY <1>2, <2>1, <2>3, <2>4, <4>1 DEF WeakIsHeld, WeakNow
      <4>3. Refused(w)
        BY <2>1, <3>1, <4>2 DEF Gate, User
      <4> QED
        BY <2>4, <4>3, AccessIs DEF Refused, Idle
    <3>2. CASE ~Gate(w)
      BY <1>1, <2>1, <3>2, AccessIs, AtIs
      DEF CheckTicket, UntickUser, CloseSessions, ForgetTicket, DestroySession
    <3> QED
      BY <3>1, <3>2
  <2> QED
    BY <1>1, <1>6, <2>1, <2>2, <2>4, AccessIs, GoesOn
<1> QED
  BY <1>6, <1>7 DEF AccessInv

\* Steps that leave the rows of the users alone keep what others rely on.
LEMMA UsersRest ==
    ASSUME UNCHANGED users
    PROVE  KeepsWeak /\ \A u \in Users : WeakNow(u)' = WeakNow(u)
BY DEF KeepsWeak, WeakNow, Exists, Weak

\* _flag_weak_password: a flag more.
LEMMA FlagSafe ==
    ASSUME AccessInv, NEW w \in Workers, Flag(w)
    PROVE  AccessInv'
<1>1. PICK r : r = req[w]
  OBVIOUS
<1>2. /\ ~Idle(w) /\ Done(w) /\ UNCHANGED <<last, sessions, tickets>>
      /\ r \in Requests /\ r.user \in Users /\ r.kind = "login" /\ r.at = 1 /\ WeakIsHeld(w)
      /\ users' = IF r.user \in WeakUsers /\ r.ver = 0 /\ Exists(r.user)
                  THEN [users EXCEPT ![r.user].must = TRUE] ELSE users
  BY <1>1, AccessIs, AtIs DEF Flag, At, User, Requests
<1>3. /\ users' \in [Users -> Rows \union {NoUser}]
      /\ \A u \in Users : /\ Exists(u)' = Exists(u)
                          /\ Exists(u) => /\ users'[u].ver = users[u].ver
                                          /\ users[u].must => users'[u].must
  <2>1. CASE users' = users
    BY <2>1, AccessIs DEF Exists
  <2>2. CASE users' = [users EXCEPT ![r.user].must = TRUE] /\ Exists(r.user)
    <3>1. users[r.user] \in Rows /\ [users[r.user] EXCEPT !.must = TRUE] \in Rows
          /\ [users[r.user] EXCEPT !.must = TRUE].ver = users[r.user].ver
          /\ [users[r.user] EXCEPT !.must = TRUE].must = TRUE
      BY <1>2, <2>2, AccessIs DEF Rows
    <3>2. users'[r.user] = [users[r.user] EXCEPT !.must = TRUE]
          /\ \A u \in Users : u # r.user => users'[u] = users[u]
      BY <1>2, <2>2, AccessIs
    <3> QED
      BY <1>2, <2>2, <3>1, <3>2, AccessIs DEF Exists
  <2> QED
    BY <1>2, <2>1, <2>2
<1>4. \A u \in Users : Exists(u) => (Weak(u)' = Weak(u))
  BY <1>3 DEF Weak
<1>5. KeepsOpen
  BY <1>2, AccessIs DEF KeepsOpen, Open
<1>6. KeepsWeak
  BY <1>3, <1>4 DEF KeepsWeak, WeakNow
<1>7. req' \in [Workers -> Requests \union {NoRequest}] /\ RequestsHeld'
  <2>1. WeakNow(r.user)' => users'[r.user].must
    <3>1. ASSUME WeakNow(r.user)' PROVE r.user \in WeakUsers /\ r.ver = 0 /\ Exists(r.user)
      BY <1>1, <1>2, <1>6, <3>1 DEF KeepsWeak, WeakIsHeld, WeakNow, Weak
    <3>2. ASSUME WeakNow(r.user)' PROVE users'[r.user].must
      BY <1>2, <3>1, <3>2, AccessIs DEF Rows
    <3> QED
      BY <3>2
  <2> QED
    BY <1>1, <1>2, <1>5, <1>6, <2>1, AccessIs, GoesOn
<1>8. AccountsTypeOK'
  BY <1>2, <1>3, <1>7, AccessIs DEF AccountsTypeOK
<1>9. AccessProvesPassword' /\ WeakSessionsFlagged' /\ UnusedBare'
  <2>1. UNCHANGED <<sessions, tickets>> /\ \A t \in Tokens : Open(t)' = Open(t)
    BY <1>2 DEF Open
  <2>2. \A t \in Tokens : Open(t) => sessions[t].user \in Users
    BY AccessIs DEF Sessions
  <2> QED
    BY <1>3, <1>4, <2>1, <2>2, AccessIs DEF AccessProvesPassword, WeakSessionsFlagged, UnusedBare
<1> QED
  BY <1>7, <1>8, <1>9 DEF AccessInv, AccountsKept

\* create_session: a token that names no ticket, under the password of the row.
LEMMA OpenSessionSafe ==
    ASSUME AccessInv, NEW w \in Workers, OpenSession(w)
    PROVE  AccessInv'
<1>1. PICK r : r = req[w]
  OBVIOUS
<1>2. /\ ~Idle(w) /\ (Done(w) \/ Refused(w)) /\ UNCHANGED <<users, last, tickets>>
      /\ r \in Requests /\ r.user \in Users /\ WeakIsHeld(w) /\ At(w, "open")
      /\ <<r.kind, r.at>> \in {<<"login", 2>>, <<"change", 4>>, <<"forced", 3>>, <<"revoke", 5>>}
  BY <1>1, AccessIs, AtIs DEF OpenSession, At, Requests
<1>3. CASE UNCHANGED sessions
  <2>1. KeepsOpen /\ req' \in [Workers -> Requests \union {NoRequest}]
    BY <1>2, <1>3, AccessIs, ProgressIs DEF KeepsOpen, Open
  <2>2. AccountsKept' /\ UnusedBare' /\ KeepsWeak
    BY <1>2, <1>3, <2>1, AccessIs, TablesShrink
  <2>3. RequestsHeld'
    BY <1>1, <1>2, <2>1, <2>2, AccessIs, GoesOn
  <2> QED
    BY <2>2, <2>3 DEF AccessInv
<1>4. CASE Exists(r.user) /\ \E t \in Tokens : sessions[t] = Unused
             /\ sessions' = [sessions EXCEPT ![t] = [user |-> r.user, made |-> users[r.user].ver]]
  <2>1. PICK t \in Tokens : /\ sessions[t] = Unused
          /\ sessions' = [sessions EXCEPT ![t] = [user |-> r.user, made |-> users[r.user].ver]]
    BY <1>4
  <2>2. users[r.user] \in Rows /\ users[r.user].ver \in Versions
        /\ [user |-> r.user, made |-> users[r.user].ver] \in Sessions
    BY <1>2, <1>4, AccessIs DEF Rows, Sessions
  <2>3. /\ sessions' \in [Tokens -> Sessions \union {Unused, Closed}]
        /\ sessions'[t].user = r.user /\ sessions'[t].made = users[r.user].ver
        /\ Open(t)' /\ sessions'[t] # Unused
        /\ \A x \in Tokens : x # t => sessions'[x] = sessions[x] /\ Open(x)' = Open(x)
    BY <2>1, <2>2, AccessIs DEF Open
  <2>4. KeepsOpen /\ KeepsWeak
    BY <1>2, <2>1, <2>3, UsersRest DEF KeepsOpen, Open
  <2>5. req' \in [Workers -> Requests \union {NoRequest}] /\ RequestsHeld'
    BY <1>1, <1>2, <2>4, AccessIs, GoesOn
  <2>6. AccountsTypeOK'
    BY <1>2, <2>3, <2>5, AccessIs DEF AccountsTypeOK
  <2>7. AccessProvesPassword'
    <3>1. ASSUME NEW x \in Tokens, Open(x)'
          PROVE  /\ Exists(sessions'[x].user)
                 /\ sessions'[x].made = users[sessions'[x].user].ver
                 /\ tickets[x] # NoTicket => tickets[x] = [user |-> sessions'[x].user, ver |-> sessions'[x].made]
      <4>1. CASE x = t
        BY <1>4, <2>1, <2>3, <4>1, AccessIs DEF UnusedBare
      <4>2. CASE x # t
        BY <2>3, <3>1, <4>2, AccessIs DEF AccessProvesPassword
      <4> QED
        BY <4>1, <4>2
    <3> QED
      BY <1>2, <3>1 DEF AccessProvesPassword, Exists
  <2>8. WeakSessionsFlagged'
    <3>1. Weak(r.user) => users[r.user].must
      BY <1>1, <1>2, <1>4 DEF WeakIsHeld, WeakNow
    <3>2. ASSUME NEW x \in Tokens, Open(x)', Weak(sessions'[x].user) PROVE users[sessions'[x].user].must
      BY <2>3, <3>1, <3>2, AccessIs DEF WeakSessionsFlagged
    <3> QED
      BY <1>2, <3>2 DEF WeakSessionsFlagged, Weak
  <2>9. UnusedBare'
    BY <1>2, <2>3, AccessIs DEF UnusedBare
  <2> QED
    BY <2>5, <2>6, <2>7, <2>8, <2>9 DEF AccessInv, AccountsKept
<1> QED
  BY <1>1, <1>3, <1>4 DEF OpenSession, User

\* verify_password against the row as it is: what a reauthentication learns is the
\* password its session was opened under.
LEMMA ProveSafe ==
    ASSUME AccessInv, NEW w \in Workers, Prove(w)
    PROVE  AccessInv'
<1>1. PICK r : r = req[w]
  OBVIOUS
<1>2. /\ ~Idle(w) /\ UNCHANGED <<users, last, sessions, tickets>>
      /\ r \in Requests /\ r.user \in Users /\ WeakIsHeld(w) /\ RequestKnows(w)
      /\ r.kind \in Kinds /\ r.at \in 1..Length(r.kind)
      /\ <<r.kind, r.at>> \in {<<"reauth", 2>>, <<"change", 2>>, <<"forced", 1>>}
      /\ Len(Handler[r.kind]) = Length(r.kind)
  BY <1>1, AccessIs, AtIs, LengthIs DEF Prove, At, Requests
<1>3. KeepsOpen /\ KeepsWeak
  BY <1>2, UsersRest DEF KeepsOpen, Open
<1>4. CASE Refused(w)
  <2>1. req' \in [Workers -> Requests \union {NoRequest}] /\ RequestsHeld' /\ Idle(w)'
    <3>1. Idle(w)'
      BY <1>4, AccessIs DEF Refused, Idle
    <3> QED
      BY <1>1, <1>2, <1>3, <1>4, <3>1, AccessIs, ProgressIs, RestsHeld DEF RequestsHeld, Idle
  <2>2. AccountsKept' /\ UnusedBare'
    BY <1>2, <2>1, AccessIs, TablesShrink
  <2> QED
    BY <2>1, <2>2 DEF AccessInv
<1>5. CASE Exists(r.user) /\ DoneKnowing(w, users[r.user].ver)
  <2>1. PICK p \in Versions : p = users[r.user].ver
    BY <1>2, <1>5, AccessIs DEF Rows
  <2>2. req' = [req EXCEPT ![w] = [r EXCEPT !.at = r.at + 1, !.ver = p]]
    BY <1>1, <1>5, <2>1, AccessIs DEF DoneKnowing, Requests
  <2>3. r.at + 1 \in 1..6 /\ r.at + 1 <= Length(r.kind) /\ r.at + 1 >= 1
    BY <1>2 DEF Length
  <2>4. [r EXCEPT !.at = r.at + 1, !.ver = p] \in Requests
    BY <1>2, <2>1, <2>3 DEF Requests
  <2>5. /\ req' \in [Workers -> Requests \union {NoRequest}]
        /\ req'[w].at = r.at + 1 /\ req'[w].ver = p /\ req'[w].kind = r.kind
        /\ req'[w].user = r.user /\ req'[w].token = r.token
        /\ \A v \in Workers : v # w => req'[v] = req[v]
    BY <1>2, <2>2, <2>4, AccessIs DEF Requests
  <2>6. RequestKnows(w)'
    <3>1. Open(r.token) /\ r.kind = "reauth" => sessions[r.token].made = p
      BY <1>1, <1>2, <2>1, AccessIs DEF RequestKnows, AccessProvesPassword
    <3>2. r.at + 1 \in 1..Len(Handler[r.kind])
      BY <1>2, <2>3
    <3>3. r.kind # "login" /\ r.token \in Tokens /\ sessions[r.token] # Unused
          /\ (Open(r.token) => sessions[r.token].user = r.user)
      BY <1>1, <1>2 DEF RequestKnows
    <3> QED
      BY <1>2, <2>5, <3>1, <3>2, <3>3 DEF RequestKnows, Open
  <2>7. WeakIsHeld(w)'
    BY <1>1, <1>2, <2>5, UsersRest DEF WeakIsHeld
  <2>8. ASSUME NEW v \in Workers, v # w, ~Idle(v)' PROVE RequestKnows(v)' /\ WeakIsHeld(v)'
    <3>1. req[v] \in Requests /\ RequestKnows(v) /\ WeakIsHeld(v) /\ UNCHANGED req[v]
      BY <2>5, <2>8, AccessIs DEF RequestsHeld, Idle
    <3> QED
      BY <1>3, <3>1, AccessIs, RestsHeld
  <2>9. RequestsHeld'
    BY <2>6, <2>7, <2>8 DEF RequestsHeld
  <2>10. AccountsKept' /\ UnusedBare'
    BY <1>2, <2>5, AccessIs, TablesShrink
  <2> QED
    BY <2>9, <2>10 DEF AccessInv
<1> QED
  BY <1>1, <1>4, <1>5 DEF Prove, User

\* grant_recent_reauth: a ticket of the password its session was opened under, or
\* one for a session that is gone.
LEMMA GrantSafe ==
    ASSUME AccessInv, NEW w \in Workers, Grant(w)
    PROVE  AccessInv'
<1>1. PICK r : r = req[w]
  OBVIOUS
<1>2. /\ ~Idle(w) /\ Done(w) /\ UNCHANGED <<users, last, sessions>>
      /\ r \in Requests /\ r.user \in Users /\ r.ver \in Versions
      /\ r.kind = "reauth" /\ r.at = 3 /\ RequestKnows(w)
      /\ tickets' = [tickets EXCEPT ![r.token] = [user |-> r.user, ver |-> r.ver]]
  BY <1>1, AccessIs, AtIs DEF Grant, At, User, Requests
<1>3. /\ r.token \in Tokens /\ sessions[r.token] # Unused
      /\ Open(r.token) => sessions[r.token].user = r.user /\ sessions[r.token].made = r.ver
  BY <1>1, <1>2 DEF RequestKnows
<1>4. /\ [user |-> r.user, ver |-> r.ver] \in Tickets
      /\ tickets'[r.token] = [user |-> r.user, ver |-> r.ver]
      /\ \A t \in Tokens : t # r.token => tickets'[t] = tickets[t]
      /\ tickets' \in [Tokens -> Tickets \union {NoTicket}]
  BY <1>2, <1>3, AccessIs DEF Tickets
<1>5. KeepsOpen /\ KeepsWeak
  BY <1>2, UsersRest DEF KeepsOpen, Open
<1>6. req' \in [Workers -> Requests \union {NoRequest}] /\ RequestsHeld'
  BY <1>1, <1>2, <1>5, AccessIs, GoesOn
<1>7. AccountsTypeOK'
  BY <1>2, <1>4, <1>6, AccessIs DEF AccountsTypeOK
<1>8. AccessProvesPassword'
  <2>1. ASSUME NEW x \in Tokens, Open(x)
        PROVE  tickets'[x] # NoTicket =>
                  tickets'[x] = [user |-> sessions[x].user, ver |-> sessions[x].made]
    BY <1>3, <1>4, <2>1, AccessIs DEF AccessProvesPassword
  <2> QED
    BY <1>2, <2>1, AccessIs DEF AccessProvesPassword, Open, Exists
<1>9. WeakSessionsFlagged' /\ UnusedBare'
  BY <1>2, <1>3, <1>4, AccessIs DEF WeakSessionsFlagged, UnusedBare, Open, Weak
<1> QED
  BY <1>6, <1>7, <1>8, <1>9 DEF AccessInv, AccountsKept

-----------------------------------------------------------------------------
(* Accounts: what happens to the users.                                    *)

\* A row that changes or goes takes every session of its user along, and a new
\* password is none the policy knew.
LEMMA RowChanges ==
    ASSUME AccessInv, NEW u \in Users, req' \in [Workers -> Requests \union {NoRequest}],
           users' \in [Users -> Rows \union {NoUser}], last' \in [Users -> Versions],
           \A v \in Users : v # u => users'[v] = users[v],
           Exists(u)' => users'[u].ver # 0,
           sessions' \in [Tokens -> Sessions \union {Unused, Closed}],
           tickets' \in [Tokens -> Tickets \union {NoTicket}],
           \A x \in Tokens : sessions'[x] \in {sessions[x], Closed},
           \A x \in Tokens : Open(x)' => sessions[x].user # u,
           \A x \in Tokens : tickets'[x] \in {tickets[x], NoTicket}
    PROVE  AccountsKept' /\ UnusedBare' /\ KeepsOpen /\ KeepsWeak /\ ~WeakNow(u)'
<1>1. \A t \in Tokens : Open(t)' => /\ sessions'[t] = sessions[t] /\ Open(t)
                                    /\ sessions[t].user \in Users /\ sessions[t].user # u
  BY AccessIs DEF Open, Sessions
<1>2. AccountsTypeOK'
  BY DEF AccountsTypeOK
<1>3. AccessProvesPassword'
  BY <1>1, AccessIs DEF AccessProvesPassword, Exists
<1>4. WeakSessionsFlagged'
  BY <1>1, AccessIs DEF WeakSessionsFlagged, Weak
<1>5. UnusedBare'
  BY AccessIs DEF UnusedBare
<1>6. KeepsOpen
  BY <1>1, AccessIs DEF KeepsOpen
<1>7. ~WeakNow(u)'
  BY DEF WeakNow, Weak
<1>8. KeepsWeak
  <2>1. ASSUME NEW v \in Users, WeakNow(v)' PROVE WeakNow(v) /\ (users[v].must => users'[v].must)
    BY <1>7, <2>1 DEF WeakNow, Weak, Exists
  <2> QED
    BY <2>1 DEF KeepsWeak
<1> QED
  BY <1>2, <1>3, <1>4, <1>5, <1>6, <1>7, <1>8 DEF AccountsKept

\* change_password.
LEMMA ChangePasswordSafe ==
    ASSUME AccessInv, NEW w \in Workers, ChangePassword(w)
    PROVE  AccessInv'
<1>1. PICK r : r = req[w]
  OBVIOUS
<1>2. /\ ~Idle(w) /\ (Done(w) \/ Refused(w)) /\ r \in Requests /\ r.user \in Users
      /\ <<r.kind, r.at>> \in {<<"change", 3>>, <<"forced", 2>>}
      /\ req' \in [Workers -> Requests \union {NoRequest}]
  BY <1>1, AccessIs, AtIs, ProgressIs DEF ChangePassword, At, Requests
<1>3. CASE Exists(r.user)
  <2>1. /\ last[r.user] < MaxPasswords
        /\ last' = [last EXCEPT ![r.user] = last[r.user] + 1]
        /\ users' = [users EXCEPT ![r.user].ver = last'[r.user], ![r.user].must = FALSE]
        /\ CloseAll(r.user) /\ UntickAll(r.user)
    BY <1>1, <1>3 DEF ChangePassword, User
  <2>2. /\ last[r.user] \in Nat /\ last'[r.user] = last[r.user] + 1 /\ last'[r.user] \in Versions
        /\ last' \in [Users -> Versions] /\ last'[r.user] # 0
    BY <1>2, <2>1, AccessIs, AccountsAssumption DEF Versions
  <2>3. PICK p : p = last'[r.user]
    OBVIOUS
  <2>4. users' = [users EXCEPT ![r.user] = [users[r.user] EXCEPT !.ver = p, !.must = FALSE]]
    BY <1>2, <2>1, <2>3, AccessIs
  <2>5. [users[r.user] EXCEPT !.ver = p, !.must = FALSE] \in Rows
        /\ [users[r.user] EXCEPT !.ver = p, !.must = FALSE].ver = p
    BY <1>2, <1>3, <2>2, <2>3, AccessIs DEF Rows
  <2>6. /\ users' \in [Users -> Rows \union {NoUser}] /\ users'[r.user].ver # 0
        /\ \A v \in Users : v # r.user => users'[v] = users[v]
    BY <1>2, <2>2, <2>3, <2>4, <2>5, AccessIs
  <2>7. /\ sessions' \in [Tokens -> Sessions \union {Unused, Closed}]
        /\ \A x \in Tokens : sessions'[x] \in {sessions[x], Closed}
        /\ \A x \in Tokens : Open(x)' => sessions[x].user # r.user
    BY <2>1, ShrinkIs, AccessIs DEF Open
  <2>8. /\ tickets' \in [Tokens -> Tickets \union {NoTicket}]
        /\ \A x \in Tokens : tickets'[x] \in {tickets[x], NoTicket}
    BY <2>1, ShrinkIs
  <2>9. AccountsKept' /\ UnusedBare' /\ KeepsOpen /\ KeepsWeak /\ ~WeakNow(r.user)'
    BY <1>2, <2>2, <2>6, <2>7, <2>8, RowChanges
  <2>10. RequestsHeld'
    BY <1>1, <1>2, <2>9, AccessIs, GoesOn
  <2> QED
    BY <2>9, <2>10 DEF AccessInv
<1>4. CASE ~Exists(r.user)
  <2>1. UNCHANGED <<users, last, sessions, tickets>>
    BY <1>1, <1>4 DEF ChangePassword, User
  <2>2. AccountsKept' /\ UnusedBare' /\ KeepsOpen /\ KeepsWeak
    BY <1>2, <2>1, AccessIs, TablesShrink
  <2>3. ~WeakNow(r.user)'
    BY <1>2, <1>4, <2>1, UsersRest DEF WeakNow
  <2>4. RequestsHeld'
    BY <1>1, <1>2, <2>2, <2>3, AccessIs, GoesOn
  <2> QED
    BY <2>2, <2>4 DEF AccessInv
<1> QED
  BY <1>3, <1>4

\* delete_user.
LEMMA DeleteUserSafe ==
    ASSUME AccessInv, NEW w \in Workers, DeleteUser(w)
    PROVE  AccessInv'
<1>1. PICK r : r = req[w]
  OBVIOUS
<1>2. /\ ~Idle(w) /\ (Done(w) \/ Refused(w)) /\ r \in Requests /\ r.about \in Users
      /\ r.kind = "delete" /\ r.at = 3 /\ UNCHANGED <<last, tickets>>
      /\ req' \in [Workers -> Requests \union {NoRequest}]
  BY <1>1, AccessIs, AtIs, ProgressIs DEF DeleteUser, At, Requests
<1>3. CASE users' = [users EXCEPT ![r.about] = NoUser] /\ CloseAll(r.about)
  <2>1. /\ users' \in [Users -> Rows \union {NoUser}] /\ users'[r.about] = NoUser
        /\ \A v \in Users : v # r.about => users'[v] = users[v]
    BY <1>2, <1>3, AccessIs
  <2>2. /\ sessions' \in [Tokens -> Sessions \union {Unused, Closed}]
        /\ \A x \in Tokens : sessions'[x] \in {sessions[x], Closed}
        /\ \A x \in Tokens : Open(x)' => sessions[x].user # r.about
    BY <1>3, ShrinkIs, AccessIs DEF Open
  <2>3. AccountsKept' /\ UnusedBare' /\ KeepsOpen /\ KeepsWeak
    BY <1>2, <2>1, <2>2, AccessIs, RowChanges DEF Exists
  <2>4. RequestsHeld'
    BY <1>1, <1>2, <2>3, AccessIs, GoesOn
  <2> QED
    BY <2>3, <2>4 DEF AccessInv
<1>4. CASE UNCHANGED <<users, sessions>>
  <2>1. AccountsKept' /\ UnusedBare' /\ KeepsOpen /\ KeepsWeak
    BY <1>2, <1>4, AccessIs, TablesShrink
  <2>2. RequestsHeld'
    BY <1>1, <1>2, <2>1, AccessIs, GoesOn
  <2> QED
    BY <2>1, <2>2 DEF AccessInv
<1> QED
  BY <1>1, <1>3, <1>4 DEF DeleteUser

\* A row for a name that has none, under a password it never had.
LEMMA InsertIs ==
    ASSUME AccessInv, NEW u \in Users, ~Exists(u), Insert(u),
           UNCHANGED <<sessions, tickets>>, req' \in [Workers -> Requests \union {NoRequest}]
    PROVE  AccountsKept' /\ UnusedBare' /\ KeepsOpen /\ KeepsWeak
<1>1. PICK n : n = last[u] + 1
  OBVIOUS
<1>2. /\ last' = [last EXCEPT ![u] = n] /\ last[u] < MaxPasswords
      /\ users' = [users EXCEPT ![u] = [born |-> n, ver |-> n, must |-> FALSE]]
  BY <1>1 DEF Insert
<1>3. n \in Versions /\ n # 0
  BY <1>1, <1>2, AccessIs, AccountsAssumption DEF Versions
<1>4. /\ users' \in [Users -> Rows \union {NoUser}] /\ users'[u].ver # 0
      /\ last' \in [Users -> Versions]
      /\ \A v \in Users : v # u => users'[v] = users[v]
  BY <1>2, <1>3, AccessIs DEF Rows
<1>5. /\ \A x \in Tokens : sessions'[x] \in {sessions[x], Closed}
      /\ \A x \in Tokens : tickets'[x] \in {tickets[x], NoTicket}
  OBVIOUS
<1>6. \A x \in Tokens : Open(x)' => sessions[x].user # u
  BY AccessIs DEF AccessProvesPassword, Open
<1> QED
  BY <1>4, <1>5, <1>6, AccessIs, RowChanges

\* create_user, by an admin or from the command line.
LEMMA CreateSafe ==
    ASSUME AccessInv, (\E w \in Workers : CreateUser(w)) \/ (\E u \in Users : CreateByCli(u))
    PROVE  AccessInv'
<1>1. ASSUME NEW w \in Workers, CreateUser(w) PROVE AccessInv'
  <2>1. PICK r : r = req[w]
    OBVIOUS
  <2>2. /\ ~Idle(w) /\ Done(w) /\ r \in Requests /\ r.about \in Users
        /\ r.kind = "create" /\ r.at = 3 /\ UNCHANGED <<sessions, tickets>>
        /\ req' \in [Workers -> Requests \union {NoRequest}]
    BY <1>1, <2>1, AccessIs, AtIs, ProgressIs DEF CreateUser, At, Requests
  <2>3. AccountsKept' /\ UnusedBare' /\ KeepsOpen /\ KeepsWeak
    <3>1. CASE Exists(r.about)
      <4>1. UNCHANGED <<users, last, sessions, tickets>>
        BY <1>1, <2>1, <3>1 DEF CreateUser
      <4> QED
        BY <2>2, <4>1, AccessIs, TablesShrink
    <3>2. CASE ~Exists(r.about)
      <4>1. Insert(r.about)
        BY <1>1, <2>1, <3>2 DEF CreateUser
      <4> QED
        BY <2>2, <3>2, <4>1, InsertIs
    <3> QED
      BY <3>1, <3>2
  <2>4. RequestsHeld'
    BY <2>1, <2>2, <2>3, AccessIs, GoesOn
  <2> QED
    BY <2>3, <2>4 DEF AccessInv
<1>2. ASSUME NEW u \in Users, CreateByCli(u) PROVE AccessInv'
  <2>1. AccountsKept' /\ UnusedBare' /\ KeepsOpen /\ KeepsWeak /\ UNCHANGED req
    BY <1>2, AccessIs, InsertIs DEF CreateByCli
  <2>2. ASSUME NEW v \in Workers, ~Idle(v)' PROVE RequestKnows(v)' /\ WeakIsHeld(v)'
    <3>1. req[v] \in Requests /\ RequestKnows(v) /\ WeakIsHeld(v) /\ UNCHANGED req[v]
      BY <2>1, <2>2, AccessIs DEF RequestsHeld, Idle
    <3> QED
      BY <2>1, <3>1, AccessIs, RestsHeld
  <2> QED
    BY <2>1, <2>2 DEF AccessInv, RequestsHeld
<1> QED
  BY <1>1, <1>2

-----------------------------------------------------------------------------
(* Accounts: the theorems.                                                 *)

LEMMA AccessInvInit ==
    ASSUME AccountsInit
    PROVE  AccessInv
<1>1. 0 \in Versions /\ [born |-> 0, ver |-> 0, must |-> FALSE] \in Rows
  BY AccountsAssumption DEF Versions, Rows
<1>2. AccountsTypeOK
  BY <1>1 DEF AccountsInit, AccountsTypeOK
<1>3. \A t \in Tokens : ~Open(t)
  BY DEF AccountsInit, Open
<1>4. \A w \in Workers : Idle(w)
  BY DEF AccountsInit, Idle
<1> QED
  BY <1>2, <1>3, <1>4 DEF AccessInv, AccountsKept, AccessProvesPassword, WeakSessionsFlagged,
                          UnusedBare, RequestsHeld, AccountsInit

LEMMA AccessInvStep ==
    ASSUME AccessInv, [AccountsNext]_accountVars
    PROVE  AccessInv'
<1>1. CASE UNCHANGED accountVars
  <2>1. UNCHANGED <<users, last, sessions, tickets, req>>
    BY <1>1 DEF accountVars
  <2>2. AccountsKept' /\ UnusedBare' /\ KeepsOpen /\ KeepsWeak
    BY <2>1, AccessIs, TablesShrink
  <2>3. ASSUME NEW v \in Workers, ~Idle(v)' PROVE RequestKnows(v)' /\ WeakIsHeld(v)'
    <3>1. req[v] \in Requests /\ RequestKnows(v) /\ WeakIsHeld(v) /\ UNCHANGED req[v]
      BY <2>1, <2>3, AccessIs DEF RequestsHeld, Idle
    <3> QED
      BY <2>2, <3>1, AccessIs, RestsHeld
  <2> QED
    BY <2>2, <2>3 DEF AccessInv, RequestsHeld
<1>2. ASSUME NEW w \in Workers, RequestStep(w) PROVE AccessInv'
  BY <1>2, ClosingSafe, FlagSafe, OpenSessionSafe, ProveSafe, GrantSafe, ChangePasswordSafe,
     DeleteUserSafe, CreateSafe DEF RequestStep
<1>3. ASSUME NEW w \in Workers, NEW u \in Users, LoginVerify(w, u) PROVE AccessInv'
  BY <1>3, EnterSafe
<1>4. ASSUME NEW w \in Workers, NEW t \in Tokens, NEW k \in Kinds, NEW v \in Users, Enter(w, t, k, v)
      PROVE  AccessInv'
  BY <1>4, EnterSafe
<1> QED
  BY <1>1, <1>2, <1>3, <1>4, DropSafe, CreateSafe DEF AccountsNext

\* An open session was opened under the password its user has now, and so was its
\* ticket; whoever is in with a password the policy refuses has been told: for any
\* number of admins, sessions and requests in any order.
THEOREM AccountsKeptAlways == AccountsSpec => []AccountsKept
<1>1. AccessInv => AccountsKept
  BY DEF AccessInv
<1> QED
  BY <1>1, AccessInvInit, AccessInvStep, PTL DEF AccountsSpec

\* delete_user leaves an admin, whoever deletes whom together.
THEOREM LastAdminStaysAlways == AccountsSpec => []LastAdminStays
<1>1. AccountsInit => LastAdminStays
  BY AccountsAssumption DEF AccountsInit, LastAdminStays, Exists, NoUser
<1>2. AccountsTypeOK /\ LastAdminStays /\ [AccountsNext]_accountVars => LastAdminStays'
  <2> SUFFICES ASSUME AccountsTypeOK, LastAdminStays, [AccountsNext]_accountVars
               PROVE  LastAdminStays'
    OBVIOUS
  <2>1. PICK u \in Users : Exists(u)
    BY DEF LastAdminStays
  <2>2. CASE UNCHANGED users
    BY <2>1, <2>2 DEF LastAdminStays, Exists
  <2>3. ASSUME NEW v \in Users, users'[v] # NoUser PROVE LastAdminStays'
    BY <2>3 DEF LastAdminStays, Exists
  <2>4. users \in [Users -> Rows \union {NoUser}] /\ NoUser \notin Rows
    BY DEF AccountsTypeOK, NoUser, Rows
  <2>5. ASSUME NEW v \in Users, NEW r \in Rows, users' = [users EXCEPT ![v] = r]
        PROVE  LastAdminStays'
    BY <2>3, <2>4, <2>5
  <2>6. ASSUME NEW w \in Workers, ~Idle(w) PROVE User(w) \in Users
    BY <2>6 DEF AccountsTypeOK, Idle, User, Requests
  <2>7. ASSUME NEW v \in Users, Insert(v) PROVE LastAdminStays'
    <3>1. users'[v] = [born |-> last[v] + 1, ver |-> last[v] + 1, must |-> FALSE]
      BY <2>4, <2>7 DEF Insert
    <3> QED
      BY <2>3, <3>1 DEF NoUser
  <2>8. ASSUME NEW w \in Workers, RequestStep(w) PROVE LastAdminStays'
    <3>1. CASE Flag(w)
      <4>1. User(w) \in Users
        BY <3>1, <2>6 DEF Flag, At
      <4>2. CASE users' = [users EXCEPT ![User(w)].must = TRUE] /\ Exists(User(w))
        <5>1. users[User(w)] \in Rows
          BY <2>4, <4>1, <4>2 DEF Exists
        <5>2. PICK r : r = [users[User(w)] EXCEPT !.must = TRUE]
          OBVIOUS
        <5>3. r \in Rows
          BY <5>1, <5>2 DEF Rows
        <5>4. users' = [users EXCEPT ![User(w)] = r]
          BY <4>2, <5>2
        <5> QED
          BY <2>5, <4>1, <5>3, <5>4
      <4> QED
        BY <2>2, <3>1, <4>2 DEF Flag
    <3>2. CASE ChangePassword(w)
      <4>1. User(w) \in Users
        BY <3>2, <2>6 DEF ChangePassword, At
      <4>2. CASE Exists(User(w))
        <5>1. /\ last[User(w)] < MaxPasswords /\ last[User(w)] \in Versions
              /\ last'[User(w)] = last[User(w)] + 1
              /\ users' = [users EXCEPT ![User(w)].ver = last'[User(w)], ![User(w)].must = FALSE]
          BY <3>2, <4>1, <4>2 DEF ChangePassword, AccountsTypeOK
        <5>2. PICK p \in Versions : p = last'[User(w)]
          BY <5>1, AccountsAssumption DEF Versions
        <5>3. users[User(w)] \in Rows
          BY <2>4, <4>1, <4>2 DEF Exists
        <5>4. PICK r : r = [users[User(w)] EXCEPT !.ver = p, !.must = FALSE]
          OBVIOUS
        <5>5. r \in Rows
          BY <5>2, <5>3, <5>4 DEF Rows
        <5>6. users' = [users EXCEPT ![User(w)] = r]
          BY <2>4, <4>1, <5>1, <5>2, <5>4
        <5> QED
          BY <2>5, <4>1, <5>5, <5>6
      <4> QED
        BY <2>2, <3>2, <4>2 DEF ChangePassword
    <3>3. CASE DeleteUser(w)
      BY <2>2, <2>3, <2>4, <3>3 DEF DeleteUser, OthersRemain, Exists
    <3>4. CASE CreateUser(w)
      BY <2>1, <2>2, <2>3, <2>4, <3>4 DEF CreateUser, Insert, Exists, NoUser
    <3> QED
      BY <2>2, <2>8, <3>1, <3>2, <3>3, <3>4
      DEF RequestStep, Gate, OpenSession, Prove, Grant, CheckTicket, UntickUser, CloseSessions,
          ForgetTicket, DestroySession
  <2> QED
    BY <2>2, <2>7, <2>8
    DEF AccountsNext, accountVars, LoginVerify, Enter, DropSession, SweepSession, SweepTicket, CreateByCli
<1>3. AccessInv => AccountsTypeOK
  BY AccessIs
<1> QED
  BY <1>1, <1>2, <1>3, AccessInvInit, AccessInvStep, PTL DEF AccountsSpec

-----------------------------------------------------------------------------
(* Secret settings: the invariant.                                         *)

Ciphers == [key : MasterKeys, salt : Nat \ {0}, by : Nat, unfit : BOOLEAN]
Tables  == [Secrets -> Ciphers \union {NoRow}]
Stages  == [step : {"idle", "rows", "audit", "saved"}, no : 0..writes, body : Bodies]

SecretsTypeOK ==
    /\ tx = {} \/ \E w \in Writers : tx = {w}
    /\ salts \in Nat /\ writes \in 0..MaxWrites /\ boots \in 0..MaxBoots
    /\ salt \in 0..salts /\ saltCache \in 0..salts
    /\ key \in MasterKeys \union {"none"} /\ verdict \in {"unset", "ok", "refused", "raised"}
    /\ canary \in Ciphers \union {NoRow}
    /\ stored \in Tables
    /\ pending \in [rows : Tables, salt : Nat]
    /\ writing \in [Writers -> Stages]
    /\ audited \subseteq 1..writes /\ madeSalt \subseteq 1..writes
    /\ torn \in BOOLEAN

\* Rows under the salt s, and under the canary's key where they were not known to be unfit.
RowsFit(rs, s) ==
    \A k \in Secrets : rs[k] # NoRow =>
        /\ rs[k].salt = s
        /\ canary # NoRow => rs[k].key = canary.key \/ rs[k].unfit

\* Whatever of salt and canary is at hand agrees with the rows on record.
SaltHolds ==
    /\ RowsFit(stored, salt)
    /\ canary # NoRow => canary.salt = salt
    /\ saltCache \in {0, salt}
    /\ verdict = "ok" => canary # NoRow /\ canary.key = key

\* Where the writer's rows are: before it has written them, in the tables as they
\* were; then in the transaction it holds until they are on record.
WriterHolds(w) ==
    /\ writing[w].step = "idle" => writing[w].no = 0
    /\ writing[w].step # "idle" => Up /\ writing[w].no # 0
    /\ \A v \in Writers : writing[v].no = writing[w].no /\ writing[w].no # 0 => v = w
    /\ writing[w].no \in madeSalt => New(w) # {}
    /\ writing[w].step = "audit" => tx = {w} /\ (New(w) # {} => pending.salt # 0)
    /\ tx = {w} => /\ writing[w].step \in {"rows", "audit"}
                   /\ writing[w].step = "rows" => pending.rows = stored
                   /\ Asked(w) = {} => pending.rows = stored
                   /\ \A k \in Secrets : pending.rows[k] # NoRow =>
                         pending.rows[k].by \in audited \union madeSalt \union {writing[w].no}

\* The holder of the transaction sees the salt on record.
PendingFits == tx # {} => pending.salt = salt /\ RowsFit(pending.rows, salt)

\* A result that is not about the secrets in force is known to be late, or a write that
\* asked for a change is about to drop it.
ResultFits(result) ==
    \/ result.late
    \/ result.seen = stored
    \/ \E w \in Writers : \/ writing[w].step = "saved" /\ Asked(w) # {}
                          \/ writing[w].no \in madeSalt

SecretsInv ==
    /\ SecretsTypeOK /\ SaltHolds /\ WritesAreWhole /\ PendingFits
    /\ \A w \in Writers : WriterHolds(w)
    /\ ~torn => \A result \in testCache : ResultFits(result)

-----------------------------------------------------------------------------
(* Secret settings: the steps.                                             *)

LEMMA CipherIs ==
    ASSUME NEW c \in Ciphers
    PROVE  c # NoRow
BY DEF Ciphers, NoRow

LEMMA TypesAre ==
    ASSUME SecretsTypeOK
    PROVE  SettingsTypeOK
<1>1. tx \in SUBSET Writers /\ Cardinality(tx) <= 1
  <2>1. CASE tx = {}
    BY <2>1, FS_EmptySet
  <2>2. ASSUME NEW w \in Writers, tx = {w} PROVE tx \in SUBSET Writers /\ Cardinality(tx) <= 1
    <3>1. Cardinality({w}) = 1
      BY FS_Singleton
    <3> QED
      BY <2>2, <3>1
  <2> QED
    BY <2>1, <2>2 DEF SecretsTypeOK
<1>2. \A k \in Secrets : stored[k] # NoRow => stored[k].key \in MasterKeys
  BY DEF SecretsTypeOK, Tables, Ciphers
<1> QED
  BY <1>1, <1>2, SettingsAssumption DEF SecretsTypeOK, SettingsTypeOK

\* A writer goes on, or is done with its request.
LEMMA StageIs ==
    ASSUME SecretsTypeOK, NEW w \in Writers, NEW step \in {"idle", "rows", "audit", "saved"},
           writes' = writes,
           \/ GoOn(w, step)
           \/ step = "idle" /\ writing' = [writing EXCEPT ![w] = NoWrite]
    PROVE  /\ writing' \in [Writers -> Stages']
           /\ writing'[w].step = step
           /\ GoOn(w, step) => writing'[w].no = writing[w].no /\ Asked(w)' = Asked(w)
                                                              /\ New(w)' = New(w)
           /\ writing' = [writing EXCEPT ![w] = NoWrite] => writing'[w].no = 0
           /\ \A v \in Writers : v # w => /\ writing'[v] = writing[v]
                                          /\ Asked(v)' = Asked(v) /\ New(v)' = New(v)
<1>1. writing \in [Writers -> Stages] /\ Stages' = Stages /\ writing[w] \in Stages /\ writes \in Nat
  BY DEF SecretsTypeOK, Stages
<1>2. CASE GoOn(w, step)
  <2>1. PICK r : r = [writing[w] EXCEPT !.step = step]
    OBVIOUS
  <2>2. writing' = [writing EXCEPT ![w] = r]
    BY <1>2, <2>1 DEF GoOn
  <2>3. r \in Stages /\ r.step = step /\ r.no = writing[w].no /\ r.body = writing[w].body
    BY <1>1, <2>1 DEF Stages
  <2>4. writing'[w] = r /\ writing' \in [Writers -> Stages]
        /\ \A v \in Writers : v # w => writing'[v] = writing[v]
    BY <1>1, <2>2, <2>3
  <2>5. writing' = [writing EXCEPT ![w] = NoWrite] => writing'[w].no = 0
    BY <1>1 DEF NoWrite
  <2> QED
    BY <1>1, <2>3, <2>4, <2>5 DEF Asked, New
<1>3. CASE step = "idle" /\ writing' = [writing EXCEPT ![w] = NoWrite]
  <2>1. NoWrite \in Stages /\ NoWrite.step = "idle" /\ NoWrite.no = 0
    BY <1>1 DEF Stages, NoWrite, Bodies
  <2>2. writing'[w] = NoWrite /\ writing' \in [Writers -> Stages]
        /\ \A v \in Writers : v # w => writing'[v] = writing[v]
    BY <1>1, <1>3, <2>1
  <2>3. GoOn(w, step) => writing'[w].no = writing[w].no /\ Asked(w)' = Asked(w) /\ New(w)' = New(w)
    <3>1. ASSUME GoOn(w, step)
          PROVE  writing'[w].no = writing[w].no /\ writing'[w].body = writing[w].body
      BY <1>1, <3>1 DEF GoOn, Stages
    <3> QED
      BY <3>1 DEF Asked, New
  <2> QED
    BY <1>1, <1>3, <2>1, <2>2, <2>3 DEF Asked, New
<1> QED
  BY <1>2, <1>3

LEMMA SecretsInvInit ==
    ASSUME SettingsInit
    PROVE  SecretsInv
<1>1. stored \in Tables /\ \A k \in Secrets : stored[k] = NoRow
  BY DEF SettingsInit, Tables
<1>2. pending.rows = [k \in Secrets |-> NoRow] /\ pending \in [rows : Tables, salt : Nat]
  BY DEF SettingsInit, Tables
<1>3. \A w \in Writers : /\ writing[w].step = "idle" /\ writing[w].no = 0
                         /\ writing[w] \in Stages
  BY DEF SettingsInit, NoWrite, Stages, Bodies
<1>4. SecretsTypeOK
  <2>1. /\ salts \in Nat /\ writes \in 0..MaxWrites /\ boots \in 0..MaxBoots
        /\ salt \in 0..salts /\ saltCache \in 0..salts
    BY SettingsAssumption DEF SettingsInit
  <2>2. writing \in [Writers -> Stages]
    BY <1>3 DEF SettingsInit
  <2>3. /\ tx = {} /\ audited = {} /\ madeSalt = {} /\ torn = FALSE /\ canary = NoRow
        /\ key = "none" /\ verdict = "unset"
    BY DEF SettingsInit
  <2> QED
    BY <1>1, <1>2, <2>1, <2>2, <2>3 DEF SecretsTypeOK
<1>5. SaltHolds /\ WritesAreWhole /\ PendingFits
  BY <1>1 DEF SaltHolds, RowsFit, WritesAreWhole, Written, PendingFits, SettingsInit
<1>6. \A w \in Writers : WriterHolds(w)
  BY <1>3 DEF WriterHolds, SettingsInit
<1> QED
  BY <1>4, <1>5, <1>6 DEF SecretsInv, SettingsInit

\* What the tests and the results do not touch.
LEMMA TestsSafe ==
    ASSUME SecretsInv, UNCHANGED <<rows, salts, process, writeVars, boots>>,
           \A result \in testCache' : result \in testCache \/ result.late \/ result.seen = stored
    PROVE  SecretsInv'
<1>1. UNCHANGED <<salt, canary, stored, salts, key, verdict, saltCache, writing, tx, pending,
                  writes, audited, madeSalt, torn, boots>>
  BY DEF rows, process, writeVars
<1>2. SecretsTypeOK'
  BY <1>1 DEF SecretsInv, SecretsTypeOK, Stages
<1>3. SaltHolds' /\ WritesAreWhole' /\ PendingFits'
  BY <1>1 DEF SecretsInv, SaltHolds, RowsFit, WritesAreWhole, Written, PendingFits
<1>4. \A w \in Writers : WriterHolds(w)'
  BY <1>1 DEF SecretsInv, WriterHolds, Up, Asked, New
<1>5. ~torn' => \A result \in testCache' : ResultFits(result)'
  BY <1>1 DEF SecretsInv, ResultFits, Asked
<1> QED
  BY <1>2, <1>3, <1>4, <1>5 DEF SecretsInv

LEMMA TestingSafe ==
    ASSUME SecretsInv, NEW t \in Testers, StartTest(t) \/ EndTest(t)
    PROVE  SecretsInv'
<1>1. UNCHANGED <<rows, salts, process, writeVars, boots>>
  BY DEF StartTest, EndTest
<1>2. \A result \in testCache' : result \in testCache \/ result.late \/ result.seen = stored
  <2>1. ASSUME NEW seen PROVE Result(seen).late \/ Result(seen).seen = stored
    <3>1. CASE seen = stored
      BY <3>1 DEF Result
    <3>2. CASE seen # stored
      <4>1. Result(seen) = [seen |-> seen, late |-> TRUE]
        BY <3>2 DEF Result
      <4> QED
        BY <4>1
    <3> QED
      BY <3>1, <3>2
  <2> QED
    BY <2>1 DEF StartTest, EndTest, KeepResult
<1> QED
  BY <1>1, <1>2, TestsSafe

LEMMA ExpireSafe ==
    ASSUME SecretsInv, Expire
    PROVE  SecretsInv'
<1>1. UNCHANGED <<rows, salts, process, writeVars, boots>> /\ testCache' = {}
  BY DEF Expire, DropResult
<1> QED
  BY <1>1, TestsSafe

\* A start: the process comes up, and nobody is writing.
LEMMA BootSafe ==
    ASSUME SecretsInv, NEW k \in MasterKeys, Boot(k)
    PROVE  SecretsInv'
<1>1. /\ ~Up /\ boots < MaxBoots /\ boots' = boots + 1 /\ key' = k
      /\ UNCHANGED <<stored, writing, tx, pending, writes, audited, madeSalt, torn, testCache>>
  BY DEF Boot, writeVars, testVars, rows
<1>2. \A w \in Writers : writing[w].step = "idle"
  BY <1>1 DEF SecretsInv, WriterHolds
<1>3. tx = {}
  BY <1>2 DEF SecretsInv, SecretsTypeOK, WriterHolds
<1>4. /\ salt \in Nat /\ salts \in Nat /\ salt <= salts
      /\ canary \in Ciphers \union {NoRow} /\ (canary # NoRow => canary.salt = salt /\ salt # 0)
      /\ \A s \in Written : s \in Secrets /\ stored[s] \in Ciphers /\ stored[s].salt = salt /\ salt # 0
  BY DEF SecretsInv, SecretsTypeOK, SaltHolds, RowsFit, Written, Tables, Ciphers
<1>5. /\ salt' \in 0..salts' /\ salts' \in Nat /\ saltCache' \in {0, salt'}
      /\ verdict' \in {"ok", "refused", "raised"}
      /\ canary' \in Ciphers \union {NoRow}
      /\ canary' # NoRow => canary'.salt = salt'
      /\ canary' = canary \/ Written = {}
      /\ salt' = salt \/ Written = {}
      /\ verdict' = "ok" => canary' # NoRow /\ canary'.key = k
  <2>1. CASE verdict' = "raised" /\ CacheSalt(0) /\ UNCHANGED <<rows, salts>>
    BY <1>4, <2>1 DEF CacheSalt, rows
  <2>2. PICK use \in Nat : use = IF salt = 0 /\ ~(canary = NoRow /\ Written # {})
                               THEN salts + 1 ELSE salt
    BY <1>4
  <2>3. CASE /\ salt' = use
             /\ salts' = IF salt = 0 /\ ~(canary = NoRow /\ Written # {}) THEN salts + 1 ELSE salts
             /\ IF CanaryValid(k, use) THEN PassCanary(k, use) ELSE FailCanary
    <3>1. /\ salt' \in 0..salts' /\ salts' \in Nat
          /\ salt' = salt \/ (Written = {} /\ canary = NoRow)
      <4>1. CASE salt = 0 /\ ~(canary = NoRow /\ Written # {})
        BY <1>4, <2>2, <2>3, <4>1
      <4>2. CASE ~(salt = 0 /\ ~(canary = NoRow /\ Written # {}))
        BY <1>4, <2>2, <2>3, <4>2
      <4> QED
        BY <4>1, <4>2
    <3>2. CASE CanaryValid(k, use)
      <4>1. PassCanary(k, use)
        BY <2>3, <3>2
      <4>2. CASE canary = NoRow
        <5>1. Written = {} /\ use # 0
          BY <1>4, <2>2, <3>2, <4>2 DEF CanaryValid
        <5>2. canary' = [key |-> k, salt |-> use, by |-> 0, unfit |-> FALSE]
          BY <4>1, <4>2 DEF PassCanary, Cipher
        <5>3. canary' \in Ciphers /\ canary'.key = k /\ canary'.salt = use
          BY <5>1, <5>2 DEF Ciphers
        <5> QED
          BY <2>3, <3>1, <4>1, <5>1, <5>3, CipherIs DEF PassCanary, CacheSalt
      <4>3. CASE canary # NoRow
        BY <1>4, <2>3, <3>1, <3>2, <4>1, <4>3 DEF CanaryValid, Opens, PassCanary, CacheSalt
      <4> QED
        BY <4>2, <4>3
    <3>3. CASE ~CanaryValid(k, use)
      BY <1>4, <2>3, <3>1, <3>3 DEF FailCanary, CacheSalt
    <3> QED
      BY <3>2, <3>3
  <2> QED
    BY <2>1, <2>2, <2>3 DEF Boot
<1>6. SecretsTypeOK'
  <2>1. boots' \in 0..MaxBoots /\ saltCache' \in 0..salts'
    BY <1>1, <1>5, SettingsAssumption DEF SecretsInv, SecretsTypeOK
  <2>2. /\ key' \in MasterKeys \union {"none"}
        /\ verdict' \in {"unset", "ok", "refused", "raised"}
    BY <1>1, <1>5
  <2>3. Stages' = Stages
    BY <1>1 DEF Stages
  <2> QED
    BY <1>1, <1>5, <2>1, <2>2, <2>3 DEF SecretsInv, SecretsTypeOK
<1>7. SaltHolds'
  <2>1. RowsFit(stored, salt)'
    BY <1>1, <1>5 DEF SecretsInv, SaltHolds, RowsFit, Written
  <2> QED
    BY <1>1, <1>5, <2>1 DEF SaltHolds
<1>8. WritesAreWhole' /\ PendingFits'
  BY <1>1, <1>3 DEF SecretsInv, WritesAreWhole, Written, PendingFits
<1>9. \A w \in Writers : WriterHolds(w)'
  BY <1>1, <1>2, <1>3 DEF SecretsInv, WriterHolds, New, Asked
<1>10. ~torn' => \A result \in testCache' : ResultFits(result)'
  BY <1>1 DEF SecretsInv, ResultFits, Asked
<1> QED
  BY <1>6, <1>7, <1>8, <1>9, <1>10 DEF SecretsInv

\* The end of the process ends every write, and the results go with it.
LEMMA StopSafe ==
    ASSUME SecretsInv, Stop
    PROVE  SecretsInv'
<1>1. /\ key' = "none" /\ verdict' = "unset" /\ saltCache' = 0 /\ tx' = {} /\ testCache' = {}
      /\ writing' = [w \in Writers |-> NoWrite] /\ torn' \in BOOLEAN
      /\ UNCHANGED <<salt, canary, stored, salts, pending, writes, audited, madeSalt, boots>>
  BY DEF Stop, CacheSalt, rows, SecretsInv, SecretsTypeOK
<1>2. \A w \in Writers : writing'[w].step = "idle" /\ writing'[w].no = 0 /\ writing'[w] \in Stages
  BY <1>1 DEF NoWrite, Stages, Bodies, SecretsInv, SecretsTypeOK
<1>3. SecretsTypeOK'
  BY <1>1, <1>2 DEF SecretsInv, SecretsTypeOK, Stages
<1>4. SaltHolds' /\ WritesAreWhole' /\ PendingFits'
  BY <1>1 DEF SecretsInv, SaltHolds, RowsFit, WritesAreWhole, Written, PendingFits
<1>5. \A w \in Writers : WriterHolds(w)'
  BY <1>1, <1>2 DEF WriterHolds, SecretsInv, SecretsTypeOK
<1> QED
  BY <1>1, <1>3, <1>4, <1>5 DEF SecretsInv

\* A write gets a number that no other has had.
LEMMA AskWriteSafe ==
    ASSUME SecretsInv, NEW w \in Writers, AskWrite(w)
    PROVE  SecretsInv'
<1>1. PICK body \in Bodies :
         writing' = [writing EXCEPT ![w] = [step |-> "rows", no |-> writes + 1, body |-> body]]
  BY DEF AskWrite
<1>2. /\ Up /\ writing[w].step = "idle" /\ writes \in Nat /\ writes < MaxWrites /\ writes' = writes + 1
      /\ UNCHANGED <<salt, canary, stored, salts, key, verdict, saltCache, tx, pending,
                     audited, madeSalt, torn, testCache, boots>>
  BY DEF AskWrite, Step, rows, process, testVars, SecretsInv, SecretsTypeOK
<1>3. /\ writing'[w].step = "rows" /\ writing'[w].no = writes + 1 /\ writing'[w] \in Stages'
      /\ \A v \in Writers : v # w => writing'[v] = writing[v]
      /\ \A v \in Writers : writing[v].no \in 0..writes /\ writing[v] \in Stages'
      /\ writing' \in [Writers -> Stages']
  BY <1>1, <1>2 DEF SecretsInv, SecretsTypeOK, Stages
<1>4. SecretsTypeOK'
  BY <1>2, <1>3, SettingsAssumption DEF SecretsInv, SecretsTypeOK
<1>5. SaltHolds' /\ WritesAreWhole' /\ PendingFits'
  BY <1>2 DEF SecretsInv, SaltHolds, RowsFit, WritesAreWhole, Written, PendingFits
<1>6. tx # {w} /\ madeSalt \subseteq 1..writes
  BY <1>2 DEF SecretsInv, WriterHolds, SecretsTypeOK
<1>7. WriterHolds(w)'
  BY <1>2, <1>3, <1>6 DEF WriterHolds, Up
<1>8. ASSUME NEW v \in Writers, v # w PROVE WriterHolds(v)'
  BY <1>2, <1>3, <1>8 DEF SecretsInv, WriterHolds, Up, Asked, New
<1>9. ~torn' => \A result \in testCache' : ResultFits(result)'
  <2> SUFFICES ASSUME ~torn', NEW result \in testCache' PROVE ResultFits(result)'
    OBVIOUS
  <2>1. ResultFits(result)
    BY <1>2 DEF SecretsInv
  <2>2. writing[w].no = 0 /\ writing[w].no \notin madeSalt
    BY <1>2, <1>6 DEF SecretsInv, WriterHolds
  <2> QED
    BY <1>2, <1>3, <2>1, <2>2 DEF ResultFits, Asked
<1> QED
  BY <1>4, <1>5, <1>7, <1>8, <1>9 DEF SecretsInv

LEMMA BeginSafe ==
    ASSUME SecretsInv, NEW w \in Writers, Begin(w)
    PROVE  SecretsInv'
<1>1. /\ writing[w].step = "rows" /\ tx = {} /\ tx' = {w}
      /\ pending' = [rows |-> stored, salt |-> salt]
      /\ UNCHANGED <<salt, canary, stored, salts, key, verdict, saltCache, writing, writes,
                     audited, madeSalt, torn, testCache, boots>>
  BY DEF Begin, Step, rows, process, testVars
<1>2. SecretsTypeOK'
  BY <1>1 DEF SecretsInv, SecretsTypeOK, Stages
<1>3. SaltHolds' /\ WritesAreWhole' /\ PendingFits'
  BY <1>1 DEF SecretsInv, SaltHolds, RowsFit, WritesAreWhole, Written, PendingFits
<1>4. WriterHolds(w)'
  BY <1>1 DEF SecretsInv, WriterHolds, Up, Asked, New, WritesAreWhole, Written
<1>5. ASSUME NEW v \in Writers, v # w PROVE WriterHolds(v)'
  BY <1>1, <1>5 DEF SecretsInv, WriterHolds, Up, Asked, New
<1>6. ~torn' => \A result \in testCache' : ResultFits(result)'
  BY <1>1 DEF SecretsInv, ResultFits, Asked
<1> QED
  BY <1>2, <1>3, <1>4, <1>5, <1>6 DEF SecretsInv

\* The salt is made where there are no rows yet: what its transaction puts on record
\* with it is empty.
LEMMA MakeSaltSafe ==
    ASSUME SecretsInv, NEW w \in Writers, MakeSalt(w)
    PROVE  SecretsInv'
<1>1. PICK done \in SUBSET Asked(w) :
        /\ stored' = [k \in Secrets |-> IF k \in done /\ writing[w].body[k] = "clear"
                                        THEN NoRow ELSE pending.rows[k]]
        /\ salt' = salts + 1 /\ tx' = {} /\ UNCHANGED pending
  BY DEF MakeSalt, CommitsSalt
<1>2. /\ tx = {w} /\ New(w) # {} /\ saltCache = 0 /\ pending.salt = 0
      /\ salts' = salts + 1 /\ saltCache' = salts + 1 /\ madeSalt' = madeSalt \union {writing[w].no}
      /\ UNCHANGED <<canary, key, verdict, writing, writes, audited, torn, testCache, boots>>
  BY DEF MakeSalt, CacheSalt, testVars
<1>3. /\ salt = 0 /\ writing[w].step = "rows" /\ writing[w].no \in 1..writes
  BY <1>2 DEF SecretsInv, PendingFits, WriterHolds, SecretsTypeOK, Stages
<1>4. \A k \in Secrets : pending.rows[k] = NoRow
  BY <1>2, <1>3 DEF SecretsInv, SecretsTypeOK, PendingFits, RowsFit, Tables, Ciphers
<1>5. canary = NoRow /\ \A k \in Secrets : stored[k] = NoRow
  BY <1>3 DEF SecretsInv, SecretsTypeOK, SaltHolds, RowsFit, Tables, Ciphers
<1>6. stored' \in Tables /\ \A k \in Secrets : stored'[k] = NoRow
  BY <1>1, <1>4 DEF Tables
<1>7. SecretsTypeOK'
  <2>1. /\ salts' \in Nat /\ salt' \in 0..salts' /\ saltCache' \in 0..salts'
    BY <1>1, <1>2 DEF SecretsInv, SecretsTypeOK
  <2>2. Stages' = Stages /\ madeSalt' \subseteq 1..writes
    BY <1>2, <1>3 DEF Stages, SecretsInv, SecretsTypeOK
  <2> QED
    BY <1>1, <1>2, <1>6, <2>1, <2>2 DEF SecretsInv, SecretsTypeOK
<1>8. SaltHolds' /\ WritesAreWhole' /\ PendingFits'
  BY <1>1, <1>2, <1>5, <1>6 DEF SecretsInv, SaltHolds, RowsFit, WritesAreWhole, Written, PendingFits
<1>9. WriterHolds(w)'
  BY <1>1, <1>2, <1>3 DEF SecretsInv, WriterHolds, Up, Asked, New
<1>10. ASSUME NEW v \in Writers, v # w PROVE WriterHolds(v)'
  <2>1. writing[v].no # writing[w].no
    BY <1>3, <1>10 DEF SecretsInv, WriterHolds
  <2> QED
    BY <1>1, <1>2, <1>10, <2>1 DEF SecretsInv, WriterHolds, Up, Asked, New
<1>11. \A result \in testCache' : ResultFits(result)'
  BY <1>2 DEF ResultFits
<1> QED
  BY <1>7, <1>8, <1>9, <1>10, <1>11 DEF SecretsInv

LEMMA WriteRowsSafe ==
    ASSUME SecretsInv, NEW w \in Writers, WriteRows(w)
    PROVE  SecretsInv'
<1>1. /\ tx = {w} /\ writing[w].step = "rows" /\ (New(w) # {} => SaltInUse # 0)
      /\ saltCache' = IF New(w) # {} THEN SaltInUse ELSE saltCache
      /\ GoOn(w, "audit")
      /\ UNCHANGED <<salt, canary, stored, salts, key, verdict, tx, writes, audited, madeSalt,
                     torn, testCache, boots>>
  BY DEF WriteRows, Step, CacheSalt, rows, testVars
<1>2. /\ pending.salt = salt /\ pending.rows = stored /\ stored \in Tables /\ salt \in Nat
      /\ pending \in [rows : Tables, salt : Nat] /\ SaltInUse = salt
      /\ writing[w].no \in 1..writes /\ writing[w].body \in Bodies /\ writes \in Nat
      /\ key \in MasterKeys /\ (verdict = "ok" => canary # NoRow /\ canary.key = key)
  BY <1>1 DEF SecretsInv, PendingFits, WriterHolds, SecretsTypeOK, SaltHolds, SaltInUse, Stages, Up
<1>3. PICK c : c = Cipher(key, salt, writing[w].no, verdict # "ok" /\ canary # NoRow)
  OBVIOUS
<1>4. New(w) # {} => c \in Ciphers
  BY <1>1, <1>2, <1>3 DEF Ciphers, Cipher
<1>5. c.key = key /\ c.salt = salt /\ c.by = writing[w].no
      /\ (canary # NoRow => c.key = canary.key \/ c.unfit)
  BY <1>2, <1>3 DEF Cipher
<1>6. PICK rs : rs = [k \in Secrets |-> CASE writing[w].body[k] = "keep"  -> stored[k]
                                          [] writing[w].body[k] = "clear" -> NoRow
                                          [] writing[w].body[k] = "new"   -> c]
  OBVIOUS
<1>7. pending' = [pending EXCEPT !.rows = rs]
  BY <1>1, <1>2, <1>3, <1>6 DEF WriteRows
<1>8. pending'.rows = rs /\ pending'.salt = salt
  BY <1>2, <1>7
<1>9. ASSUME NEW k \in Secrets
      PROVE  \/ rs[k] = stored[k]
             \/ rs[k] = NoRow /\ k \in Asked(w)
             \/ rs[k] = c /\ c \in Ciphers /\ k \in Asked(w)
  <2>1. writing[w].body[k] \in {"keep", "clear", "new"}
    BY <1>2 DEF Bodies
  <2> QED
    BY <1>4, <1>6, <2>1 DEF Asked, New
<1>10. rs \in Tables /\ (Asked(w) = {} => rs = stored)
  BY <1>2, <1>6, <1>9 DEF Tables
<1>11. /\ writing' \in [Writers -> Stages'] /\ writing'[w].step = "audit"
       /\ writing'[w].no = writing[w].no /\ Asked(w)' = Asked(w) /\ New(w)' = New(w)
       /\ \A v \in Writers : v # w => /\ writing'[v] = writing[v]
                                      /\ Asked(v)' = Asked(v) /\ New(v)' = New(v)
  BY <1>1, StageIs DEF SecretsInv
<1>12. SecretsTypeOK'
  <2>1. pending' \in [rows : Tables, salt : Nat]
    BY <1>2, <1>7, <1>10
  <2> QED
    BY <1>1, <1>2, <1>11, <2>1 DEF SecretsInv, SecretsTypeOK
<1>13. SaltHolds' /\ WritesAreWhole'
  BY <1>1, <1>2 DEF SecretsInv, SaltHolds, RowsFit, WritesAreWhole, Written
<1>14. PendingFits'
  BY <1>1, <1>5, <1>8, <1>9 DEF SecretsInv, SaltHolds, RowsFit, PendingFits
<1>15. WriterHolds(w)'
  <2>1. ASSUME NEW k \in Secrets, rs[k] # NoRow
        PROVE  rs[k].by \in audited \union madeSalt \union {writing[w].no}
    BY <1>5, <1>9, <2>1 DEF SecretsInv, WritesAreWhole, Written
  <2> QED
    BY <1>1, <1>2, <1>8, <1>10, <1>11, <2>1 DEF SecretsInv, WriterHolds, Up
<1>16. ASSUME NEW v \in Writers, v # w PROVE WriterHolds(v)'
  BY <1>1, <1>11, <1>16 DEF SecretsInv, WriterHolds, Up
<1>17. ~torn' => \A result \in testCache' : ResultFits(result)'
  BY <1>1, <1>11 DEF SecretsInv, ResultFits
<1> QED
  BY <1>12, <1>13, <1>14, <1>15, <1>16, <1>17 DEF SecretsInv

LEMMA CommitWriteSafe ==
    ASSUME SecretsInv, NEW w \in Writers, CommitWrite(w)
    PROVE  SecretsInv'
<1>1. /\ writing[w].step = "audit" /\ stored' = pending.rows /\ salt' = pending.salt /\ tx' = {}
      /\ audited' = audited \union {writing[w].no} /\ GoOn(w, "saved")
      /\ UNCHANGED <<canary, salts, key, verdict, saltCache, pending, writes, madeSalt, torn,
                     testCache, boots>>
  BY DEF CommitWrite, Step, process, testVars
<1>2. /\ tx = {w} /\ pending.salt = salt /\ RowsFit(pending.rows, salt)
      /\ (Asked(w) = {} => pending.rows = stored)
      /\ writing[w].no \in 1..writes
  BY <1>1 DEF SecretsInv, WriterHolds, PendingFits, SecretsTypeOK, Stages
<1>3. /\ writing' \in [Writers -> Stages'] /\ writing'[w].step = "saved"
      /\ writing'[w].no = writing[w].no /\ Asked(w)' = Asked(w) /\ New(w)' = New(w)
      /\ \A v \in Writers : v # w => /\ writing'[v] = writing[v]
                                     /\ Asked(v)' = Asked(v) /\ New(v)' = New(v)
  BY <1>1, StageIs DEF SecretsInv
<1>4. SecretsTypeOK'
  BY <1>1, <1>2, <1>3 DEF SecretsInv, SecretsTypeOK
<1>5. SaltHolds' /\ PendingFits'
  BY <1>1, <1>2 DEF SecretsInv, SaltHolds, RowsFit, PendingFits
<1>6. WritesAreWhole'
  BY <1>1, <1>2 DEF SecretsInv, WriterHolds, WritesAreWhole, Written
<1>7. WriterHolds(w)'
  BY <1>1, <1>2, <1>3 DEF SecretsInv, WriterHolds, Up
<1>8. ASSUME NEW v \in Writers, v # w PROVE WriterHolds(v)'
  BY <1>1, <1>2, <1>3, <1>8 DEF SecretsInv, WriterHolds, Up
<1>9. ~torn' => \A result \in testCache' : ResultFits(result)'
  <2>1. CASE Asked(w) = {}
    BY <1>1, <1>2, <1>3, <2>1 DEF SecretsInv, ResultFits
  <2>2. CASE Asked(w) # {}
    BY <1>3, <2>2 DEF ResultFits
  <2> QED
    BY <2>1, <2>2
<1> QED
  BY <1>4, <1>5, <1>6, <1>7, <1>8, <1>9 DEF SecretsInv

LEMMA FailWriteSafe ==
    ASSUME SecretsInv, NEW w \in Writers, FailWrite(w)
    PROVE  SecretsInv'
<1>1. /\ tx = {w} \/ (writing[w].step = "rows" /\ tx # {})
      /\ tx' = tx \ {w} /\ writing' = [writing EXCEPT ![w] = NoWrite]
      /\ torn' = (torn \/ writing[w].no \in madeSalt)
      /\ UNCHANGED <<salt, canary, stored, salts, key, verdict, saltCache, pending, writes,
                     audited, madeSalt, testCache, boots>>
  BY DEF FailWrite, Step, rows, process, testVars
<1>2. /\ writing' \in [Writers -> Stages'] /\ writing'[w].step = "idle" /\ writing'[w].no = 0
      /\ \A v \in Writers : v # w => /\ writing'[v] = writing[v]
                                     /\ Asked(v)' = Asked(v) /\ New(v)' = New(v)
  BY <1>1, StageIs DEF SecretsInv
<1>3. /\ tx' = {} \/ (tx' = tx /\ tx # {w})
      /\ writing[w].step \in {"rows", "audit"}
  BY <1>1 DEF SecretsInv, SecretsTypeOK, WriterHolds
<1>4. SecretsTypeOK'
  BY <1>1, <1>2, <1>3 DEF SecretsInv, SecretsTypeOK
<1>5. SaltHolds' /\ WritesAreWhole' /\ PendingFits'
  BY <1>1, <1>3 DEF SecretsInv, SaltHolds, RowsFit, WritesAreWhole, Written, PendingFits
<1>6. WriterHolds(w)'
  BY <1>1, <1>2, <1>3 DEF SecretsInv, SecretsTypeOK, WriterHolds
<1>7. ASSUME NEW v \in Writers, v # w PROVE WriterHolds(v)'
  BY <1>1, <1>2, <1>3, <1>7 DEF SecretsInv, WriterHolds, Up
<1>8. ~torn' => \A result \in testCache' : ResultFits(result)'
  BY <1>1, <1>2, <1>3 DEF SecretsInv, ResultFits
<1> QED
  BY <1>4, <1>5, <1>6, <1>7, <1>8 DEF SecretsInv

LEMMA InvalidateSafe ==
    ASSUME SecretsInv, NEW w \in Writers, Invalidate(w)
    PROVE  SecretsInv'
<1>1. /\ writing[w].step = "saved" /\ writing' = [writing EXCEPT ![w] = NoWrite]
      /\ testCache' = IF Asked(w) = {} THEN testCache ELSE {}
      /\ UNCHANGED <<salt, canary, stored, salts, key, verdict, saltCache, tx, pending, writes,
                     audited, madeSalt, torn, boots>>
  BY DEF Invalidate, Step, DropResult, rows, process
<1>2. /\ writing' \in [Writers -> Stages'] /\ writing'[w].step = "idle" /\ writing'[w].no = 0
      /\ \A v \in Writers : v # w => /\ writing'[v] = writing[v]
                                     /\ Asked(v)' = Asked(v) /\ New(v)' = New(v)
  BY <1>1, StageIs DEF SecretsInv
<1>3. tx # {w} /\ (Asked(w) = {} => writing[w].no \notin madeSalt)
  BY <1>1 DEF SecretsInv, WriterHolds, New
<1>4. SecretsTypeOK'
  BY <1>1, <1>2 DEF SecretsInv, SecretsTypeOK
<1>5. SaltHolds' /\ WritesAreWhole' /\ PendingFits'
  BY <1>1 DEF SecretsInv, SaltHolds, RowsFit, WritesAreWhole, Written, PendingFits
<1>6. WriterHolds(w)'
  BY <1>1, <1>2, <1>3 DEF SecretsInv, SecretsTypeOK, WriterHolds
<1>7. ASSUME NEW v \in Writers, v # w PROVE WriterHolds(v)'
  BY <1>1, <1>2, <1>3, <1>7 DEF SecretsInv, WriterHolds, Up
<1>8. ~torn' => \A result \in testCache' : ResultFits(result)'
  BY <1>1, <1>2, <1>3 DEF SecretsInv, ResultFits
<1> QED
  BY <1>4, <1>5, <1>6, <1>7, <1>8 DEF SecretsInv

LEMMA SecretsInvStep ==
    ASSUME SecretsInv, [SettingsNext]_settingVars
    PROVE  SecretsInv'
<1>1. CASE UNCHANGED settingVars
  BY <1>1, TestsSafe DEF settingVars, testVars
<1>2. CASE SettingsNext
  BY <1>2, BootSafe, StopSafe, ExpireSafe, AskWriteSafe, BeginSafe, MakeSaltSafe, WriteRowsSafe,
     CommitWriteSafe, FailWriteSafe, InvalidateSafe, TestingSafe DEF SettingsNext
<1> QED
  BY <1>1, <1>2

\* Secrets stay readable over restarts for any number of keys, starts and writers, a
\* write is whole or was the one that made the salt, and a kept test result is about
\* the secrets in force unless it is known to be late.
THEOREM SettingsKeptAlways == SettingsSpec => []SettingsKept
<1>1. SecretsInv => SettingsKept
  <2> SUFFICES ASSUME SecretsInv PROVE SettingsKept
    OBVIOUS
  <2>1. SettingsTypeOK
    BY TypesAre DEF SecretsInv
  <2>2. SaltOutlivesCache
    BY DEF SecretsInv, SaltHolds, RowsFit, SaltOutlivesCache, Written
  <2>3. CanaryMeansReadable
    BY DEF SecretsInv, SaltHolds, RowsFit, CanaryMeansReadable, Written, Opens
  <2>4. ResultsFit
    BY DEF SecretsInv, ResultFits, ResultsFit, Step
  <2> QED
    BY <2>1, <2>2, <2>3, <2>4 DEF SecretsInv, SettingsKept
<1> QED
  BY <1>1, SecretsInvInit, SecretsInvStep, PTL DEF SettingsSpec

-----------------------------------------------------------------------------
(* Outbound calls: the invariant.                                          *)

Replies == Statuses \union {Lost}
CallRecords == [step : {"idle", "check", "send"}, kind : CallKinds, host : Hosts, region : 1..2,
                answers : Seq(Replies), streak : Nat, prior : Ips \union {NoAddress},
                result : {"none", "ok", "refused", "error", "raw", "value error"},
                status : Replies, read : BOOLEAN, taken : 0..2, known : BOOLEAN,
                reached : SUBSET Ips, sure : BOOLEAN]

\* Two answers of 5xx follow each other somewhere in the first n.
Doubled(s, n) == \E i \in 1..n - 1 : s[i] >= 500 /\ s[i + 1] >= 500

\* A call that is not over has told nothing, and one that may still send has asked less
\* often than it may; of a mail's, the last answer alone may have been of 5xx.
Sending(r) ==
    /\ r.step # "idle" => r.result = "none" /\ ~r.known /\ (Once(r.kind) => r.taken = 0)
    /\ r.step = "check" => r.answers = <<>> /\ r.streak = 0
    /\ r.step = "send" => Len(r.answers) < Attempts(r.kind) /\ r.prior = NoAddress
    /\ r.step = "send" /\ r.kind = "mail" =>
          /\ ~Doubled(r.answers, Len(r.answers)) /\ r.streak <= 1
          /\ r.streak = 1 <=> Len(r.answers) > 0 /\ r.answers[Len(r.answers)] >= 500

CountFits(r) == Len(r.answers) <= MaxTries /\ r.streak <= Len(r.answers)

OnceDone(r) ==
    /\ Once(r.kind) => Len(r.answers) <= 1 /\ r.taken <= 1
    /\ r.known <=> r.result = "ok"

LastTold(r) ==
    r.result \in {"error", "value error"} /\ r.answers # <<>>
        => r.status = r.answers[Len(r.answers)]

GivesUp(r) ==
    r.kind = "mail" =>
        LET s == r.answers  n == Len(s)
        IN  /\ \A i \in 1..n - 2 : ~(s[i] >= 500 /\ s[i + 1] >= 500)
            /\ r.result = "error" /\ r.read /\ 0 < n /\ n < MaxTries
                => \/ s[n] \notin {Lost, 429, 500, 503}
                   \/ n > 1 /\ s[n] >= 500 /\ s[n - 1] >= 500

RecordFits(r) == Sending(r) /\ CountFits(r) /\ OnceDone(r) /\ LastTold(r) /\ GivesUp(r)

Checked == (UNION {approved[h] : h \in Hosts}) \ Blocked

\* What passed a check is not blocked; a call that is sure went nowhere else, nor does a
\* connection that was kept of one.
AddressesFit ==
    /\ \A h \in Hosts : approved[h] \intersect Blocked = {}
    /\ \A t \in Threads :
        /\ call[t].sure => call[t].reached \subseteq Checked
        /\ \A h \in Hosts : kept[t][h].sure /\ kept[t][h].to # NoAddress => kept[t][h].to \in Checked

\* While a call sends, its own host is pinned to an address that passed, and no other.
PinsFit ==
    \A t \in Threads, h \in Hosts :
        IF call[t].step = "send" /\ call[t].host = h /\ ~Free(h)
        THEN pins[t][h] \in approved[h]
        ELSE pins[t][h] = NoAddress

CallsFit == \A t \in Threads : RecordFits(call[t])

OutboundTypes ==
    /\ hooked \in BOOLEAN
    /\ pins \in [Threads -> [Hosts -> Ips \union {NoAddress}]]
    /\ kept \in [Threads -> [Hosts -> [to : Ips \union {NoAddress}, sure : BOOLEAN]]]
    /\ approved \in [Hosts -> SUBSET Ips]
    /\ call \in [Threads -> CallRecords]

OutboundInv == OutboundTypes /\ CallsFit /\ AddressesFit /\ PinsFit

-----------------------------------------------------------------------------
(* Outbound calls: one call.                                               *)

LEMMA OutboundConstants ==
    MaxTries \in Nat /\ 1 <= MaxTries /\ NoAddress \notin Ips /\ Hosts # {}
BY OutboundAssumption

LEMMA NoAnswers == <<>> \in Seq(Replies) /\ Len(<<>>) = 0
OBVIOUS

LEMMA RestingFits == Resting \in CallRecords /\ RecordFits(Resting) /\ Resting.reached = {}
                     /\ Resting.step = "idle" /\ Resting.answers = <<>> /\ Resting.result = "none"
                     /\ Resting.streak = 0 /\ ~Resting.known /\ Resting.taken = 0
<1>1. (CHOOSE h \in Hosts : TRUE) \in Hosts
  BY OutboundConstants
<1>2. <<>> \in Seq(Replies) /\ Len(<<>>) = 0
  OBVIOUS
<1>3. Resting \in CallRecords /\ Resting.step = "idle" /\ Resting.answers = <<>>
      /\ Resting.streak = 0 /\ Resting.result = "none" /\ Resting.known = FALSE /\ Resting.kind = "get"
      /\ Resting.reached = {} /\ Resting.taken = 0
  BY <1>1, <1>2 DEF Resting, CallRecords, CallKinds, Replies, Lost
<1> QED
  BY <1>2, <1>3, OutboundConstants
  DEF RecordFits, Sending, CountFits, OnceDone, LastTold, GivesUp, Once

Becomes(t, r) == call' = [call EXCEPT ![t] = r]

LEMMA CallIs ==
    ASSUME OutboundTypes, NEW t \in Threads
    PROVE  /\ call[t] \in CallRecords
           /\ \A r \in CallRecords : Becomes(t, r) =>
                 /\ call' \in [Threads -> CallRecords] /\ call'[t] = r
                 /\ \A u \in Threads : u # t => call'[u] = call[u]
BY DEF OutboundTypes, Becomes

\* How one request ends.
Outcomes == {"ok", "error", "raw", "value error"}
Over(rec, result, status) == [rec EXCEPT !.step = "idle", !.result = result, !.status = status]

LEMMA EndsFit ==
    ASSUME NEW t \in Threads, NEW rec \in CallRecords, rec.result = "none",
           NEW result \in Outcomes, NEW status \in Replies,
           RecordFits(Over(rec, result, status)), Ends(t, rec, result, status)
    PROVE  \E r \in CallRecords :
              /\ Becomes(t, r) /\ RecordFits(r) /\ r.step # "send"
              /\ r.reached = rec.reached /\ r.sure = rec.sure
<1>1. PICK over : over = Over(rec, result, status)
  OBVIOUS
<1>2. over \in CallRecords /\ over.step = "idle" /\ over.reached = rec.reached /\ over.sure = rec.sure
      /\ over.result = result /\ over.known = rec.known
  BY <1>1 DEF Over, CallRecords, Outcomes
<1>3. CASE Becomes(t, over)
  BY <1>1, <1>2, <1>3
<1>4. CASE ~Becomes(t, over)
  <2>1. PICK h \in Hosts : Becomes(t,
          [[rec EXCEPT !.step = "check", !.region = 2, !.answers = <<>>, !.streak = 0] EXCEPT !.host = h])
    BY <1>1, <1>4 DEF Ends, Becomes, Over
  <2>2. rec.kind = "mail" /\ result \in {"error", "raw"}
    BY <1>1, <1>4 DEF Ends, Becomes, Over
  <2>3. PICK r : r = [[rec EXCEPT !.step = "check", !.region = 2, !.answers = <<>>, !.streak = 0] EXCEPT !.host = h]
    OBVIOUS
  <2>4. <<>> \in Seq(Replies) /\ Len(<<>>) = 0
    BY NoAnswers
  <2>0. PICK e \in Seq(Replies) : e = <<>> /\ Len(e) = 0
    BY <2>4
  <2>5. PICK v : v = [rec EXCEPT !.step = "check", !.region = 2, !.answers = e, !.streak = 0]
    OBVIOUS
  <2>6. v \in CallRecords /\ v.step = "check" /\ v.answers = e /\ v.streak = 0 /\ v.kind = rec.kind
        /\ v.reached = rec.reached /\ v.sure = rec.sure /\ v.result = "none" /\ v.known = rec.known
    <3>1. 2 \in 1..2 /\ 0 \in Nat /\ rec.result = "none"
      OBVIOUS
    <3>2. v.step = "check" /\ v.answers = e /\ v.streak = 0 /\ v.kind = rec.kind
          /\ v.reached = rec.reached /\ v.sure = rec.sure /\ v.result = "none" /\ v.known = rec.known
      BY <2>5, <3>1 DEF CallRecords
    <3>3. v \in CallRecords
      BY <2>5, <3>1 DEF CallRecords
    <3> QED
      BY <3>2, <3>3
  <2>7. r = [v EXCEPT !.host = h]
    BY <2>0, <2>3, <2>5
  <2>8. r \in CallRecords /\ r.step = "check" /\ r.answers = <<>> /\ r.streak = 0 /\ r.kind = "mail"
        /\ r.reached = rec.reached /\ r.sure = rec.sure /\ r.result = "none" /\ r.known = rec.known
    BY <2>0, <2>2, <2>6, <2>7 DEF CallRecords
  <2>9. ~rec.known
    BY <1>1, <1>2, <2>2 DEF RecordFits, OnceDone
  <2>10. RecordFits(r)
    <3>1. Len(r.answers) = 0
      BY <2>4, <2>8
    <3>2. Sending(r) /\ CountFits(r)
      BY <2>8, <2>9, <3>1, OutboundConstants DEF Sending, CountFits, Once
    <3>3. OnceDone(r) /\ LastTold(r)
      BY <2>8, <2>9, <3>1 DEF OnceDone, LastTold, Once
    <3>4. GivesUp(r)
      BY <2>8, <3>1 DEF GivesUp
    <3> QED
      BY <3>2, <3>3, <3>4 DEF RecordFits
  <2> QED
    BY <2>1, <2>3, <2>8, <2>10
<1> QED
  BY <1>3, <1>4

\* What one answer adds to a call.
Answered(c, rec, status, body) ==
    /\ rec.kind = c.kind /\ rec.step = "send" /\ rec.result = "none" /\ rec.prior = c.prior
    /\ rec.host = c.host
    /\ rec.answers = Append(c.answers, status)
    /\ rec.streak = (IF status \in Retryable(c.kind) /\ Len(c.answers) + 1 < Attempts(c.kind)
                     THEN StreakAfter(c, status) ELSE 0)
    /\ ~Once(c.kind) => rec.taken \in 0..2
    /\ Once(c.kind) => rec.taken \in 0..1
    /\ rec.known <=> status = 200 /\ body = "read"
    /\ rec.read <=> body = "read"

LEMMA AppendIs ==
    ASSUME NEW s \in Seq(Replies), NEW x \in Replies
    PROVE  /\ Append(s, x) \in Seq(Replies) /\ Len(Append(s, x)) = Len(s) + 1 /\ Len(s) \in Nat
           /\ Append(s, x)[Len(s) + 1] = x /\ \A i \in 1..Len(s) : Append(s, x)[i] = s[i]
           /\ Append(s, x) # <<>>
           /\ \A i \in 1..Len(s) : s[i] \in Nat
           /\ x \in Nat
BY DEF Replies, Statuses, Lost

\* The result that the loop comes to.
Concluded(c, rec, status, body, result) ==
    /\ rec.known <=> result = "ok"
    /\ c.kind = "mail" /\ result = "error" /\ body = "read" =>
          \/ status \notin {Lost, 429, 500, 503}
          \/ Len(c.answers) + 1 = MaxTries
          \/ rec.streak >= 2

LEMMA OverFits ==
    ASSUME NEW c \in CallRecords, c.step = "send", RecordFits(c),
           NEW rec \in CallRecords, NEW status \in Replies, NEW body,
           Answered(c, rec, status, body),
           NEW result \in Outcomes,
           Concluded(c, rec, status, body, result)
    PROVE  RecordFits(Over(rec, result, status))
<1>1. PICK over : over = Over(rec, result, status)
  OBVIOUS
<1>2. PICK s \in Seq(Replies) : s = c.answers
  BY DEF CallRecords
<1>3. PICK n \in Nat : n = Len(s)
  OBVIOUS
<1>4. /\ over.step = "idle" /\ over.result = result /\ over.status = status /\ over.kind = c.kind
      /\ over.answers = Append(s, status) /\ over.streak = rec.streak /\ over.taken = rec.taken
      /\ over.known = rec.known /\ over.read = rec.read
  BY <1>1, <1>2 DEF Over, CallRecords, Answered
<1>5. /\ Len(over.answers) = n + 1 /\ over.answers # <<>> /\ over.answers[n + 1] = status
      /\ \A i \in 1..n : over.answers[i] = s[i] /\ s[i] \in Nat
      /\ status \in Nat
  BY <1>2, <1>3, <1>4, AppendIs
<1>6. /\ n < Attempts(c.kind) /\ Attempts(c.kind) \in {MaxTries, 1} /\ (Once(c.kind) => Attempts(c.kind) = 1)
      /\ c.streak \in Nat /\ c.streak <= n /\ rec.streak \in Nat
  BY <1>2, <1>3 DEF RecordFits, Sending, CountFits, Attempts, Once, CallRecords
<1>7. rec.streak <= n + 1 /\ (rec.streak >= 2 => status >= 500 /\ c.streak >= 1)
  BY <1>5, <1>6 DEF Answered, StreakAfter
<1>8. CountFits(over)
  BY <1>4, <1>5, <1>6, <1>7, OutboundConstants DEF CountFits
<1>9. OnceDone(over)
  <2>1. Once(c.kind) => rec.taken <= 1 /\ n + 1 <= 1
    BY <1>6 DEF Answered
  <2> QED
    BY <1>4, <1>5, <2>1 DEF OnceDone, Concluded
<1>10. LastTold(over)
  BY <1>4, <1>5 DEF LastTold
<1>11. GivesUp(over)
  <2> SUFFICES ASSUME c.kind = "mail"
               PROVE  /\ \A i \in 1..(n + 1) - 2 : ~(over.answers[i] >= 500 /\ over.answers[i + 1] >= 500)
                      /\ result = "error" /\ body = "read" /\ 0 < n + 1 /\ n + 1 < MaxTries
                            => \/ over.answers[n + 1] \notin {Lost, 429, 500, 503}
                               \/ n + 1 > 1 /\ over.answers[n + 1] >= 500 /\ over.answers[(n + 1) - 1] >= 500
    BY <1>4, <1>5 DEF GivesUp, Answered
  <2>0. ~Doubled(s, n)
    BY <1>2, <1>3 DEF RecordFits, Sending
  <2>1. \A i \in 1..n - 1 : ~(s[i] >= 500 /\ s[i + 1] >= 500)
    BY <2>0 DEF Doubled
  <2>2. c.streak <= 1 /\ (c.streak = 1 => n > 0 /\ s[n] >= 500)
    BY <1>2, <1>3 DEF RecordFits, Sending
  <2>3. \A i \in 1..(n + 1) - 2 : i \in 1..n - 1 /\ i \in 1..n /\ i + 1 \in 1..n
    OBVIOUS
  <2>4. \A i \in 1..(n + 1) - 2 : ~(over.answers[i] >= 500 /\ over.answers[i + 1] >= 500)
    BY <1>5, <2>1, <2>3
  <2>5. ASSUME rec.streak >= 2
        PROVE  n + 1 > 1 /\ over.answers[n + 1] >= 500 /\ over.answers[(n + 1) - 1] >= 500
    <3>1. status >= 500 /\ c.streak = 1 /\ n > 0 /\ s[n] >= 500
      BY <1>6, <1>7, <2>2, <2>5
    <3>2. (n + 1) - 1 = n /\ n \in 1..n
      BY <3>1
    <3> QED
      BY <1>5, <3>1, <3>2
  <2> QED
    BY <1>3, <1>2, <1>5, <2>4, <2>5 DEF Concluded
<1> QED
  BY <1>1, <1>4, <1>8, <1>9, <1>10, <1>11 DEF RecordFits, Sending

\* A call that goes on after an answer.
AsksAgain(c, rec, status) ==
    /\ status = Lost \/ status \in Retryable(c.kind)
    /\ Len(c.answers) + 1 < Attempts(c.kind)
    /\ ~(c.kind = "mail" /\ rec.streak >= 2)

LEMMA AgainFits ==
    ASSUME NEW c \in CallRecords, c.step = "send", RecordFits(c),
           NEW rec \in CallRecords, NEW status \in Replies,
           Answered(c, rec, status, "read"),
           AsksAgain(c, rec, status)
    PROVE  RecordFits(rec)
<1>1. PICK s \in Seq(Replies) : s = c.answers
  BY DEF CallRecords
<1>2. PICK n \in Nat : n = Len(s)
  OBVIOUS
<1>3. /\ Len(rec.answers) = n + 1 /\ rec.answers # <<>> /\ rec.answers[n + 1] = status
      /\ \A i \in 1..n : rec.answers[i] = s[i] /\ s[i] \in Nat
      /\ status \in Nat
  BY <1>1, <1>2, AppendIs DEF Answered
<1>4. /\ n + 1 < Attempts(c.kind) /\ Attempts(c.kind) \in {MaxTries, 1} /\ ~Once(c.kind)
      /\ c.streak \in Nat /\ c.streak <= n /\ rec.streak \in Nat /\ status # 200
  <2>1. n + 1 < Attempts(c.kind)
    BY <1>1, <1>2 DEF AsksAgain
  <2>2. Attempts(c.kind) \in {MaxTries, 1} /\ (Once(c.kind) => Attempts(c.kind) = 1)
    BY DEF Attempts, Once
  <2>3. c.streak \in Nat /\ c.streak <= n /\ rec.streak \in Nat
    BY <1>1, <1>2 DEF RecordFits, CountFits, CallRecords
  <2>4. status # 200
    BY DEF AsksAgain, Retryable, Lost
  <2> QED
    BY <2>1, <2>2, <2>3, <2>4
<1>5. rec.streak = (IF status \in Retryable(c.kind) /\ status >= 500 THEN c.streak + 1 ELSE 0)
  BY <1>1, <1>2, <1>4 DEF Answered, StreakAfter
<1>6. CountFits(rec)
  BY <1>3, <1>4, <1>5, OutboundConstants DEF CountFits
<1>7. OnceDone(rec) /\ LastTold(rec)
  BY <1>4 DEF OnceDone, LastTold, Answered
<1>8. ASSUME c.kind = "mail"
      PROVE  /\ ~Doubled(rec.answers, n + 1) /\ rec.streak <= 1
             /\ rec.streak = 1 <=> status >= 500
  <2>0. ~Doubled(s, n)
    BY <1>1, <1>2, <1>8 DEF RecordFits, Sending
  <2>1. \A i \in 1..n - 1 : ~(s[i] >= 500 /\ s[i + 1] >= 500)
    BY <2>0 DEF Doubled
  <2>2. c.streak <= 1 /\ (c.streak = 1 <=> n > 0 /\ s[n] >= 500)
    BY <1>1, <1>2, <1>8 DEF RecordFits, Sending
  <2>3. rec.streak <= 1
    BY <1>4, <1>8 DEF AsksAgain
  <2>4. status >= 500 => status \in Retryable(c.kind)
    BY <1>8 DEF Retryable, Replies, Statuses, Lost
  <2>5. status >= 500 => c.streak = 0 /\ ~(n > 0 /\ s[n] >= 500)
    BY <1>4, <1>5, <2>2, <2>3, <2>4
  <2>6. ASSUME NEW i \in 1..(n + 1) - 1 PROVE ~(rec.answers[i] >= 500 /\ rec.answers[i + 1] >= 500)
    <3>1. CASE i = n
      BY <1>3, <2>5, <2>6, <3>1
    <3>2. CASE i # n
      <4>1. i \in 1..n - 1 /\ i \in 1..n /\ i + 1 \in 1..n
        BY <2>6, <3>2
      <4> QED
        BY <1>3, <2>1, <4>1
    <3> QED
      BY <3>1, <3>2
  <2> QED
    BY <1>4, <1>5, <2>3, <2>4, <2>5, <2>6 DEF Doubled
<1>9. Sending(rec)
  BY <1>3, <1>4, <1>8 DEF Sending, Answered, RecordFits
<1>10. GivesUp(rec)
  <2> SUFFICES ASSUME c.kind = "mail"
               PROVE  \A i \in 1..(n + 1) - 2 : ~(rec.answers[i] >= 500 /\ rec.answers[i + 1] >= 500)
    BY <1>3 DEF GivesUp, Answered
  <2>1. \A i \in 1..(n + 1) - 2 : i \in 1..(n + 1) - 1
    OBVIOUS
  <2> QED
    BY <1>8, <2>1 DEF Doubled
<1> QED
  BY <1>6, <1>7, <1>9, <1>10 DEF RecordFits

-----------------------------------------------------------------------------
(* Outbound calls: the steps.                                              *)

\* Addresses are only ever added to what passed, and none that is blocked.
Grows ==
    /\ approved' \in [Hosts -> SUBSET Ips]
    /\ \A h \in Hosts : approved[h] \subseteq approved'[h] /\ approved'[h] \intersect Blocked = {}

\* The pins and the connections of one thread.
PinsOf(t) ==
    /\ pins' \in [Threads -> [Hosts -> Ips \union {NoAddress}]]
    /\ \A u \in Threads : u # t => pins'[u] = pins[u]
KeptOf(t) ==
    /\ kept' \in [Threads -> [Hosts -> [to : Ips \union {NoAddress}, sure : BOOLEAN]]]
    /\ \A u \in Threads : u # t => kept'[u] = kept[u]
    /\ \A h \in Hosts : kept'[t][h].sure /\ kept'[t][h].to # NoAddress => kept'[t][h].to \in Checked'
Pinned(t, r) ==
    \A h \in Hosts : IF r.step = "send" /\ r.host = h /\ ~Free(h)
                     THEN pins'[t][h] \in approved'[h]
                     ELSE pins'[t][h] = NoAddress
Surely(r) == r.sure => r.reached \subseteq Checked'

LEMMA CheckedGrows ==
    ASSUME Grows
    PROVE  Checked \subseteq Checked'
<1> SUFFICES ASSUME NEW x \in Checked PROVE x \in Checked'
  OBVIOUS
<1>1. PICK S \in {approved[h] : h \in Hosts} : x \in S /\ x \notin Blocked
  BY Zenon DEF Checked
<1>2. PICK h \in Hosts : S = approved[h]
  BY Zenon
<1>3. approved'[h] \in {approved'[g] : g \in Hosts} /\ x \in approved'[h]
  BY <1>1, <1>2 DEF Grows
<1>4. x \in UNION {approved'[g] : g \in Hosts}
  BY <1>3, Zenon
<1> QED
  BY <1>1, <1>4, Zenon DEF Checked

LEMMA CallMoves ==
    ASSUME OutboundInv, NEW t \in Threads, NEW r \in CallRecords, Becomes(t, r), RecordFits(r),
           hooked' \in BOOLEAN, Grows, PinsOf(t), KeptOf(t), Pinned(t, r), Surely(r)
    PROVE  OutboundInv'
<1>1. /\ call' \in [Threads -> CallRecords] /\ call'[t] = r
      /\ \A u \in Threads : u # t => call'[u] = call[u]
  BY CallIs DEF OutboundInv
<1>2. OutboundTypes'
  BY <1>1 DEF OutboundTypes, Grows, PinsOf, KeptOf
<1>3. CallsFit'
  <2> SUFFICES ASSUME NEW u \in Threads PROVE RecordFits(call'[u])
    BY DEF CallsFit, RecordFits, Sending, CountFits, OnceDone, LastTold, GivesUp, Doubled, Attempts, Once
  <2> QED
    BY <1>1 DEF OutboundInv, CallsFit
<1>4. Checked \subseteq Checked'
  BY CheckedGrows
<1>5. AddressesFit'
  BY <1>1, <1>4 DEF OutboundInv, AddressesFit, Grows, KeptOf, Surely
<1>6. PinsFit'
  <2> SUFFICES ASSUME NEW u \in Threads, NEW h \in Hosts
               PROVE  IF call'[u].step = "send" /\ call'[u].host = h /\ ~Free(h)
                      THEN pins'[u][h] \in approved'[h]
                      ELSE pins'[u][h] = NoAddress
    BY DEF PinsFit, Free
  <2>1. CASE u = t
    BY <1>1, <2>1 DEF Pinned
  <2>2. CASE u # t
    BY <1>1, <2>2 DEF OutboundInv, PinsFit, Grows, PinsOf
  <2> QED
    BY <2>1, <2>2
<1> QED
  BY <1>2, <1>3, <1>5, <1>6 DEF OutboundInv

LEMMA StartSafe ==
    ASSUME OutboundInv, NEW t \in Threads, NEW kind \in CallKinds, NEW h \in Hosts, Start(t, kind, h)
    PROVE  OutboundInv'
<1>1. call[t].step = "idle" /\ UNCHANGED <<hooked, pins, kept, approved>>
  BY DEF Start
<1>2. PICK r : r = [Resting EXCEPT !.step = "check", !.kind = kind, !.host = h]
  OBVIOUS
<1>3. /\ r \in CallRecords /\ r.step = "check" /\ r.kind = kind /\ r.answers = <<>> /\ r.reached = {}
      /\ r.streak = 0 /\ r.result = "none" /\ ~r.known /\ r.taken = 0
  BY <1>2, RestingFits DEF CallRecords
<1>4. Becomes(t, r)
  BY <1>2 DEF Start, Becomes
<1>5. RecordFits(r)
  <2>1. Len(r.answers) = 0
    BY <1>3, NoAnswers
  <2> QED
    BY <1>3, <2>1, OutboundConstants DEF RecordFits, Sending, CountFits, OnceDone, LastTold, GivesUp, Once
<1>6. Grows /\ PinsOf(t) /\ hooked' \in BOOLEAN
  BY <1>1 DEF OutboundInv, OutboundTypes, AddressesFit, Grows, PinsOf
<1>7. KeptOf(t)
  BY <1>1 DEF OutboundInv, OutboundTypes, AddressesFit, KeptOf, Checked
<1>8. Pinned(t, r) /\ Surely(r)
  BY <1>1, <1>3 DEF OutboundInv, PinsFit, Pinned, Surely
<1> QED
  BY <1>3, <1>4, <1>5, <1>6, <1>7, <1>8, CallMoves

\* A call that is refused by the check.
LEMMA RefusedFits ==
    ASSUME NEW c \in CallRecords, RecordFits(c), c.step = "check"
    PROVE  RecordFits(Over(c, "error", Lost))
<1>1. PICK over : over = Over(c, "error", Lost)
  OBVIOUS
<1>2. /\ over.step = "idle" /\ over.result = "error" /\ over.known = c.known /\ over.kind = c.kind
      /\ over.answers = c.answers /\ over.streak = c.streak /\ over.taken = c.taken
  BY <1>1 DEF Over, CallRecords
<1>3. c.answers = <<>> /\ c.streak = 0 /\ ~c.known /\ (Once(c.kind) => c.taken = 0)
  BY DEF RecordFits, Sending
<1>4. Len(over.answers) = 0
  BY <1>2, <1>3, NoAnswers
<1>5. Sending(over) /\ CountFits(over)
  BY <1>2, <1>3, <1>4, OutboundConstants DEF Sending, CountFits
<1>6. OnceDone(over) /\ LastTold(over)
  BY <1>2, <1>3, <1>4 DEF OnceDone, LastTold
<1>7. GivesUp(over)
  BY <1>4 DEF GivesUp
<1> QED
  BY <1>1, <1>5, <1>6, <1>7 DEF RecordFits

LEMMA CheckSafe ==
    ASSUME OutboundInv, NEW t \in Threads, Check(t)
    PROVE  OutboundInv'
<1>0. OutboundTypes
  BY DEF OutboundInv
<1>1. PICK c \in CallRecords : c = call[t]
  BY <1>0, CallIs
<1>2. RecordFits(c) /\ (c.sure => c.reached \subseteq Checked)
  BY <1>1 DEF OutboundInv, CallsFit, AddressesFit
<1>3. PICK h \in Hosts : h = c.host
  BY DEF CallRecords
<1>4. c.step = "check" /\ EnsureHook(t) /\ UNCHANGED kept
  BY <1>1 DEF Check
<1>5. hooked' \in BOOLEAN
  BY <1>0, <1>4 DEF EnsureHook, OutboundTypes
<1>6. \A g \in Hosts : pins[t][g] = NoAddress
  BY <1>1, <1>4 DEF OutboundInv, PinsFit
<1>7. PICK found \in SUBSET Ips :
        \/ Ends(t, c, "error", Lost) /\ UNCHANGED <<pins, approved>>
        \/ /\ Acceptable(h, found)
           /\ \E first \in (IF Free(h) THEN {NoAddress} ELSE found) :
                /\ call' = [call EXCEPT ![t].step = "send", ![t].prior = pins[t][h]]
                /\ IF Free(h) THEN UNCHANGED pins ELSE Pin(t, h, first)
                /\ approved' = IF Free(h) THEN approved
                               ELSE [approved EXCEPT ![h] = approved[h] \union found]
  BY <1>0, <1>1, <1>3 DEF Check, OutboundTypes
<1>8. CASE Ends(t, c, "error", Lost) /\ UNCHANGED <<pins, approved>>
  <2>1. RecordFits(Over(c, "error", Lost)) /\ c.result = "none"
    BY <1>2, <1>4, RefusedFits DEF RecordFits, Sending
  <2>2. "error" \in Outcomes /\ Lost \in Replies
    BY DEF Outcomes, Replies
  <2>3. PICK r \in CallRecords : /\ Becomes(t, r) /\ RecordFits(r) /\ r.step # "send"
                                 /\ r.reached = c.reached /\ r.sure = c.sure
    BY <1>8, <2>1, <2>2, EndsFit
  <2>4. Grows /\ PinsOf(t)
    BY <1>8 DEF OutboundInv, OutboundTypes, AddressesFit, Grows, PinsOf
  <2>5. KeptOf(t)
    BY <1>4, <1>8 DEF OutboundInv, OutboundTypes, AddressesFit, KeptOf, Checked
  <2>6. Pinned(t, r)
    BY <1>6, <1>8, <2>3 DEF Pinned
  <2>7. Surely(r)
    BY <1>2, <1>8, <2>3 DEF Surely, Checked
  <2> QED
    BY <1>5, <2>3, <2>4, <2>5, <2>6, <2>7, CallMoves
<1>9. CASE ~(Ends(t, c, "error", Lost) /\ UNCHANGED <<pins, approved>>)
  <2>1. PICK first \in (IF Free(h) THEN {NoAddress} ELSE found) :
           /\ call' = [call EXCEPT ![t].step = "send", ![t].prior = pins[t][h]]
           /\ IF Free(h) THEN UNCHANGED pins ELSE Pin(t, h, first)
           /\ approved' = IF Free(h) THEN approved
                          ELSE [approved EXCEPT ![h] = approved[h] \union found]
    BY <1>7, <1>9
  <2>2. Acceptable(h, found)
    BY <1>7, <1>9
  <2>3. PICK r : r = [c EXCEPT !.step = "send", !.prior = NoAddress]
    OBVIOUS
  <2>4. /\ r \in CallRecords /\ r.step = "send" /\ r.prior = NoAddress /\ r.kind = c.kind /\ r.host = h
        /\ r.answers = c.answers /\ r.streak = c.streak /\ r.taken = c.taken /\ r.known = c.known
        /\ r.result = c.result /\ r.reached = c.reached /\ r.sure = c.sure
    BY <1>3, <2>3 DEF CallRecords
  <2>5. Becomes(t, r)
    <3>1. call \in [Threads -> CallRecords]
      BY <1>0 DEF OutboundTypes
    <3> QED
      BY <1>1, <1>3, <1>6, <2>1, <2>3, <3>1 DEF Becomes
  <2>6. RecordFits(r)
    <3>1. c.answers = <<>> /\ c.streak = 0 /\ ~c.known /\ (Once(c.kind) => c.taken = 0) /\ c.result = "none"
      BY <1>2, <1>4 DEF RecordFits, Sending
    <3>2. Len(r.answers) = 0
      BY <2>4, <3>1, NoAnswers
    <3>3. 0 < Attempts(c.kind)
      BY OutboundConstants DEF Attempts
    <3>4. Sending(r)
      BY <2>4, <3>1, <3>2, <3>3 DEF Sending, Doubled
    <3> QED
      BY <2>4, <3>1, <3>2, <3>4, OutboundConstants
      DEF RecordFits, CountFits, OnceDone, LastTold, GivesUp, Once
  <2>7. CASE Free(h)
    <3>1. UNCHANGED <<pins, approved>>
      BY <2>1, <2>7
    <3>2. Grows /\ PinsOf(t)
      BY <3>1 DEF OutboundInv, OutboundTypes, AddressesFit, Grows, PinsOf
    <3>3. KeptOf(t)
      BY <1>4, <3>1 DEF OutboundInv, OutboundTypes, AddressesFit, KeptOf, Checked
    <3>4. Pinned(t, r)
      BY <1>6, <2>4, <2>7, <3>1 DEF Pinned
    <3>5. Surely(r)
      BY <1>2, <2>4, <3>1 DEF Surely, Checked
    <3> QED
      BY <1>5, <2>4, <2>5, <2>6, <3>2, <3>3, <3>4, <3>5, CallMoves
  <2>8. CASE ~Free(h)
    <3>1. /\ first \in found /\ first \in Ips /\ found \intersect Blocked = {}
          /\ pins' = [pins EXCEPT ![t][h] = first]
          /\ approved' = [approved EXCEPT ![h] = approved[h] \union found]
      BY <2>1, <2>2, <2>8 DEF Acceptable, Public, Pin
    <3>2. Grows /\ \A g \in Hosts : g = h => approved'[g] = approved[g] \union found
      BY <1>0, <3>1 DEF OutboundInv, OutboundTypes, AddressesFit, Grows
    <3>3. PinsOf(t) /\ pins'[t][h] = first /\ \A g \in Hosts : g # h => pins'[t][g] = pins[t][g]
      BY <1>0, <3>1 DEF OutboundTypes, PinsOf
    <3>4. Checked \subseteq Checked'
        BY <3>2, CheckedGrows
    <3>5. KeptOf(t)
      BY <1>0, <1>4, <3>4 DEF OutboundInv, OutboundTypes, AddressesFit, KeptOf
    <3>6. Pinned(t, r)
      BY <1>6, <2>4, <2>8, <3>1, <3>2, <3>3 DEF Pinned
    <3>7. Surely(r)
      BY <1>2, <2>4, <3>4 DEF Surely
    <3> QED
      BY <1>5, <2>4, <2>5, <2>6, <3>2, <3>3, <3>5, <3>6, <3>7, CallMoves
  <2> QED
    BY <2>7, <2>8
<1> QED
  BY <1>8, <1>9

\* The outcome of an attempt: the call ends, or asks again.
AttemptOf(t, c, rec, a, status, body) ==
    /\ Answered(c, rec, status, body)
    /\ \/ \E result \in Outcomes :
             Concluded(c, rec, status, body, result) /\ Ends(t, rec, result, status)
       \/ body = "read" /\ AsksAgain(c, rec, status) /\ Becomes(t, rec)
    /\ rec.reached = c.reached \union {a}
    /\ rec.sure = (c.sure /\ hooked /\ kept[t][c.host].sure /\ c.host \notin Bridges)
    /\ \E keeps \in BOOLEAN :
          kept' = [kept EXCEPT ![t][c.host] = IF keeps THEN [to |-> a, sure |-> rec.sure]
                                              ELSE NoConnection]

LEMMA AttemptIs ==
    ASSUME OutboundInv, NEW t \in Threads, NEW c \in CallRecords, c = call[t], Attempt(t)
    PROVE  \E a \in Reachable(t, c.host), status \in Replies, body \in {"read", "refused", "broken"},
              rec \in CallRecords : AttemptOf(t, c, rec, a, status, body)
<1>0. /\ OutboundTypes /\ RecordFits(c) /\ c.step = "send" /\ c.host \in Hosts
  BY DEF OutboundInv, CallsFit, Attempt, CallRecords
<1>1. PICK a \in Reachable(t, c.host), status \in Replies, body \in {"read", "refused", "broken"},
           did \in BOOLEAN, keeps \in BOOLEAN :
         /\ status = Lost => body = "read"
         /\ kept' = [kept EXCEPT ![t][c.host] =
                       IF keeps THEN [to |-> a, sure |-> Heard(t, a, status, body, did).sure] ELSE NoConnection]
         /\ Judged(t, Heard(t, a, status, body, did), status, body)
  <2>1. \E a \in Reachable(t, call[t].host), status \in Statuses \union {Lost},
          body \in {"read", "refused", "broken"}, did \in BOOLEAN, keeps \in BOOLEAN :
             /\ status = 200 => did
             /\ status = Lost => body = "read" /\ ~keeps
             /\ kept' = [kept EXCEPT ![t][call[t].host] =
                           IF keeps THEN [to |-> a, sure |-> Heard(t, a, status, body, did).sure]
                           ELSE NoConnection]
             /\ Judged(t, Heard(t, a, status, body, did), status, body)
    BY Zenon DEF Attempt
  <2>2. PICK a \in Reachable(t, call[t].host), status \in Statuses \union {Lost},
          body \in {"read", "refused", "broken"}, did \in BOOLEAN, keeps \in BOOLEAN :
             /\ status = 200 => did
             /\ status = Lost => body = "read" /\ ~keeps
             /\ kept' = [kept EXCEPT ![t][call[t].host] =
                           IF keeps THEN [to |-> a, sure |-> Heard(t, a, status, body, did).sure]
                           ELSE NoConnection]
             /\ Judged(t, Heard(t, a, status, body, did), status, body)
    BY <2>1, Zenon
  <2>3. a \in Reachable(t, c.host) /\ status \in Replies /\ c.host = call[t].host
    BY Zenon DEF Replies
  <2> QED
    BY <2>2, <2>3, Zenon
<1>2. PICK rec : rec = Heard(t, a, status, body, did)
  OBVIOUS
<1>3. /\ c.known = FALSE /\ c.result = "none" /\ (Once(c.kind) => c.taken = 0)
      /\ c.taken \in 0..2 /\ c.streak \in Nat /\ c.answers \in Seq(Replies) /\ c.reached \subseteq Ips
  BY <1>0 DEF RecordFits, Sending, CallRecords
<1>4. PICK sure \in BOOLEAN : sure = (c.sure /\ hooked /\ kept[t][c.host].sure /\ c.host \notin Bridges)
  OBVIOUS
<1>5. PICK known \in BOOLEAN : known = (c.known \/ (status = 200 /\ body = "read"))
  OBVIOUS
<1>6. PICK read \in BOOLEAN : read = (body = "read")
  OBVIOUS
<1>7. PICK taken \in 0..2 : /\ taken = IF did /\ Once(c.kind) /\ c.taken < 2 THEN c.taken + 1 ELSE c.taken
                            /\ Once(c.kind) => taken \in 0..1
  BY <1>3
<1>8. PICK streak \in Nat : streak = IF status \in Retryable(c.kind) /\ More(c) THEN StreakAfter(c, status) ELSE 0
  BY <1>3 DEF StreakAfter
<1>9. PICK answers \in Seq(Replies) : answers = Append(c.answers, status)
  BY <1>3, AppendIs
<1>10. a \in Ips
  BY <1>0, OutboundConstants DEF Reachable, OutboundTypes
<1>11. rec = [c EXCEPT !.answers = answers, !.streak = streak, !.taken = taken, !.known = known,
                       !.reached = c.reached \union {a}, !.sure = sure, !.read = read]
  BY <1>2, <1>4, <1>5, <1>6, <1>7, <1>8, <1>9 DEF Heard
<1>12. rec \in CallRecords
  BY <1>3, <1>10, <1>11 DEF CallRecords
<1>13. /\ rec.answers = answers /\ rec.streak = streak /\ rec.taken = taken /\ rec.known = known
       /\ rec.reached = c.reached \union {a} /\ rec.sure = sure /\ rec.read = read
       /\ rec.kind = c.kind /\ rec.step = c.step /\ rec.result = c.result /\ rec.prior = c.prior
       /\ rec.host = c.host
  BY <1>11 DEF CallRecords
<1>14. Answered(c, rec, status, body)
  BY <1>0, <1>3, <1>5, <1>6, <1>7, <1>8, <1>9, <1>13 DEF Answered, More
<1>15. \/ \E result \in Outcomes :
             Concluded(c, rec, status, body, result) /\ Ends(t, rec, result, status)
       \/ body = "read" /\ AsksAgain(c, rec, status) /\ Becomes(t, rec)
  <2>1. /\ Judged(t, rec, status, body) /\ (status = Lost => body = "read")
        /\ rec.known <=> status = 200 /\ body = "read"
        /\ rec.kind = c.kind
    BY <1>1, <1>2, <1>3, <1>5, <1>13
  <2>2. PICK again \in BOOLEAN : again = (More(c) /\ (status = Lost \/ status \in Retryable(c.kind)))
    OBVIOUS
  <2>3. again => status # 200
    <3>1. Retryable(c.kind) \subseteq {429, 500, 503}
      BY DEF Retryable
    <3>2. 200 \notin {429, 500, 503} /\ Lost # 200
      BY DEF Lost
    <3>3. ASSUME again PROVE status # 200
      <4>1. status = Lost \/ status \in Retryable(c.kind)
        BY <2>2, <3>3
      <4>2. CASE status = Lost
        BY <3>2, <4>2, Zenon
      <4>3. CASE status \in Retryable(c.kind)
        <5>1. status \in {429, 500, 503}
          BY <3>1, <4>3, Zenon
        <5> QED
          BY <5>1
      <4> QED
        BY <4>1, <4>2, <4>3
    <3> QED
      BY <3>3
  <2>4. CASE body = "refused" /\ Ends(t, rec, "error", status)
    BY <2>1, <2>4 DEF Concluded, Outcomes
  <2>5. CASE body = "broken" /\ Ends(t, rec, "raw", status)
    BY <2>1, <2>5 DEF Concluded, Outcomes
  <2>6. CASE body = "read" /\ ~again
    <3>1. status = 200 /\ Ends(t, rec, "ok", status) => Concluded(c, rec, status, body, "ok")
      BY <2>1, <2>6 DEF Concluded
    <3>2. status # 200 => Concluded(c, rec, status, body, "raw")
      BY <2>1 DEF Concluded
    <3>3. status # 200 => Concluded(c, rec, status, body, "error")
      <4>1. c.kind = "mail" /\ ~(status = Lost \/ status \in Retryable(c.kind)) => status \notin {Lost, 429, 500, 503}
        BY DEF Retryable
      <4>2. c.kind = "mail" /\ ~More(c) => Len(c.answers) + 1 = MaxTries
        <5>1. Len(c.answers) < Attempts(c.kind) /\ Len(c.answers) \in Nat
          BY <1>0, <1>3, AppendIs DEF RecordFits, Sending
        <5> QED
          BY <5>1, OutboundConstants DEF More, Attempts
      <4> QED
        BY <2>1, <2>2, <2>6, <4>1, <4>2 DEF Concluded
    <3>4. \/ status = 200 /\ Ends(t, rec, "ok", status)
          \/ status # 200 /\ (Ends(t, rec, "raw", status) \/ Ends(t, rec, "error", status))
      BY <2>1, <2>2, <2>6 DEF Judged
    <3> QED
      BY <3>1, <3>2, <3>3, <3>4 DEF Outcomes
  <2>7. CASE body = "read" /\ again
    <3>1. status # 200 => Concluded(c, rec, status, body, "value error")
      BY <2>1 DEF Concluded
    <3>2. status # 200 /\ rec.streak >= 2 => Concluded(c, rec, status, body, "error")
      BY <2>1 DEF Concluded
    <3>3. \/ rec.streak >= 2 /\ Ends(t, rec, "error", status)
          \/ Ends(t, rec, "value error", status)
          \/ ~(c.kind = "mail" /\ rec.streak >= 2) /\ Becomes(t, rec)
      BY <2>1, <2>2, <2>7 DEF Judged, Becomes
    <3>4. ~(c.kind = "mail" /\ rec.streak >= 2) => AsksAgain(c, rec, status)
      BY <2>2, <2>7 DEF AsksAgain, More
    <3> QED
      BY <2>3, <2>7, <3>1, <3>2, <3>3, <3>4 DEF Outcomes
  <2> QED
    BY <2>1, <2>2, <2>4, <2>5, <2>6, <2>7 DEF Judged
<1>16. \E keep \in BOOLEAN :
          kept' = [kept EXCEPT ![t][c.host] = IF keep THEN [to |-> a, sure |-> rec.sure]
                                              ELSE NoConnection]
  BY <1>1, <1>2
<1>17. AttemptOf(t, c, rec, a, status, body)
  BY <1>4, <1>13, <1>14, <1>15, <1>16 DEF AttemptOf
<1> QED
  BY <1>12, <1>17

LEMMA AttemptSafe ==
    ASSUME OutboundInv, NEW t \in Threads, Attempt(t)
    PROVE  OutboundInv'
<1>0. OutboundTypes
  BY DEF OutboundInv
<1>1. PICK c \in CallRecords : c = call[t]
  BY <1>0, CallIs
<1>2. PICK a \in Reachable(t, c.host), status \in Replies, body \in {"read", "refused", "broken"},
           rec \in CallRecords : AttemptOf(t, c, rec, a, status, body)
  BY <1>1, AttemptIs
<1>3. PICK h \in Hosts : h = c.host
  BY DEF CallRecords
<1>4. /\ c.step = "send" /\ UNCHANGED <<hooked, approved>>
      /\ IF call'[t].step = "send" THEN UNCHANGED pins ELSE Pin(t, h, c.prior)
  BY <1>1, <1>3 DEF Attempt
<1>5. RecordFits(c) /\ (c.sure => c.reached \subseteq Checked) /\ c.prior = NoAddress
  BY <1>1, <1>4 DEF OutboundInv, CallsFit, AddressesFit, RecordFits, Sending
<1>6. /\ \A g \in Hosts : g # h => pins[t][g] = NoAddress
      /\ IF Free(h) THEN pins[t][h] = NoAddress ELSE pins[t][h] \in approved[h]
  BY <1>1, <1>3, <1>4 DEF OutboundInv, PinsFit
<1>7. Checked' = Checked
  BY <1>4 DEF Checked
<1>8. a \in Ips /\ rec.reached = c.reached \union {a}
  BY <1>0, <1>2, <1>3, OutboundConstants DEF Reachable, OutboundTypes, AttemptOf
<1>9. rec.sure => a \in Checked
  <2> SUFFICES ASSUME rec.sure PROVE a \in Checked
    OBVIOUS
  <2>1. hooked /\ kept[t][h].sure /\ h \notin Bridges
    BY <1>2, <1>3 DEF AttemptOf
  <2>2. pins[t][h] \in approved[h] /\ approved[h] \subseteq Ips /\ approved[h] \intersect Blocked = {}
    BY <1>0, <1>6, <2>1 DEF Free, OutboundInv, OutboundTypes, AddressesFit
  <2>3. pins[t][h] # NoAddress
    BY <2>2, OutboundConstants
  <2>4. CASE a = kept[t][h].to /\ a # NoAddress
    BY <2>1, <2>4 DEF OutboundInv, AddressesFit
  <2>5. CASE a = pins[t][h]
    BY <2>2, <2>5 DEF Checked
  <2> QED
    BY <1>2, <1>3, <2>1, <2>3, <2>4, <2>5 DEF Reachable
<1>10. rec.sure => rec.reached \subseteq Checked
  BY <1>2, <1>5, <1>8, <1>9 DEF AttemptOf
<1>11. Grows /\ hooked' \in BOOLEAN
  BY <1>4 DEF OutboundInv, OutboundTypes, AddressesFit, Grows
<1>12. KeptOf(t)
  <2>1. PICK keeps \in BOOLEAN :
          kept' = [kept EXCEPT ![t][h] = IF keeps THEN [to |-> a, sure |-> rec.sure] ELSE NoConnection]
    BY <1>2, <1>3 DEF AttemptOf
  <2>2. PICK k : k = IF keeps THEN [to |-> a, sure |-> rec.sure] ELSE NoConnection
    OBVIOUS
  <2>3. rec.sure \in BOOLEAN
    BY DEF CallRecords
  <2>4. k \in [to : Ips \union {NoAddress}, sure : BOOLEAN] /\ (k.sure /\ k.to # NoAddress => k.to \in Checked)
    BY <1>8, <1>9, <2>2, <2>3 DEF NoConnection
  <2>5. kept \in [Threads -> [Hosts -> [to : Ips \union {NoAddress}, sure : BOOLEAN]]]
    BY <1>0 DEF OutboundTypes
  <2>6. kept' = [kept EXCEPT ![t][h] = k]
    BY <2>1, <2>2
  <2>7. /\ kept' \in [Threads -> [Hosts -> [to : Ips \union {NoAddress}, sure : BOOLEAN]]]
        /\ \A u \in Threads : u # t => kept'[u] = kept[u]
        /\ kept'[t][h] = k /\ \A g \in Hosts : g # h => kept'[t][g] = kept[t][g]
    BY <2>4, <2>5, <2>6
  <2>8. \A g \in Hosts : kept[t][g].sure /\ kept[t][g].to # NoAddress => kept[t][g].to \in Checked
    BY DEF OutboundInv, AddressesFit
  <2> QED
    BY <1>7, <2>4, <2>7, <2>8 DEF KeptOf
<1>13. PICK r \in CallRecords :
         /\ Becomes(t, r) /\ RecordFits(r) /\ r.reached = rec.reached /\ r.sure = rec.sure
         /\ r.step = "send" => r.host = h
  <2>1. CASE \E result \in Outcomes :
               Concluded(c, rec, status, body, result) /\ Ends(t, rec, result, status)
    <3>1. PICK result \in Outcomes : Concluded(c, rec, status, body, result) /\ Ends(t, rec, result, status)
      BY <2>1
    <3>2. Answered(c, rec, status, body) /\ rec.result = "none"
      BY <1>2 DEF AttemptOf, Answered
    <3>3. RecordFits(Over(rec, result, status))
      BY <1>4, <1>5, <3>1, <3>2, OverFits
    <3> QED
      BY <3>1, <3>2, <3>3, EndsFit
  <2>2. CASE body = "read" /\ AsksAgain(c, rec, status) /\ Becomes(t, rec)
    <3>1. Answered(c, rec, status, "read") /\ rec.host = h
      BY <1>2, <1>3, <2>2 DEF AttemptOf, Answered
    <3>2. RecordFits(rec)
      BY <1>4, <1>5, <2>2, <3>1, AgainFits
    <3> QED
      BY <2>2, <3>1, <3>2
  <2> QED
    BY <1>2, <2>1, <2>2 DEF AttemptOf
<1>14. call'[t] = r
  BY <1>0, <1>13, CallIs
<1>15. PinsOf(t) /\ Pinned(t, r)
  <2>1. pins \in [Threads -> [Hosts -> Ips \union {NoAddress}]]
    BY <1>0 DEF OutboundTypes
  <2>2. CASE r.step = "send"
    <3>1. pins' = pins /\ r.host = h
      BY <1>4, <1>13, <1>14, <2>2
    <3> QED
      BY <1>4, <1>6, <2>1, <2>2, <3>1 DEF PinsOf, Pinned
  <2>3. CASE r.step # "send"
    <3>1. pins' = [pins EXCEPT ![t][h] = NoAddress]
      BY <1>4, <1>5, <1>14, <2>3 DEF Pin
    <3>2. /\ pins' \in [Threads -> [Hosts -> Ips \union {NoAddress}]]
          /\ \A u \in Threads : u # t => pins'[u] = pins[u]
          /\ pins'[t][h] = NoAddress /\ \A g \in Hosts : g # h => pins'[t][g] = pins[t][g]
      BY <2>1, <3>1
    <3> QED
      BY <1>6, <2>3, <3>2 DEF PinsOf, Pinned
  <2> QED
    BY <2>2, <2>3
<1>16. Surely(r)
  BY <1>7, <1>10, <1>13 DEF Surely
<1> QED
  BY <1>11, <1>12, <1>13, <1>15, <1>16, CallMoves

LEMMA OutboundInvInit == OutboundInit => OutboundInv
<1> SUFFICES ASSUME OutboundInit PROVE OutboundInv
  OBVIOUS
<1>1. OutboundTypes
  BY RestingFits DEF OutboundInit, OutboundTypes, NoConnection
<1>2. CallsFit
  BY RestingFits DEF OutboundInit, CallsFit
<1>3. AddressesFit
  BY RestingFits DEF OutboundInit, AddressesFit, NoConnection
<1>4. PinsFit
  BY RestingFits DEF OutboundInit, PinsFit
<1> QED
  BY <1>1, <1>2, <1>3, <1>4 DEF OutboundInv

LEMMA OutboundInvStep ==
    ASSUME OutboundInv, [OutboundNext]_outboundVars
    PROVE  OutboundInv'
<1>1. ASSUME UNCHANGED <<pins, kept, call, approved>>, hooked' \in BOOLEAN PROVE OutboundInv'
  <2>1. OutboundTypes'
    BY <1>1 DEF OutboundInv, OutboundTypes
  <2>2. CallsFit'
    <3> SUFFICES ASSUME NEW t \in Threads PROVE RecordFits(call'[t])
      BY DEF CallsFit, RecordFits, Sending, CountFits, OnceDone, LastTold, GivesUp, Doubled, Attempts, Once
    <3> QED
      BY <1>1 DEF OutboundInv, CallsFit
  <2>3. AddressesFit'
    BY <1>1 DEF OutboundInv, AddressesFit, Checked
  <2>4. PinsFit'
    BY <1>1 DEF OutboundInv, PinsFit, Free
  <2> QED
    BY <2>1, <2>2, <2>3, <2>4 DEF OutboundInv
<1>2. CASE UNCHANGED outboundVars
  BY <1>1, <1>2 DEF outboundVars, OutboundInv, OutboundTypes
<1>3. CASE ReplaceResolver
  BY <1>1, <1>3 DEF ReplaceResolver
<1>4. ASSUME NEW t \in Threads, NEW kind \in CallKinds, NEW h \in Hosts, Start(t, kind, h) PROVE OutboundInv'
  BY <1>4, StartSafe
<1>5. ASSUME NEW t \in Threads, Check(t) PROVE OutboundInv'
  BY <1>5, CheckSafe
<1>6. ASSUME NEW t \in Threads, Attempt(t) PROVE OutboundInv'
  BY <1>6, AttemptSafe
<1> QED
  BY <1>2, <1>3, <1>4, <1>5, <1>6 DEF OutboundNext

LEMMA OutboundFollows ==
    ASSUME OutboundInv
    PROVE  OutboundKept
<1>1. \A t \in Threads : call[t] \in CallRecords /\ RecordFits(call[t])
  BY DEF OutboundInv, OutboundTypes, CallsFit
<1>2. OutboundTypeOK
  <2> SUFFICES ASSUME NEW t \in Threads
               PROVE  /\ call[t].step \in {"idle", "check", "send"}
                      /\ call[t].kind \in CallKinds /\ call[t].host \in Hosts /\ call[t].region \in 1..2
                      /\ Len(call[t].answers) <= MaxTries /\ call[t].streak \in 0..MaxTries
                      /\ call[t].result \in {"none", "ok", "refused", "error", "raw", "value error"}
    BY DEF OutboundInv, OutboundTypes, OutboundTypeOK
  <2>1. PICK c \in CallRecords : c = call[t] /\ RecordFits(c)
    BY <1>1
  <2>2. Len(c.answers) <= MaxTries /\ c.streak <= Len(c.answers) /\ c.streak \in Nat /\ Len(c.answers) \in Nat
    <3>1. PICK s \in Seq(Replies) : s = c.answers
      BY DEF CallRecords
    <3>2. Len(s) \in Nat
      BY <3>1
    <3> QED
      BY <2>1, <3>1, <3>2 DEF RecordFits, CountFits, CallRecords
  <2>3. c.streak \in 0..MaxTries
    BY <2>2, OutboundConstants
  <2> QED
    BY <2>1, <2>2, <2>3 DEF CallRecords
<1>3. ReachesWhatItChecked
  BY DEF OutboundInv, AddressesFit, Checked, ReachesWhatItChecked
<1>4. PinsEnd
  BY DEF OutboundInv, PinsFit, PinsEnd
<1>5. DoneIsDone
  BY <1>1 DEF DoneIsDone, RecordFits, OnceDone
<1>6. LastAnswerTold
  BY <1>1 DEF LastAnswerTold, RecordFits, LastTold
<1>7. GivesUpInTime
  BY <1>1 DEF GivesUpInTime, RecordFits, GivesUp
<1> QED
  BY <1>2, <1>3, <1>4, <1>5, <1>6, <1>7 DEF OutboundKept

\* While the resolver's hook is in place a call reaches only addresses that passed the check
\* of a host, its pins end with it, what must not be done twice is asked for once, a failure is
\* told by its last answer, and a mail is given up after two 5xx in a row and not before
\* (resolve_safe_outbound_url, pin, dispatch_loop, MailgunClient.send).
THEOREM OutboundKeptAlways == OutboundSpec => []OutboundKept
<1>1. OutboundInv /\ [OutboundNext]_outboundVars => OutboundInv'
  BY OutboundInvStep
<1>2. OutboundInv => OutboundKept
  BY OutboundFollows
<1> QED
  BY <1>1, <1>2, OutboundInvInit, PTL DEF OutboundSpec

-----------------------------------------------------------------------------
(* Rate limits: places.                                                    *)

\* A set of naturals has a least member, and a bounded one a greatest.
LEMMA LeastOf ==
    ASSUME NEW S \in SUBSET Nat, S # {}
    PROVE  \E n \in S : \A k \in S : n <= k
<1>1. IsWellFoundedOn(OpToRel(<, Nat), Nat)
  BY NatLessThanWellFounded
<1>2. \E n \in S : \A k \in S : ~(<<k, n>> \in OpToRel(<, Nat))
  BY <1>1, WFMin
<1>3. PICK n \in S : \A k \in S : ~(k < n)
  BY <1>2 DEF OpToRel
<1> QED
  BY <1>3

LEMMA GreatestOf ==
    ASSUME NEW S \in SUBSET Nat, S # {}, NEW bound \in Nat, \A n \in S : n <= bound
    PROVE  \E top \in S : \A n \in S : n <= top
<1> DEFINE gaps == {bound - n : n \in S}
<1>1. \A n \in S : n \in Nat /\ bound - n \in Nat
  OBVIOUS
<1>2. gaps \in SUBSET Nat /\ gaps # {}
  BY <1>1
<1>3. PICK g \in gaps : \A h \in gaps : g <= h
  BY <1>2, LeastOf
<1>4. PICK top \in S : g = bound - top
  OBVIOUS
<1>5. ASSUME NEW n \in S PROVE n <= top
  <2>1. bound - n \in gaps
    OBVIOUS
  <2>2. bound - top <= bound - n
    BY <2>1, <1>3, <1>4
  <2> QED
    BY <2>2, <1>1
<1> QED
  BY <1>5

-----------------------------------------------------------------------------
(* Rate limits: logs.                                                      *)

\* The oldest attempt comes first.
InOrder(log) == \A i, k \in 1..Len(log) : i <= k => log[i] >= log[k]
Young(log, age) == Len(Within(log, age))

\* Where the younger ones begin.
Begins(log, age, p) ==
    /\ p \in 1..(Len(log) + 1)
    /\ \A i \in 1..Len(log) : IF i < p THEN log[i] >= age ELSE log[i] < age

LEMMA FromIs ==
    ASSUME NEW log \in Seq(Nat), NEW age \in Nat, InOrder(log)
    PROVE  Begins(log, age, From(log, age))
<1> DEFINE S == {i \in 1..(Len(log) + 1) : \A k \in i..Len(log) : log[k] < age}
<1>1. Len(log) \in Nat /\ \A i \in 1..Len(log) : log[i] \in Nat
  OBVIOUS
<1>2. S \in SUBSET Nat /\ Len(log) + 1 \in S
  BY <1>1
<1>3. PICK p \in S : \A k \in S : p <= k
  BY <1>2, LeastOf
<1>4. Min(S) \in S /\ \A k \in S : Min(S) <= k
  BY <1>3 DEF Min
<1>5. From(log, age) = Min(S)
  BY DEF From
<1> DEFINE q == Min(S)
<1>6. q \in S /\ q \in 1..(Len(log) + 1) /\ \A k \in q..Len(log) : log[k] < age
  BY <1>4
<1>9. \A k \in S : q <= k
  BY <1>4
<1> HIDE DEF q
<1>7. ASSUME NEW i \in 1..Len(log), i < q PROVE log[i] >= age
  <2>1. q - 1 \in 1..(Len(log) + 1) /\ q \in Nat
    BY <1>6, <1>7, <1>1
  <2>4. q - 1 \notin S
    <3> HIDE DEF S
    <3> QED
      BY <1>9, <2>1
  <2>2. PICK k \in (q - 1)..Len(log) : ~(log[k] < age)
    BY <2>1, <2>4
  <2>3. k = q - 1 /\ k \in 1..Len(log) /\ i <= k
    BY <2>1, <2>2, <1>6, <1>7, <1>1
  <2> QED
    BY <2>2, <2>3, <1>1 DEF InOrder
<1>8. ASSUME NEW i \in 1..Len(log), ~(i < q) PROVE log[i] < age
  BY <1>6, <1>8, <1>1
<1>10. From(log, age) = q
  BY <1>5 DEF q
<1> HIDE DEF S
<1> QED
  BY <1>6, <1>7, <1>8, <1>10 DEF Begins

LEMMA FromUnique ==
    ASSUME NEW log \in Seq(Nat), NEW age \in Nat, InOrder(log), NEW p, Begins(log, age, p)
    PROVE  From(log, age) = p
<1>1. Begins(log, age, From(log, age))
  BY FromIs
<1>2. Len(log) \in Nat /\ \A i \in 1..Len(log) : log[i] \in Nat
  OBVIOUS
<1> DEFINE q == From(log, age)
<1>3. q \in 1..(Len(log) + 1) /\ p \in 1..(Len(log) + 1)
  BY <1>1 DEF Begins
<1>4. ~(p < q)
  <2> SUFFICES ASSUME p < q PROVE FALSE
    OBVIOUS
  <2>1. p \in 1..Len(log) /\ ~(p < p)
    BY <1>2, <1>3
  <2>2. log[p] >= age /\ log[p] < age
    BY <2>1, <1>1 DEF Begins
  <2> QED
    BY <2>1, <2>2, <1>2
<1>5. ~(q < p)
  <2> SUFFICES ASSUME q < p PROVE FALSE
    OBVIOUS
  <2>1. q \in 1..Len(log) /\ ~(q < q)
    BY <1>2, <1>3
  <2>2. log[q] >= age /\ log[q] < age
    BY <2>1, <1>1 DEF Begins
  <2> QED
    BY <2>1, <2>2, <1>2
<1> HIDE DEF q
<1> QED
  BY <1>2, <1>3, <1>4, <1>5 DEF q

\* What is left of a log is a log, and how long it is.
LEMMA WithinIs ==
    ASSUME NEW S \in SUBSET Nat, NEW log \in Seq(S), NEW age \in Nat, InOrder(log)
    PROVE  /\ Within(log, age) \in Seq(S) /\ InOrder(Within(log, age))
           /\ Young(log, age) \in 0..Len(log) /\ From(log, age) \in 1..(Len(log) + 1)
           /\ Young(log, age) = Len(log) + 1 - From(log, age)
           /\ \A i \in 1..Young(log, age) :
                 /\ Within(log, age)[i] = log[From(log, age) - 1 + i]
                 /\ Within(log, age)[i] < age
<1>0. log \in Seq(Nat)
  BY SeqMonotonic
<1>1. log \in Seq(Nat) /\ Len(log) \in Nat
  BY <1>0
<1>2. Begins(log, age, From(log, age))
  BY <1>1, FromIs
<1> DEFINE p == From(log, age)  w == Within(log, age)
<1>3. p \in 1..(Len(log) + 1)
  BY <1>2 DEF Begins
<1>4. w = SubSeq(log, p, Len(log))
  BY DEF Within
<1> HIDE DEF p, w
<1>5. /\ w \in Seq(S) /\ Len(w) = Len(log) + 1 - p
      /\ \A i \in 1..Len(w) : w[i] = log[p - 1 + i]
  <2>1. \A i \in p..Len(log) : log[i] \in S
    BY <1>3, <1>1
  <2> QED
    BY <2>1, <1>1, <1>3, <1>4, SubSeqProperties
<1>6. Young(log, age) = Len(w)
  BY DEF Young, w
<1>7. \A i \in 1..Len(w) : w[i] < age
  <2> TAKE i \in 1..Len(w)
  <2>1. p - 1 + i \in 1..Len(log) /\ ~(p - 1 + i < p)
    BY <1>1, <1>3, <1>5
  <2> QED
    BY <2>1, <1>2, <1>5 DEF Begins, p
<1>8. InOrder(w)
  <2> SUFFICES ASSUME NEW i \in 1..Len(w), NEW k \in 1..Len(w), i <= k PROVE w[i] >= w[k]
    BY DEF InOrder
  <2>1. p - 1 + i \in 1..Len(log) /\ p - 1 + k \in 1..Len(log) /\ p - 1 + i <= p - 1 + k
    BY <1>1, <1>3, <1>5
  <2> QED
    BY <2>1, <1>5 DEF InOrder
<1> QED
  BY <1>1, <1>3, <1>5, <1>6, <1>7, <1>8 DEF p, w

\* How many are younger follows from where they begin.
LEMMA YoungFrom ==
    ASSUME NEW log \in Seq(Nat), NEW age \in Nat, InOrder(log), NEW p, Begins(log, age, p)
    PROVE  Young(log, age) = Len(log) + 1 - p
BY FromUnique, WithinIs

LEMMA YoungGrows ==
    ASSUME NEW log \in Seq(Nat), NEW x \in Nat, NEW y \in Nat, x <= y, InOrder(log)
    PROVE  /\ Young(log, x) <= Young(log, y) /\ From(log, y) <= From(log, x)
           /\ Young(log, x) \in Nat /\ Young(log, y) \in Nat
           /\ Young(log, 0) = 0
<1> DEFINE p == From(log, x)  q == From(log, y)
<1>1. Begins(log, x, p) /\ Begins(log, y, q)
  BY FromIs
<1>2. Len(log) \in Nat /\ p \in 1..(Len(log) + 1) /\ q \in 1..(Len(log) + 1)
  BY <1>1 DEF Begins
<1>3. Young(log, x) = Len(log) + 1 - p /\ Young(log, y) = Len(log) + 1 - q
  BY WithinIs
<1>4. ~(p < q)
  <2> SUFFICES ASSUME p < q PROVE FALSE
    OBVIOUS
  <2>1. p \in 1..Len(log) /\ ~(p < p)
    BY <1>2
  <2>2. log[p] >= y /\ log[p] < x /\ log[p] \in Nat
    BY <2>1, <1>1 DEF Begins
  <2> QED
    BY <2>2
<1>5. Begins(log, 0, Len(log) + 1)
  <2>1. \A i \in 1..Len(log) : log[i] \in Nat
    OBVIOUS
  <2> QED
    BY <2>1, <1>2 DEF Begins
<1>6. Young(log, 0) = 0
  BY <1>5, <1>2, YoungFrom
<1> HIDE DEF p, q
<1>7. Young(log, x) <= Young(log, y) /\ q <= p
  BY <1>2, <1>3, <1>4
<1> QED
  BY <1>2, <1>3, <1>6, <1>7 DEF p, q

LEMMA YoungIs ==
    ASSUME NEW log \in Seq(Nat), NEW age \in Nat, InOrder(log)
    PROVE  Young(log, age) \in Nat /\ Young(log, 0) = 0
<1>1. age <= age
  OBVIOUS
<1> QED
  BY <1>1, YoungGrows

LEMMA YoungOfWithin ==
    ASSUME NEW log \in Seq(Nat), NEW x \in Nat, NEW y \in Nat, x <= y, InOrder(log)
    PROVE  Young(Within(log, y), x) = Young(log, x)
<1> DEFINE p == From(log, x)  q == From(log, y)  w == Within(log, y)
<1>1. Begins(log, x, p) /\ Begins(log, y, q)
  BY FromIs
<1>2. Len(log) \in Nat /\ p \in 1..(Len(log) + 1) /\ q \in 1..(Len(log) + 1)
  BY <1>1 DEF Begins
<1>3. q <= p
  BY YoungGrows
<1>4. /\ w \in Seq(Nat) /\ InOrder(w) /\ Len(w) = Len(log) + 1 - q
      /\ \A i \in 1..Len(w) : w[i] = log[q - 1 + i]
  BY WithinIs DEF Young
<1>5. Young(log, x) = Len(log) + 1 - p
  BY WithinIs
<1> HIDE DEF p, q, w
<1>6. Begins(w, x, p - q + 1)
  <2>1. p - q + 1 \in 1..(Len(w) + 1)
    BY <1>2, <1>3, <1>4
  <2>2. ASSUME NEW i \in 1..Len(w)
        PROVE  IF i < p - q + 1 THEN w[i] >= x ELSE w[i] < x
    <3>1. q - 1 + i \in 1..Len(log) /\ (i < p - q + 1 <=> q - 1 + i < p)
      BY <1>2, <1>4
    <3> QED
      BY <3>1, <1>1, <1>4 DEF Begins
  <2> QED
    BY <2>1, <2>2 DEF Begins
<1>7. Young(w, x) = Len(w) + 1 - (p - q + 1)
  BY <1>4, <1>6, YoungFrom
<1>8. Young(w, x) = Young(log, x)
  BY <1>2, <1>4, <1>5, <1>7
<1> QED
  BY <1>8 DEF w

\* All of a log is younger than what all its entries are younger than.
LEMMA YoungAll ==
    ASSUME NEW log \in Seq(Nat), NEW age \in Nat, InOrder(log),
           \A i \in 1..Len(log) : log[i] < age
    PROVE  Young(log, age) = Len(log)
<1>1. Begins(log, age, 1)
  BY DEF Begins
<1> QED
  BY <1>1, YoungFrom

\* An attempt of now.
LEMMA AppendNow ==
    ASSUME NEW S \in SUBSET Nat, 0 \in S, NEW log \in Seq(S), InOrder(log)
    PROVE  /\ Append(log, 0) \in Seq(S) /\ InOrder(Append(log, 0)) /\ Append(log, 0) # <<>>
           /\ Len(Append(log, 0)) = Len(log) + 1
           /\ \A age \in Nat \ {0} : Young(Append(log, 0), age) = Young(log, age) + 1
<1> DEFINE l == Append(log, 0)
<1>0. l \in Seq(S) /\ l \in Seq(Nat) /\ log \in Seq(Nat)
  BY SeqMonotonic, AppendProperties
<1>1. /\ l \in Seq(S) /\ l \in Seq(Nat) /\ log \in Seq(Nat) /\ Len(l) = Len(log) + 1
      /\ Len(log) \in Nat
      /\ (\A i \in 1..Len(log) : l[i] = log[i] /\ log[i] \in Nat) /\ l[Len(log) + 1] = 0
  BY <1>0
<1> HIDE DEF l
<1>2. InOrder(l)
  <2> SUFFICES ASSUME NEW i \in 1..Len(l), NEW k \in 1..Len(l), i <= k PROVE l[i] >= l[k]
    BY DEF InOrder
  <2>1. l[i] \in Nat
    BY <1>1
  <2>2. CASE k = Len(log) + 1
    BY <2>1, <2>2, <1>1
  <2>3. CASE k # Len(log) + 1
    <3>1. i \in 1..Len(log) /\ k \in 1..Len(log)
      BY <2>3, <1>1
    <3> QED
      BY <3>1, <1>1 DEF InOrder
  <2> QED
    BY <2>2, <2>3
<1>3. ASSUME NEW age \in Nat \ {0} PROVE Young(l, age) = Young(log, age) + 1
  <2> DEFINE p == From(log, age)
  <2>1. Begins(log, age, p) /\ Young(log, age) = Len(log) + 1 - p
    BY <1>1, FromIs, WithinIs
  <2>2. p \in 1..(Len(log) + 1)
    BY <2>1 DEF Begins
  <2> HIDE DEF p
  <2>3. ASSUME NEW i \in 1..Len(l) PROVE IF i < p THEN l[i] >= age ELSE l[i] < age
    <3>1. CASE i = Len(log) + 1
      BY <3>1, <2>2, <1>1
    <3>2. CASE i # Len(log) + 1
      <4>1. i \in 1..Len(log)
        BY <3>2, <1>1
      <4> QED
        BY <4>1, <2>1, <1>1 DEF Begins
    <3> QED
      BY <3>1, <3>2
  <2>4. Begins(l, age, p)
    BY <2>2, <2>3, <1>1 DEF Begins
  <2> QED
    BY <2>1, <2>2, <2>4, <1>1, <1>2, YoungFrom
<1>4. l # <<>>
  BY <1>1
<1> QED
  BY <1>1, <1>2, <1>3, <1>4 DEF l

\* A tick makes every attempt older, up to the age nobody looks at.
LEMMA AgedIs ==
    ASSUME NEW top \in Nat, NEW log \in Seq(0..top), InOrder(log)
    PROVE  /\ Aged(log, top) \in Seq(0..top) /\ InOrder(Aged(log, top))
           /\ \A age \in 1..top : Young(Aged(log, top), age) = Young(log, age - 1)
<1> DEFINE l == Aged(log, top)
<1>1. log \in Seq(Nat) /\ Len(log) \in Nat /\ \A i \in 1..Len(log) : log[i] \in 0..top
  BY SeqMonotonic
<1>0. l = [i \in 1..Len(log) |-> IF log[i] < top THEN log[i] + 1 ELSE top]
  BY DEF Aged
<1>5. l \in Seq(0..top)
  <2>1. \A i \in 1..Len(log) : (IF log[i] < top THEN log[i] + 1 ELSE top) \in 0..top
    BY <1>1
  <2>2. l \in [1..Len(log) -> 0..top]
    BY <2>1, <1>0
  <2> QED
    BY <2>2, <1>1
<1>6. l \in Seq(Nat) /\ Len(l) = Len(log)
  <2>1. 0..top \subseteq Nat
    OBVIOUS
  <2> QED
    BY <2>1, <1>0, <1>1, <1>5, SeqMonotonic
<1>2. /\ l \in Seq(0..top) /\ l \in Seq(Nat) /\ Len(l) = Len(log)
      /\ \A i \in 1..Len(log) : l[i] = IF log[i] < top THEN log[i] + 1 ELSE top
  BY <1>0, <1>5, <1>6
<1> HIDE DEF l
<1>3. InOrder(l)
  <2> SUFFICES ASSUME NEW i \in 1..Len(l), NEW k \in 1..Len(l), i <= k PROVE l[i] >= l[k]
    BY DEF InOrder
  <2>1. log[i] >= log[k]
    BY <1>2 DEF InOrder
  <2> QED
    BY <2>1, <1>1, <1>2
<1>4. ASSUME NEW age \in 1..top PROVE Young(l, age) = Young(log, age - 1)
  <2> DEFINE p == From(log, age - 1)
  <2>0. age - 1 \in Nat /\ age \in Nat
    OBVIOUS
  <2>1. Begins(log, age - 1, p) /\ Young(log, age - 1) = Len(log) + 1 - p
    BY <1>1, <2>0, FromIs, WithinIs
  <2> HIDE DEF p
  <2>2. ASSUME NEW i \in 1..Len(l) PROVE IF i < p THEN l[i] >= age ELSE l[i] < age
    <3>1. IF i < p THEN log[i] >= age - 1 ELSE log[i] < age - 1
      BY <2>1, <1>2 DEF Begins
    <3>2. log[i] \in 0..top /\ l[i] = IF log[i] < top THEN log[i] + 1 ELSE top
      BY <1>1, <1>2
    <3>3. p \in Nat /\ i \in Nat
      BY <2>1, <1>1 DEF Begins
    <3> QED
      BY <3>1, <3>2, <3>3
  <2>3. Begins(l, age, p)
    BY <2>1, <2>2, <1>2 DEF Begins
  <2> QED
    BY <2>0, <2>1, <2>3, <1>2, <1>3, YoungFrom
<1> QED
  BY <1>2, <1>3, <1>4 DEF l

-----------------------------------------------------------------------------
(* Rate limits: the order of the buckets.                                  *)

\* The members of a finite set of positions have ranks 1 to the size of the set,
\* each its own.
LEMMA RanksAre ==
    ASSUME NEW m \in Nat, NEW K \in SUBSET (1..m)
    PROVE  /\ Cardinality(K) \in 0..m
           /\ \A i \in K : Cardinality({k \in K : k <= i}) \in 1..Cardinality(K)
           /\ \A i, h \in K : Cardinality({k \in K : k <= i}) = Cardinality({k \in K : k <= h}) => i = h
           /\ \A n \in 1..Cardinality(K) : \E i \in K : Cardinality({k \in K : k <= i}) = n
<1> DEFINE UpTo(i) == {k \in K : k <= i}
<1>1. /\ IsFiniteSet(1..m) /\ Cardinality(1..m) = m
      /\ IsFiniteSet(K) /\ Cardinality(K) \in Nat /\ Cardinality(K) <= m
      /\ K \in SUBSET Nat
  <2>1. IsFiniteSet(1..m) /\ Cardinality(1..m) = m
    BY FS_Interval
  <2>2. IsFiniteSet(K) /\ Cardinality(K) <= Cardinality(1..m)
    BY <2>1, FS_Subset
  <2> QED
    BY <2>1, <2>2, FS_CardinalityType
<1>2. \A i \in K : /\ UpTo(i) \subseteq K /\ IsFiniteSet(UpTo(i)) /\ i \in UpTo(i)
                   /\ Cardinality(UpTo(i)) \in 1..Cardinality(K)
  <2> TAKE i \in K
  <2>1. UpTo(i) \subseteq K /\ i \in UpTo(i)
    BY <1>1
  <2>2. IsFiniteSet(UpTo(i)) /\ Cardinality(UpTo(i)) <= Cardinality(K)
    BY <2>1, <1>1, FS_Subset
  <2>3. Cardinality(UpTo(i)) \in Nat /\ Cardinality(UpTo(i)) # 0
    BY <2>1, <2>2, FS_CardinalityType, FS_EmptySet
  <2> QED
    BY <2>1, <2>2, <2>3, <1>1
<1>3. ASSUME NEW i \in K, NEW h \in K, i < h PROVE Cardinality(UpTo(i)) < Cardinality(UpTo(h))
  <2>1. i \in Nat /\ h \in Nat /\ \A k \in K : k \in Nat
    BY <1>1
  <2>2. ASSUME NEW k \in K, k <= i PROVE k <= h
    BY <2>1, <2>2, <1>3
  <2>3. UpTo(i) \subseteq UpTo(h)
    BY <2>2
  <2>4. UpTo(i) # UpTo(h)
    <3>1. h \in UpTo(h)
      BY <2>1
    <3>2. h \notin UpTo(i)
      BY <2>1, <1>3
    <3> QED
      BY <3>1, <3>2
  <2>5. IsFiniteSet(UpTo(h)) /\ Cardinality(UpTo(i)) \in Nat /\ Cardinality(UpTo(h)) \in Nat
    BY <1>2, FS_CardinalityType
  <2> HIDE DEF UpTo
  <2>6. Cardinality(UpTo(i)) <= Cardinality(UpTo(h)) /\ Cardinality(UpTo(i)) # Cardinality(UpTo(h))
    BY <2>3, <2>4, <2>5, FS_Subset
  <2> QED
    BY <2>5, <2>6
<1>4. ASSUME NEW i \in K, NEW h \in K, Cardinality(UpTo(i)) = Cardinality(UpTo(h)) PROVE i = h
  <2>1. ~(i < h) /\ ~(h < i)
    BY <1>2, <1>3, <1>4
  <2> QED
    BY <2>1, <1>1
<1>5. ASSUME NEW n \in 1..Cardinality(K) PROVE \E i \in K : Cardinality(UpTo(i)) = n
  <2> DEFINE T == {i \in K : Cardinality(UpTo(i)) >= n}
  <2>1. PICK top \in K : \A i \in K : i <= top
    <3>1. K # {}
      BY <1>1, <1>5, FS_EmptySet
    <3>2. \A i \in K : i <= m
      OBVIOUS
    <3> QED
      BY <3>1, <3>2, <1>1, GreatestOf
  <2>2. UpTo(top) = K
    BY <2>1
  <2>7. Cardinality(UpTo(top)) >= n
    <3> HIDE DEF UpTo
    <3> QED
      BY <2>2, <1>1, <1>5
  <2>3. T \in SUBSET Nat /\ top \in T
    <3> HIDE DEF UpTo
    <3> QED
      BY <2>7, <1>1
  <2>4. PICK i \in T : \A k \in T : i <= k
    BY <2>3, LeastOf
  <2>5. i \in K /\ Cardinality(UpTo(i)) >= n
    OBVIOUS
  <2>6. CASE Cardinality(UpTo(i)) # n
    <3> DEFINE R == UpTo(i) \ {i}
    <3>1. R \subseteq K /\ IsFiniteSet(R) /\ Cardinality(R) = Cardinality(UpTo(i)) - 1
      BY <2>5, <1>2, FS_RemoveElement
    <3>2. Cardinality(R) >= n /\ R # {}
      BY <3>1, <2>5, <2>6, <1>2, <1>5, FS_EmptySet
    <3>3. \A h \in R : h <= m
      BY <3>1
    <3>4. R \in SUBSET Nat
      BY <3>1, <1>1
    <3>5. PICK h \in R : \A k \in R : k <= h
      <4> HIDE DEF R
      <4> QED
        BY <3>2, <3>3, <3>4, GreatestOf
    <3>6. h \in K /\ h < i
      BY <3>1, <1>1, <2>5
    <3>7. R \subseteq UpTo(h)
      BY <3>1, <3>5
    <3>8. Cardinality(R) <= Cardinality(UpTo(h))
      <4> HIDE DEF R
      <4> QED
        BY <3>6, <3>7, <1>2, FS_Subset
    <3>9. Cardinality(R) \in Nat /\ Cardinality(UpTo(h)) \in Nat
      BY <3>1, <3>6, <1>2, FS_CardinalityType
    <3>10. h \in T
      <4> HIDE DEF R
      <4> QED
        BY <3>2, <3>6, <3>8, <3>9, <1>5
    <3> QED
      BY <3>6, <3>10, <2>4, <1>1
  <2> QED
    BY <2>5, <2>6
<1>6. Cardinality(K) \in 0..m
  BY <1>1
<1>7. \A i, h \in K : Cardinality(UpTo(i)) = Cardinality(UpTo(h)) => i = h
  BY <1>4
<1>8. \A n \in 1..Cardinality(K) : \E i \in K : Cardinality(UpTo(i)) = n
  BY <1>5
<1>9. \A i \in K : Cardinality(UpTo(i)) \in 1..Cardinality(K)
  BY <1>2
<1> QED
  BY <1>6, <1>7, <1>8, <1>9, Zenon

\* Without some buckets the order is an order of the others, and shorter by at least
\* one if one of them was there.
LEMMA WithoutIs ==
    ASSUME NEW S, NEW o \in Seq(S), NEW B
    PROVE  /\ Without(o, B) \in Seq(S) /\ ToSet(Without(o, B)) = ToSet(o) \ B
           /\ Len(Without(o, B)) <= Len(o) /\ Len(Without(o, B)) \in Nat
           /\ \A b \in B : b \in ToSet(o) => Len(Without(o, B)) < Len(o)
<1> DEFINE left == {i \in DOMAIN o : o[i] \notin B}
           rank(i) == Cardinality({k \in left : k <= i})
           place(n) == CHOOSE i \in left : rank(i) = n
           N == Cardinality(left)
           w == Without(o, B)
<1>1. Len(o) \in Nat /\ DOMAIN o = 1..Len(o) /\ \A i \in 1..Len(o) : o[i] \in S
  OBVIOUS
<1>2. left \in SUBSET (1..Len(o))
  BY <1>1
<1>3. /\ N \in 0..Len(o)
      /\ \A i \in left : rank(i) \in 1..N
      /\ \A i, h \in left : rank(i) = rank(h) => i = h
      /\ \A n \in 1..N : \E i \in left : rank(i) = n
  <2> HIDE DEF left
  <2> QED
    BY <1>1, <1>2, RanksAre
<1>4. w = [n \in 1..N |-> o[place(n)]]
  BY DEF Without
<1>5. \A n \in 1..N : place(n) \in left /\ rank(place(n)) = n
  BY <1>3
<1>6. \A n \in 1..N : o[place(n)] \in S /\ o[place(n)] \in ToSet(o) \ B
  BY <1>1, <1>5 DEF ToSet
<1>7. \A i \in left : rank(i) \in 1..N /\ place(rank(i)) = i
  BY <1>3, <1>5
<1>8. \A b \in ToSet(o) \ B : \E i \in left : o[i] = b
  BY DEF ToSet
<1>9. ASSUME NEW b \in B, b \in ToSet(o) PROVE N < Len(o)
  <2>1. PICK i \in 1..Len(o) : o[i] = b
    BY <1>1, <1>9 DEF ToSet
  <2>2. i \notin left
    BY <2>1
  <2>3. /\ IsFiniteSet(1..Len(o)) /\ Cardinality(1..Len(o)) = Len(o)
    BY <1>1, FS_Interval
  <2>4. left # 1..Len(o)
    BY <2>1, <2>2
  <2> HIDE DEF left
  <2>5. IsFiniteSet(left) /\ N <= Len(o) /\ N # Len(o)
    BY <1>2, <2>3, <2>4, FS_Subset
  <2>6. N \in Nat
    BY <2>5, FS_CardinalityType
  <2> QED
    BY <2>5, <2>6, <1>1
<1> HIDE DEF left, rank, place, N, w
<1>10. w \in Seq(S) /\ Len(w) = N /\ DOMAIN w = 1..N
  <2>1. w \in [1..N -> S]
    BY <1>4, <1>6
  <2> QED
    BY <2>1, <1>3
<1>11. ToSet(w) = ToSet(o) \ B
  <2>1. \A n \in 1..N : w[n] = o[place(n)]
    BY <1>4
  <2>2. ToSet(w) \subseteq ToSet(o) \ B
    BY <2>1, <1>6, <1>10 DEF ToSet
  <2>3. ASSUME NEW b \in ToSet(o) \ B PROVE b \in ToSet(w)
    <3>1. PICK i \in left : o[i] = b
      BY <1>8
    <3>2. w[rank(i)] = b /\ rank(i) \in DOMAIN w
      BY <3>1, <2>1, <1>7, <1>10
    <3> QED
      BY <3>2 DEF ToSet
  <2> QED
    BY <2>2, <2>3
<1>12. N <= Len(o) /\ N \in Nat
  BY <1>1, <1>3
<1> QED
  BY <1>9, <1>10, <1>11, <1>12 DEF w

-----------------------------------------------------------------------------
(* Rate limits: whom a request is counted for.                             *)

\* The last entry that is no proxy of ours is the client.
LEMMA LastIs ==
    ASSUME NEW f, NEW n \in Nat, n \in DOMAIN f, DOMAIN f \subseteq Nat, f[n] \notin Trusted,
           \A i \in DOMAIN f : i > n => f[i] \in Trusted, NEW peer
    PROVE  LastUntrusted(peer, f) = f[n]
<1> DEFINE strangers == {i \in DOMAIN f : f[i] \notin Trusted}
<1>1. n \in strangers /\ strangers \subseteq Nat /\ \A i \in strangers : n >= i
  OBVIOUS
<1>2. Max(strangers) = n
  <2>1. Max(strangers) \in strangers /\ \A i \in strangers : Max(strangers) >= i
    BY <1>1 DEF Max
  <2> QED
    BY <2>1, <1>1
<1> QED
  BY <1>1, <1>2 DEF LastUntrusted

LEMMA PairsAre ==
    ASSUME NEW a, NEW b, NEW d
    PROVE  /\ <<a, b>> \o <<d>> = <<a, b, d>> /\ Front(<<a, b>>) = <<a>> /\ Last(<<a, b>>) = b
<1>1. <<a, b>> \o <<d>> = <<a, b, d>>
  <2>1. <<a, b>> \in Seq({a, b, d}) /\ <<d>> \in Seq({a, b, d}) /\ <<a, b, d>> \in Seq({a, b, d})
    OBVIOUS
  <2> DEFINE l == <<a, b>> \o <<d>>  k == <<a, b, d>>
  <2>2. l \in Seq({a, b, d}) /\ Len(l) = 3 /\ l[1] = a /\ l[2] = b /\ l[3] = d
    BY <2>1, ConcatProperties
  <2>3. k \in Seq({a, b, d}) /\ Len(k) = 3 /\ k[1] = a /\ k[2] = b /\ k[3] = d
    BY <2>1
  <2> HIDE DEF l, k
  <2>4. l = k
    BY <2>2, <2>3, SeqEqual
  <2> QED
    BY <2>4 DEF l, k
<1>2. Front(<<a, b>>) = <<a>>
  <2> DEFINE l == SubSeq(<<a, b>>, 1, 1)  k == <<a>>  s == <<a, b>>
  <2>1. s \in Seq({a, b}) /\ Len(s) = 2 /\ s[1] = a /\ s[2] = b
    OBVIOUS
  <2>2. k \in Seq({a, b}) /\ Len(k) = 1 /\ k[1] = a
    OBVIOUS
  <2> HIDE DEF s, k
  <2>3. SubSeq(s, 1, 1) \in Seq({a, b}) /\ Len(SubSeq(s, 1, 1)) = 1 /\ SubSeq(s, 1, 1)[1] = a
    BY <2>1, SubSeqProperties
  <2>4. SubSeq(s, 1, 1) = k
    BY <2>2, <2>3, SeqEqual
  <2> QED
    BY <2>1, <2>4 DEF s, k, Front
<1> QED
  BY <1>1, <1>2 DEF Last

\* Whatever a client writes into its headers, it is counted itself if its proxies tell it.
LEMMA ClientIsCounted ==
    ASSUME NEW c \in Clients, NEW r \in Arrivals(c)
    PROVE  /\ Vouched(c, r) => ClientIp(r.peer, r.cf, r.forwarded, r.real) = c
           /\ ClientIp(r.peer, r.cf, r.forwarded, r.real) \in Addresses
<1>1. c \in Addresses /\ c \notin Trusted /\ c # NoHeader /\ Cloudflare \subseteq Trusted
  BY LimitsAssumption DEF Clients
<1> DEFINE far(said) == {[peer |-> IF path = <<>> THEN c ELSE Last(path),
                          cf |-> IF path # <<>> /\ Last(path) \in Cloudflare THEN c ELSE said,
                          forwarded |-> IF path = <<>> THEN <<said>> ELSE <<said, c>> \o Front(path),
                          real |-> said] : path \in Paths}
           near(said) == {[peer |-> p, cf |-> NoHeader, forwarded |-> f, real |-> c] :
                             p \in Trusted \ Cloudflare, f \in {<<>>, <<said>>}}
<1>2. Arrivals(c) = UNION {far(said) \union near(said) : said \in Addresses}
  BY DEF Arrivals
<1>3. PICK said \in Addresses : r \in far(said) \/ r \in near(said)
  <2> HIDE DEF far, near
  <2> QED
    BY <1>2
<1>4. r \in near(said) =>
        \E p \in Trusted \ Cloudflare : \E f \in {<<>>, <<said>>} :
           r = [peer |-> p, cf |-> NoHeader, forwarded |-> f, real |-> c]
  BY SMTT(30)
<1>5. \/ \E path \in Paths :
           r = [peer |-> IF path = <<>> THEN c ELSE Last(path),
                cf |-> IF path # <<>> /\ Last(path) \in Cloudflare THEN c ELSE said,
                forwarded |-> IF path = <<>> THEN <<said>> ELSE <<said, c>> \o Front(path),
                real |-> said]
      \/ \E p \in Trusted \ Cloudflare : \E f \in {<<>>, <<said>>} :
           r = [peer |-> p, cf |-> NoHeader, forwarded |-> f, real |-> c]
  BY <1>3, <1>4
<1>6. ASSUME NEW p \in Trusted \ Cloudflare, NEW f \in {<<>>, <<said>>},
             r = [peer |-> p, cf |-> NoHeader, forwarded |-> f, real |-> c]
      PROVE  /\ Vouched(c, r) => ClientIp(r.peer, r.cf, r.forwarded, r.real) = c
             /\ ClientIp(r.peer, r.cf, r.forwarded, r.real) \in Addresses
  <2>1. p \in Addresses /\ p # c /\ r.peer = p /\ r.cf = NoHeader /\ r.forwarded = f /\ r.real = c
    BY <1>1, <1>6, LimitsAssumption
  <2>2. CASE f = <<>>
    BY <1>1, <2>1, <2>2 DEF ClientIp
  <2>3. CASE f = <<said>>
    <3> DEFINE g == <<said>>
    <3>1. DOMAIN g = 1..1 /\ g[1] = said /\ 1 \in Nat /\ g # <<>> /\ ToSet(g) = {said}
      BY DEF ToSet
    <3>2. r.forwarded = g
      BY <2>1, <2>3
    <3> HIDE DEF g
    <3>3. ClientIp(r.peer, r.cf, r.forwarded, r.real) = LastUntrusted(p, g)
      BY <2>1, <3>1, <3>2 DEF ClientIp
    <3>4. said \notin Trusted => LastUntrusted(p, g) = said
      BY <3>1, LastIs
    <3>5. said \in Trusted => LastUntrusted(p, g) = p
      BY <3>1 DEF LastUntrusted
    <3>6. Vouched(c, r) => said = c
      BY <2>1, <3>1, <3>2 DEF Vouched
    <3> QED
      BY <1>1, <2>1, <3>3, <3>4, <3>5, <3>6
  <2> QED
    BY <2>2, <2>3
<1>7. ASSUME NEW path \in Paths,
             r = [peer |-> IF path = <<>> THEN c ELSE Last(path),
                  cf |-> IF path # <<>> /\ Last(path) \in Cloudflare THEN c ELSE said,
                  forwarded |-> IF path = <<>> THEN <<said>> ELSE <<said, c>> \o Front(path),
                  real |-> said]
      PROVE  ClientIp(r.peer, r.cf, r.forwarded, r.real) = c
  <2>1. CASE path = <<>>
    BY <1>1, <1>7, <2>1 DEF ClientIp
  <2>2. ASSUME NEW p \in Trusted, path = <<p>>
        PROVE  ClientIp(r.peer, r.cf, r.forwarded, r.real) = c
    <3>1. path # <<>> /\ Last(path) = p /\ Front(path) = <<>>
      BY <2>2 DEF Last, Front
    <3>2. <<said, c>> \o Front(path) = <<said, c>>
      BY <3>1
    <3>3. r.peer = p /\ r.forwarded = <<said, c>> /\ r.cf = IF p \in Cloudflare THEN c ELSE said
      BY <1>7, <3>1, <3>2
    <3>4. LastUntrusted(p, <<said, c>>) = c
      <4> DEFINE f == <<said, c>>
      <4>1. DOMAIN f = 1..2 /\ f[2] = c /\ 2 \in Nat
        OBVIOUS
      <4> HIDE DEF f
      <4>2. LastUntrusted(p, f) = f[2]
        BY <4>1, <1>1, LastIs
      <4> QED
        BY <4>1, <4>2 DEF f
    <3>5. <<said, c>> # <<>>
      OBVIOUS
    <3> QED
      BY <1>1, <3>3, <3>4, <3>5 DEF ClientIp
  <2>3. ASSUME NEW p \in Trusted \ Cloudflare, NEW q \in Trusted \ Cloudflare, path = <<p, q>>
        PROVE  ClientIp(r.peer, r.cf, r.forwarded, r.real) = c
    <3>1. path # <<>> /\ Last(path) = q /\ Front(path) = <<p>>
      BY <2>3, PairsAre
    <3>2. <<said, c>> \o Front(path) = <<said, c, p>>
      BY <3>1, PairsAre
    <3>3. r.peer = q /\ r.forwarded = <<said, c, p>>
      BY <1>7, <3>1, <3>2
    <3>4. LastUntrusted(q, <<said, c, p>>) = c
      <4> DEFINE f == <<said, c, p>>
      <4>1. DOMAIN f = 1..3 /\ f[2] = c /\ 2 \in Nat /\ f[3] = p
        OBVIOUS
      <4> HIDE DEF f
      <4>2. \A i \in DOMAIN f : i > 2 => f[i] \in Trusted
        BY <4>1
      <4>3. LastUntrusted(q, f) = f[2]
        BY <4>1, <4>2, <1>1, LastIs
      <4> QED
        BY <4>1, <4>3 DEF f
    <3>5. <<said, c, p>> # <<>>
      OBVIOUS
    <3> QED
      BY <1>1, <3>3, <3>4, <3>5 DEF ClientIp
  <2> QED
    BY <2>1, <2>2, <2>3 DEF Paths
<1> QED
  BY <1>1, <1>5, <1>6, <1>7

-----------------------------------------------------------------------------
(* Rate limits: the invariant.                                             *)

\* What has been let through was written down: of any age up to the limit, no fewer
\* attempts are in the log than were let through.
Covers(log, through, age) == \A x \in 0..age : Young(through, x) <= Young(log, x)

ActorFits(a) ==
    /\ InOrder(attempts[a]) /\ InOrder(daily[a]) /\ InOrder(granted[a])
    /\ Covers(attempts[a], granted[a], Window) /\ Covers(daily[a], granted[a], Day + 1)
    /\ Len(granted[a]) <= MaxPerDay /\ Young(granted[a], Window) <= MaxInWindow

\* A table, what its buckets let through and the order they were used in.
TableFits(t, p, o) ==
    /\ t \in [Buckets -> Logs(Window)] /\ p \in [Buckets -> Logs(Window - 1)]
    /\ o \in Seq(Buckets) /\ Len(o) <= MaxBuckets
    /\ \A b \in Buckets :
          /\ InOrder(t[b]) /\ InOrder(p[b])
          /\ Covers(t[b], p[b], Window)
          /\ Len(p[b]) <= MaxAttempts
          /\ t[b] # <<>> => b \in ToSet(o)

ActorsInv ==
    /\ attempts \in [Admins -> Logs(Day + 1)] /\ daily \in [Admins -> Logs(Day + 1)]
    /\ granted \in [Admins -> Logs(Day)] /\ calls \in 0..(PruneEvery - 1)
    /\ \A a \in Admins : ActorFits(a)

BucketsInv == TableFits(table, passed, order) /\ asked \in 0..(PruneEvery - 1)

LimitsInv == ActorsInv /\ BucketsInv

-----------------------------------------------------------------------------
(* Rate limits: logs that cover what was let through.                      *)

LEMMA LimitConstants ==
    /\ Window \in Nat \ {0} /\ Day \in Nat /\ Window <= Day
    /\ MaxInWindow \in Nat \ {0} /\ MaxPerDay \in Nat \ {0} /\ MaxAttempts \in Nat \ {0}
    /\ MaxBuckets \in Nat \ {0} /\ PruneEvery \in Nat \ {0}
BY LimitsAssumption

LEMMA CountedIs ==
    ASSUME NEW n \in 0..(PruneEvery - 1)
    PROVE  Counted(n) \in 0..(PruneEvery - 1)
BY LimitConstants DEF Counted

LEMMA LogsAre ==
    ASSUME NEW top \in Nat, NEW log \in Logs(top)
    PROVE  log \in Seq(Nat) /\ log \in Seq(0..top) /\ Len(log) \in Nat
                            /\ \A i \in 1..Len(log) : log[i] \in 0..top
<1>1. 0..top \subseteq Nat
  OBVIOUS
<1> QED
  BY <1>1, SeqMonotonic DEF Logs

LEMMA EmptyLog ==
    ASSUME NEW top \in Nat
    PROVE  /\ <<>> \in Logs(top) /\ InOrder(<<>>) /\ Len(<<>>) = 0
           /\ \A age \in Nat : Young(<<>>, age) = 0
<1>1. <<>> \in Logs(top) /\ <<>> \in Seq(Nat) /\ Len(<<>>) = 0
  BY DEF Logs
<1>2. InOrder(<<>>)
  BY <1>1 DEF InOrder
<1>3. ASSUME NEW age \in Nat PROVE Young(<<>>, age) = 0
  <2>1. \A i \in 1..Len(<<>>) : <<>>[i] < age
    BY <1>1
  <2> QED
    BY <2>1, <1>1, <1>2, YoungAll
<1> QED
  BY <1>1, <1>2, <1>3

\* Forgetting what is too old for a limit, writing both down, and growing older.
LEMMA CoversWithin ==
    ASSUME NEW log \in Seq(Nat), InOrder(log), NEW t, NEW age \in Nat, Covers(log, t, age)
    PROVE  Covers(Within(log, age), t, age)
<1>1. \A x \in 0..age : x \in Nat /\ x <= age /\ Young(Within(log, age), x) = Young(log, x)
  BY YoungOfWithin
<1> QED
  BY <1>1 DEF Covers

LEMMA CoversAppend ==
    ASSUME NEW log \in Seq(Nat), InOrder(log), NEW t \in Seq(Nat), InOrder(t), NEW age \in Nat,
           Covers(log, t, age)
    PROVE  Covers(Append(log, 0), Append(t, 0), age)
<1> SUFFICES ASSUME NEW x \in 0..age
             PROVE  Young(Append(t, 0), x) <= Young(Append(log, 0), x)
  BY DEF Covers
<1>1. /\ InOrder(Append(log, 0)) /\ InOrder(Append(t, 0))
      /\ Append(log, 0) \in Seq(Nat) /\ Append(t, 0) \in Seq(Nat) /\ x \in Nat
  BY AppendNow
<1>2. CASE x = 0
  <2>1. Young(Append(t, 0), 0) = 0 /\ Young(Append(log, 0), 0) = 0
    BY <1>1, YoungIs
  <2> QED
    BY <1>2, <2>1
<1>3. CASE x # 0
  <2>1. x \in Nat \ {0}
    BY <1>1, <1>3
  <2>2. /\ Young(Append(t, 0), x) = Young(t, x) + 1
        /\ Young(Append(log, 0), x) = Young(log, x) + 1
    BY <2>1, AppendNow
  <2>3. Young(t, x) <= Young(log, x)
    BY DEF Covers
  <2>4. Young(t, x) \in Nat /\ Young(log, x) \in Nat
    BY <1>1, YoungIs
  <2> QED
    BY <2>2, <2>3, <2>4
<1> QED
  BY <1>2, <1>3

LEMMA CoversAged ==
    ASSUME NEW top \in Nat, NEW n \in Nat, NEW log \in Logs(top), InOrder(log),
           NEW t \in Logs(n), InOrder(t),
           NEW age \in Nat, age <= top, age <= n, Covers(log, t, age)
    PROVE  Covers(Aged(log, top), Aged(t, n), age)
<1> SUFFICES ASSUME NEW x \in 0..age
             PROVE  Young(Aged(t, n), x) <= Young(Aged(log, top), x)
  BY DEF Covers
<1>0. log \in Seq(0..top) /\ t \in Seq(0..n) /\ x \in Nat
  BY LogsAre
<1>1. /\ InOrder(Aged(log, top)) /\ InOrder(Aged(t, n))
      /\ Aged(log, top) \in Seq(Nat) /\ Aged(t, n) \in Seq(Nat)
  <2>1. Aged(log, top) \in Logs(top) /\ Aged(t, n) \in Logs(n)
    BY <1>0, AgedIs DEF Logs
  <2> QED
    BY <2>1, <1>0, AgedIs, LogsAre
<1>2. CASE x = 0
  <2>1. Young(Aged(log, top), 0) = 0 /\ Young(Aged(t, n), 0) = 0
    BY <1>1, YoungIs
  <2> QED
    BY <1>2, <2>1
<1>3. CASE x # 0
  <2>1. x \in 1..top /\ x \in 1..n /\ x - 1 \in 0..age
    BY <1>0, <1>3
  <2>2. /\ Young(Aged(log, top), x) = Young(log, x - 1)
        /\ Young(Aged(t, n), x) = Young(t, x - 1)
    BY <2>1, <1>0, AgedIs
  <2> QED
    BY <2>1, <2>2 DEF Covers
<1> QED
  BY <1>2, <1>3

\* Of what was let through, less is young after a tick.
LEMMA AgedShrinks ==
    ASSUME NEW top \in Nat, NEW log \in Logs(top), InOrder(log), NEW age \in 1..top
    PROVE  Young(Aged(log, top), age) <= Young(log, age)
<1>1. log \in Seq(0..top) /\ log \in Seq(Nat)
  BY LogsAre
<1>2. Young(Aged(log, top), age) = Young(log, age - 1)
  BY <1>1, AgedIs
<1>3. age - 1 \in Nat /\ age \in Nat /\ age - 1 <= age
  OBVIOUS
<1>4. Young(log, age - 1) <= Young(log, age)
  BY <1>1, <1>3, YoungGrows
<1> QED
  BY <1>2, <1>4

\* The attempts of an age are a log of their own, and what is younger than the last age
\* a log knows of is a log of one age less.
LEMMA WithinLog ==
    ASSUME NEW top \in Nat, NEW log \in Logs(top), InOrder(log), NEW age \in Nat
    PROVE  /\ Within(log, age) \in Logs(top) /\ InOrder(Within(log, age))
           /\ Len(Within(log, age)) = Young(log, age) /\ Young(log, age) <= Len(log)
           /\ Young(log, age) \in Nat
           /\ age = top /\ 0 < top => Within(log, age) \in Logs(top - 1)
<1>1. log \in Seq(0..top) /\ Len(log) \in Nat /\ 0..top \in SUBSET Nat
  BY LogsAre
<1> DEFINE w == Within(log, age)
<1>2. /\ w \in Seq(0..top) /\ InOrder(w) /\ Young(log, age) \in 0..Len(log)
      /\ \A i \in 1..Young(log, age) : w[i] < age
  BY <1>1, WithinIs
<1>3. Len(w) = Young(log, age)
  BY DEF Young
<1> HIDE DEF w
<1>4. ASSUME age = top, 0 < top PROVE w \in Logs(top - 1)
  <2>1. Len(w) \in Nat /\ \A i \in 1..Len(w) : w[i] \in 0..top
    BY <1>2
  <2>2. \A i \in 1..Len(w) : w[i] \in 0..(top - 1)
    BY <2>1, <1>2, <1>3, <1>4
  <2>3. w = [i \in 1..Len(w) |-> w[i]]
    BY <1>2
  <2>4. w \in [1..Len(w) -> 0..(top - 1)]
    BY <2>2, <2>3
  <2> QED
    BY <2>1, <2>4 DEF Logs
<1> QED
  BY <1>1, <1>2, <1>3, <1>4 DEF Logs, w

LEMMA NowLog ==
    ASSUME NEW top \in Nat, NEW log \in Logs(top), InOrder(log)
    PROVE  /\ Append(log, 0) \in Logs(top) /\ InOrder(Append(log, 0)) /\ Append(log, 0) # <<>>
           /\ Len(Append(log, 0)) = Len(log) + 1
           /\ \A age \in Nat \ {0} : Young(Append(log, 0), age) = Young(log, age) + 1
<1>1. 0..top \in SUBSET Nat /\ 0 \in 0..top /\ log \in Seq(0..top)
  BY LogsAre
<1> QED
  BY <1>1, AppendNow DEF Logs

\* A log of what was let through after a tick: what nobody looks at any more is dropped.
LEMMA ThroughTick ==
    ASSUME NEW n \in Nat \ {0}, NEW t \in Logs(n - 1), InOrder(t)
    PROVE  /\ Within(Aged(t, n), n) \in Logs(n - 1) /\ InOrder(Within(Aged(t, n), n))
           /\ Len(Within(Aged(t, n), n)) <= Len(t)
           /\ \A age \in 1..n : Young(Within(Aged(t, n), n), age) <= Young(t, age)
           /\ \A top \in Nat, age \in Nat : \A log \in Logs(top) :
                 age <= n /\ age <= top /\ InOrder(log) /\ Covers(log, t, age) =>
                    Covers(Aged(log, top), Within(Aged(t, n), n), age)
<1> DEFINE u == Aged(t, n)  w == Within(u, n)
<1>1. n \in Nat /\ 0 < n /\ n - 1 \in Nat /\ n \in 1..n
  OBVIOUS
<1>2. t \in Seq(0..(n - 1)) /\ Len(t) \in Nat /\ \A i \in 1..Len(t) : t[i] \in 0..(n - 1)
  BY <1>1, LogsAre
<1>3. t \in Logs(n)
  <2>1. 0..(n - 1) \subseteq 0..n
    OBVIOUS
  <2> QED
    BY <2>1, <1>2, SeqMonotonic DEF Logs
<1>4. t \in Seq(0..n)
  BY <1>3 DEF Logs
<1>5. u \in Logs(n) /\ InOrder(u)
  BY <1>1, <1>4, AgedIs DEF Logs
<1>6. u \in Seq(Nat) /\ t \in Seq(Nat)
  BY <1>1, <1>3, <1>5, LogsAre
<1>7. /\ w \in Logs(n - 1) /\ InOrder(w) /\ Len(w) = Young(u, n)
  <2> HIDE DEF u
  <2> QED
    BY <1>1, <1>5, WithinLog
<1>8. Young(u, n) <= Len(t)
  <2>1. Young(u, n) <= Young(t, n)
    BY <1>1, <1>3, AgedShrinks
  <2>2. Young(t, n) <= Len(t) /\ Young(t, n) \in Nat
    BY <1>1, <1>3, WithinLog
  <2>3. Young(u, n) \in Nat
    <3> HIDE DEF u
    <3> QED
      BY <1>1, <1>5, WithinLog
  <2> HIDE DEF u
  <2> QED
    BY <2>1, <2>2, <2>3, <1>2
<1>9. \A x \in 0..n : Young(w, x) = Young(u, x)
  <2> HIDE DEF u
  <2> QED
    BY <1>1, <1>5, <1>6, YoungOfWithin
<1>10. \A age \in 1..n : Young(w, age) <= Young(t, age)
  <2> TAKE age \in 1..n
  <2>1. Young(w, age) = Young(u, age)
    <3> HIDE DEF u, w
    <3> QED
      BY <1>9
  <2>2. Young(u, age) <= Young(t, age)
    BY <1>1, <1>3, AgedShrinks
  <2> HIDE DEF u, w
  <2> QED
    BY <2>1, <2>2
<1>11. ASSUME NEW top \in Nat, NEW age \in Nat, NEW log \in Logs(top),
              age <= n, age <= top, InOrder(log), Covers(log, t, age)
       PROVE  Covers(Aged(log, top), w, age)
  <2>1. Covers(Aged(log, top), u, age)
    BY <1>1, <1>3, <1>11, CoversAged
  <2>2. \A x \in 0..age : x \in 0..n
    BY <1>1, <1>11
  <2> HIDE DEF u, w
  <2> QED
    BY <2>1, <2>2, <1>9 DEF Covers
<1>12. Len(w) <= Len(t)
  BY <1>7, <1>8
<1> QED
  <2> HIDE DEF w
  <2>1. /\ w \in Logs(n - 1) /\ InOrder(w) /\ Len(w) <= Len(t)
        /\ \A age \in 1..n : Young(w, age) <= Young(t, age)
        /\ \A top \in Nat, age \in Nat : \A log \in Logs(top) :
                 age <= n /\ age <= top /\ InOrder(log) /\ Covers(log, t, age) =>
                    Covers(Aged(log, top), w, age)
    BY <1>7, <1>10, <1>11, <1>12
  <2> QED
    BY <2>1 DEF w

-----------------------------------------------------------------------------
(* Rate limits: the limiter of the admins.                                 *)

LEMMA ActorLogs ==
    ASSUME ActorsInv, NEW a \in Admins
    PROVE  /\ attempts[a] \in Logs(Day + 1) /\ daily[a] \in Logs(Day + 1) /\ granted[a] \in Logs(Day)
           /\ ActorFits(a) /\ Day + 1 \in Nat /\ Day \in Nat /\ Window \in Nat
BY LimitConstants DEF ActorsInv

\* The daily logs of all admins, and what was let through.
DailyFits(d, g) ==
    /\ d \in [Admins -> Logs(Day + 1)]
    /\ \A a \in Admins : InOrder(d[a]) /\ Covers(d[a], g[a], Day + 1)

LEMMA DailyWithin ==
    ASSUME NEW log \in Logs(Day + 1), InOrder(log), NEW t, Covers(log, t, Day + 1)
    PROVE  /\ Within(log, Day + 1) \in Logs(Day + 1) /\ InOrder(Within(log, Day + 1))
           /\ Covers(Within(log, Day + 1), t, Day + 1)
<1>1. Day + 1 \in Nat
  BY LimitConstants
<1>2. log \in Seq(Nat)
  BY <1>1, LogsAre
<1> QED
  BY <1>1, <1>2, WithinLog, CoversWithin

LEMMA PrunedFits ==
    ASSUME NEW d, NEW g, DailyFits(d, g)
    PROVE  DailyFits(Pruned(d), g)
<1>1. \A a \in Admins : /\ Within(d[a], Day + 1) \in Logs(Day + 1) /\ InOrder(Within(d[a], Day + 1))
                        /\ Covers(Within(d[a], Day + 1), g[a], Day + 1)
  BY DailyWithin DEF DailyFits
<1>2. CASE calls + 1 = PruneEvery
  <2> DEFINE e == [a \in Admins |-> Within(d[a], Day + 1)]
  <2>1. Pruned(d) = e
    BY <1>2 DEF Pruned
  <2>2. e \in [Admins -> Logs(Day + 1)] /\ \A a \in Admins : e[a] = Within(d[a], Day + 1)
    BY <1>1
  <2> HIDE DEF e
  <2> QED
    BY <2>1, <2>2, <1>1 DEF DailyFits
<1>3. CASE calls + 1 # PruneEvery
  BY <1>3 DEF Pruned
<1> QED
  BY <1>2, <1>3

\* One admin's day log or window log is trimmed; nothing is let through.
LEMMA ActorRefused ==
    ASSUME ActorsInv, NEW a \in Admins, UNCHANGED <<calls, granted>>,
           attempts' \in {attempts, [attempts EXCEPT ![a] = Within(attempts[a], Window)]},
           daily' = [daily EXCEPT ![a] = Today(a)]
    PROVE  ActorsInv'
<1>1. /\ attempts[a] \in Logs(Day + 1) /\ daily[a] \in Logs(Day + 1) /\ granted[a] \in Logs(Day)
      /\ ActorFits(a) /\ Day + 1 \in Nat /\ Day \in Nat /\ Window \in Nat
  BY ActorLogs
<1>2. /\ Today(a) \in Logs(Day + 1) /\ InOrder(Today(a)) /\ Covers(Today(a), granted[a], Day + 1)
  BY <1>1, DailyWithin DEF ActorFits, Today
<1> DEFINE recent == Within(attempts[a], Window)
<1>3. recent \in Logs(Day + 1) /\ InOrder(recent) /\ Covers(recent, granted[a], Window)
  <2>1. attempts[a] \in Seq(Nat)
    BY <1>1, LogsAre
  <2> QED
    BY <1>1, <2>1, WithinLog, CoversWithin DEF ActorFits
<1> HIDE DEF recent
<1>4. attempts' \in {attempts, [attempts EXCEPT ![a] = recent]}
  BY DEF recent
<1>5. attempts' \in [Admins -> Logs(Day + 1)] /\ daily' \in [Admins -> Logs(Day + 1)]
  BY <1>2, <1>3, <1>4 DEF ActorsInv
<1>6. /\ attempts'[a] \in {attempts[a], recent} /\ daily'[a] = Today(a)
      /\ \A b \in Admins : b # a => attempts'[b] = attempts[b] /\ daily'[b] = daily[b]
  BY <1>4 DEF ActorsInv
<1>7. ASSUME NEW b \in Admins PROVE ActorFits(b)'
  <2>1. CASE b = a
    BY <2>1, <1>1, <1>2, <1>3, <1>6 DEF ActorFits
  <2>2. CASE b # a
    BY <2>2, <1>6 DEF ActorsInv, ActorFits
  <2> QED
    BY <2>1, <2>2
<1> QED
  BY <1>5, <1>7 DEF ActorsInv

LEMMA ActorGranted ==
    ASSUME ActorsInv, NEW a \in Admins,
           Len(Today(a)) < MaxPerDay, Len(Within(attempts[a], Window)) < MaxInWindow,
           attempts' = [attempts EXCEPT ![a] = Append(Within(attempts[a], Window), 0)],
           daily' = Pruned([[daily EXCEPT ![a] = Today(a)] EXCEPT ![a] = Append(@, 0)]),
           calls' = Counted(calls),
           granted' = [granted EXCEPT ![a] = Append(@, 0)]
    PROVE  ActorsInv'
<1>1. /\ attempts[a] \in Logs(Day + 1) /\ daily[a] \in Logs(Day + 1) /\ granted[a] \in Logs(Day)
      /\ ActorFits(a) /\ Day + 1 \in Nat /\ Day \in Nat /\ Window \in Nat
  BY ActorLogs
<1>2. granted[a] \in Seq(Nat) /\ attempts[a] \in Seq(Nat) /\ daily[a] \in Seq(Nat)
  BY <1>1, LogsAre
<1> DEFINE recent == Within(attempts[a], Window)  today == Today(a)
<1>3. /\ today \in Logs(Day + 1) /\ InOrder(today) /\ Covers(today, granted[a], Day + 1)
      /\ Len(today) = Young(daily[a], Day + 1)
  BY <1>1, DailyWithin, WithinLog DEF ActorFits, Today
<1>4. /\ recent \in Logs(Day + 1) /\ InOrder(recent) /\ Covers(recent, granted[a], Window)
      /\ Len(recent) = Young(attempts[a], Window)
  BY <1>1, <1>2, WithinLog, CoversWithin DEF ActorFits
<1>5. Len(today) < MaxPerDay /\ Len(recent) < MaxInWindow
  OBVIOUS
<1> HIDE DEF recent, today
<1>6. today \in Seq(Nat) /\ recent \in Seq(Nat) /\ InOrder(granted[a])
  BY <1>1, <1>3, <1>4, LogsAre DEF ActorFits
<1> DEFINE g == Append(granted[a], 0)  r == Append(recent, 0)  d == Append(today, 0)
<1>7. /\ g \in Logs(Day) /\ InOrder(g) /\ Len(g) = Len(granted[a]) + 1
      /\ Young(g, Window) = Young(granted[a], Window) + 1
  BY <1>1, <1>6, NowLog, LimitConstants
<1>8. r \in Logs(Day + 1) /\ InOrder(r) /\ Covers(r, g, Window)
  BY <1>1, <1>2, <1>4, <1>6, NowLog, CoversAppend
<1>9. d \in Logs(Day + 1) /\ InOrder(d) /\ Covers(d, g, Day + 1)
  BY <1>1, <1>2, <1>3, <1>6, NowLog, CoversAppend
<1>10. Len(g) <= MaxPerDay
  <2>1. Young(granted[a], Day + 1) = Len(granted[a])
    <3>1. \A i \in 1..Len(granted[a]) : granted[a][i] < Day + 1
      BY <1>1, LogsAre
    <3> QED
      BY <3>1, <1>1, <1>2, <1>6, YoungAll
  <2>2. Day + 1 \in 0..(Day + 1)
    BY <1>1
  <2>3. Young(granted[a], Day + 1) <= Young(daily[a], Day + 1)
    BY <2>2, <1>1 DEF ActorFits, Covers
  <2>4. Len(granted[a]) \in Nat /\ InOrder(daily[a])
    BY <1>1, <1>2 DEF ActorFits
  <2>5. Young(daily[a], Day + 1) \in Nat
    BY <1>1, <1>2, <2>4, YoungIs
  <2> QED
    BY <2>1, <2>3, <2>4, <2>5, <1>3, <1>5, <1>7, LimitConstants
<1>11. Young(g, Window) <= MaxInWindow
  <2>1. Window \in 0..Window
    BY <1>1
  <2>2. Young(granted[a], Window) <= Young(attempts[a], Window)
    BY <2>1, <1>1 DEF ActorFits, Covers
  <2>3. Young(attempts[a], Window) \in Nat /\ Young(granted[a], Window) \in Nat
    BY <1>1, <1>2, YoungIs DEF ActorFits
  <2> QED
    BY <2>2, <2>3, <1>4, <1>5, <1>7, LimitConstants
<1>12. /\ attempts' = [attempts EXCEPT ![a] = r] /\ granted' = [granted EXCEPT ![a] = g]
       /\ daily' = Pruned([daily EXCEPT ![a] = d])
  <2>1. [[daily EXCEPT ![a] = today] EXCEPT ![a] = Append(@, 0)] = [daily EXCEPT ![a] = d]
    BY DEF ActorsInv
  <2> QED
    BY <2>1 DEF recent, today
<1> HIDE DEF g, r, d
<1>13. /\ attempts' \in [Admins -> Logs(Day + 1)] /\ granted' \in [Admins -> Logs(Day)]
       /\ attempts'[a] = r /\ granted'[a] = g
       /\ \A b \in Admins : b # a => attempts'[b] = attempts[b] /\ granted'[b] = granted[b]
  BY <1>7, <1>8, <1>12 DEF ActorsInv
<1>14. DailyFits([daily EXCEPT ![a] = d], granted')
  <2> DEFINE e == [daily EXCEPT ![a] = d]
  <2>1. /\ e \in [Admins -> Logs(Day + 1)] /\ e[a] = d
        /\ \A b \in Admins : b # a => e[b] = daily[b]
    BY <1>9 DEF ActorsInv
  <2> HIDE DEF e
  <2>2. ASSUME NEW b \in Admins PROVE InOrder(e[b]) /\ Covers(e[b], granted'[b], Day + 1)
    <3>1. CASE b = a
      BY <3>1, <2>1, <1>9, <1>13
    <3>2. CASE b # a
      BY <3>2, <2>1, <1>13 DEF ActorsInv, ActorFits
    <3> QED
      BY <3>1, <3>2
  <2>3. DailyFits(e, granted')
    BY <2>1, <2>2 DEF DailyFits
  <2> QED
    BY <2>3 DEF e
<1>15. DailyFits(daily', granted')
  BY <1>12, <1>14, PrunedFits
<1>16. ASSUME NEW b \in Admins PROVE ActorFits(b)'
  <2>1. InOrder(daily'[b]) /\ Covers(daily'[b], granted'[b], Day + 1)
    BY <1>15 DEF DailyFits
  <2>2. CASE b = a
    BY <2>1, <2>2, <1>7, <1>8, <1>10, <1>11, <1>13 DEF ActorFits
  <2>3. CASE b # a
    BY <2>1, <2>3, <1>13 DEF ActorsInv, ActorFits
  <2> QED
    BY <2>2, <2>3
<1>17. calls' \in 0..(PruneEvery - 1)
  BY CountedIs DEF ActorsInv
<1> QED
  BY <1>13, <1>15, <1>16, <1>17 DEF ActorsInv, DailyFits

LEMMA ActorTickSafe ==
    ASSUME ActorsInv, ActorTick
    PROVE  ActorsInv'
<1>0. Day + 1 \in Nat \ {0} /\ Day \in Nat /\ Window \in 1..(Day + 1) /\ Day + 1 \in 1..(Day + 1)
      /\ Window \in Nat /\ Window <= Day + 1 /\ Day + 1 - 1 = Day
  BY LimitConstants
<1> DEFINE w(a) == Within(Aged(granted[a], Day + 1), Day + 1)
<1>1. ASSUME NEW a \in Admins
      PROVE  /\ Aged(attempts[a], Day + 1) \in Logs(Day + 1) /\ InOrder(Aged(attempts[a], Day + 1))
             /\ Aged(daily[a], Day + 1) \in Logs(Day + 1) /\ InOrder(Aged(daily[a], Day + 1))
             /\ w(a) \in Logs(Day) /\ InOrder(w(a))
             /\ Len(w(a)) <= MaxPerDay /\ Young(w(a), Window) <= MaxInWindow
             /\ Covers(Aged(attempts[a], Day + 1), w(a), Window)
             /\ Covers(Aged(daily[a], Day + 1), w(a), Day + 1)
  <2>1. /\ attempts[a] \in Logs(Day + 1) /\ daily[a] \in Logs(Day + 1) /\ granted[a] \in Logs(Day)
        /\ ActorFits(a)
    BY ActorLogs
  <2>2. attempts[a] \in Seq(0..(Day + 1)) /\ daily[a] \in Seq(0..(Day + 1))
    BY <2>1 DEF Logs
  <2>3. /\ Aged(attempts[a], Day + 1) \in Logs(Day + 1) /\ InOrder(Aged(attempts[a], Day + 1))
        /\ Aged(daily[a], Day + 1) \in Logs(Day + 1) /\ InOrder(Aged(daily[a], Day + 1))
    BY <2>1, <2>2, <1>0, AgedIs DEF Logs, ActorFits
  <2>4. granted[a] \in Logs(Day + 1 - 1)
    BY <2>1, <1>0
  <2> DEFINE t == granted[a]  n == Day + 1
  <2>5. /\ w(a) \in Logs(n - 1) /\ InOrder(w(a)) /\ Len(w(a)) <= Len(t)
        /\ \A age \in 1..n : Young(w(a), age) <= Young(t, age)
        /\ \A top \in Nat, age \in Nat : \A log \in Logs(top) :
                 age <= n /\ age <= top /\ InOrder(log) /\ Covers(log, t, age) =>
                    Covers(Aged(log, top), w(a), age)
    BY <2>1, <2>4, <1>0, ThroughTick DEF ActorFits
  <2> HIDE DEF w, n
  <2>6. n = Day + 1 /\ n \in Nat
    BY <1>0 DEF n
  <2>7. /\ Covers(Aged(attempts[a], Day + 1), w(a), Window)
        /\ Covers(Aged(daily[a], Day + 1), w(a), Day + 1)
    BY <2>1, <2>5, <2>6, <1>0 DEF ActorFits
  <2>8. Young(w(a), Window) <= Young(granted[a], Window)
    BY <2>5, <2>6, <1>0
  <2>9. granted[a] \in Seq(Nat) /\ Len(granted[a]) \in Nat /\ w(a) \in Seq(Nat) /\ Len(w(a)) \in Nat
    BY <2>1, <2>5, <2>6, <1>0, LogsAre
  <2>10. Young(w(a), Window) \in Nat /\ Young(granted[a], Window) \in Nat
    BY <2>1, <2>5, <2>9, <1>0, YoungIs DEF ActorFits
  <2>11. Len(w(a)) <= MaxPerDay
    BY <2>1, <2>5, <2>9, LimitConstants DEF ActorFits
  <2>12. Young(w(a), Window) <= MaxInWindow
    BY <2>1, <2>8, <2>10, LimitConstants DEF ActorFits
  <2>13. w(a) \in Logs(Day)
    BY <2>5, <2>6, <1>0
  <2> QED
    BY <2>3, <2>5, <2>7, <2>11, <2>12, <2>13
<1>2. /\ attempts' = [a \in Admins |-> Aged(attempts[a], Day + 1)]
      /\ daily' = [a \in Admins |-> Aged(daily[a], Day + 1)]
      /\ granted' = [a \in Admins |-> w(a)] /\ calls' = calls
  BY DEF ActorTick
<1> HIDE DEF w
<1>3. /\ attempts' \in [Admins -> Logs(Day + 1)] /\ daily' \in [Admins -> Logs(Day + 1)]
      /\ granted' \in [Admins -> Logs(Day)]
  BY <1>1, <1>2
<1>4. ASSUME NEW a \in Admins PROVE ActorFits(a)'
  BY <1>1, <1>2 DEF ActorFits
<1> QED
  BY <1>2, <1>3, <1>4 DEF ActorsInv

LEMMA ActorsInvStep ==
    ASSUME ActorsInv, ActorNext
    PROVE  ActorsInv'
<1>1. ASSUME NEW a \in Admins, ActorCheck(a) PROVE ActorsInv'
  <2>1. CASE /\ daily' = [daily EXCEPT ![a] = Today(a)] /\ UNCHANGED <<calls, granted>>
             /\ attempts' \in {attempts, [attempts EXCEPT ![a] = Within(attempts[a], Window)]}
    BY <2>1, ActorRefused
  <2>2. CASE /\ Len(Today(a)) < MaxPerDay /\ Len(Within(attempts[a], Window)) < MaxInWindow
             /\ attempts' = [attempts EXCEPT ![a] = Append(Within(attempts[a], Window), 0)]
             /\ daily' = Pruned([[daily EXCEPT ![a] = Today(a)] EXCEPT ![a] = Append(@, 0)])
             /\ calls' = Counted(calls)
             /\ granted' = [granted EXCEPT ![a] = Append(@, 0)]
    BY <2>2, ActorGranted
  <2> QED
    BY <1>1, <2>1, <2>2 DEF ActorCheck
<1> QED
  BY <1>1, ActorTickSafe DEF ActorNext

-----------------------------------------------------------------------------
(* Rate limits: the limiter of the networks.                               *)

LEMMA StaleBare ==
    ASSUME NEW log \in Seq(Nat), InOrder(log), NEW age \in Nat, log = <<>> \/ Last(log) >= age
    PROVE  \A x \in 0..age : Young(log, x) = 0
<1>1. Len(log) \in Nat /\ \A i \in 1..Len(log) : log[i] \in Nat
  OBVIOUS
<1>2. ASSUME NEW i \in 1..Len(log) PROVE log[i] >= age
  <2>1. log # <<>> /\ Len(log) \in 1..Len(log) /\ i <= Len(log)
    BY <1>1
  <2>2. log[i] >= log[Len(log)] /\ log[Len(log)] >= age
    BY <2>1 DEF InOrder, Last
  <2> QED
    BY <2>1, <2>2, <1>1
<1>3. Begins(log, age, Len(log) + 1)
  BY <1>1, <1>2 DEF Begins
<1>4. Young(log, age) = 0
  BY <1>1, <1>3, YoungFrom
<1>5. ASSUME NEW x \in 0..age PROVE Young(log, x) = 0
  <2>1. x \in Nat /\ x <= age
    OBVIOUS
  <2>2. Young(log, x) <= Young(log, age) /\ Young(log, x) \in Nat
    BY <2>1, YoungGrows
  <2> QED
    BY <2>2, <1>4
<1> QED
  BY <1>5

\* The bucket that was used is the last of the order, which grows by at most one, and
\* not at all if one of those that moved or went was there.
LEMMA MovedIs ==
    ASSUME order \in Seq(Buckets), NEW b \in Buckets, NEW evicted
    PROVE  /\ MovedToEnd(b, evicted) \in Seq(Buckets)
           /\ ToSet(MovedToEnd(b, evicted)) = (ToSet(order) \ evicted) \union {b}
           /\ Len(MovedToEnd(b, evicted)) <= Len(order) + 1
           /\ \A x \in {b} \union evicted :
                 x \in ToSet(order) => Len(MovedToEnd(b, evicted)) <= Len(order)
<1> DEFINE gone == {b} \union evicted  w == Without(order, gone)  o == Append(w, b)
<1>1. /\ w \in Seq(Buckets) /\ ToSet(w) = ToSet(order) \ gone
      /\ Len(w) <= Len(order) /\ Len(w) \in Nat /\ Len(order) \in Nat
      /\ \A x \in gone : x \in ToSet(order) => Len(w) < Len(order)
  BY WithoutIs
<1>2. MovedToEnd(b, evicted) = o
  BY DEF MovedToEnd
<1> HIDE DEF w
<1>3. /\ o \in Seq(Buckets) /\ Len(o) = Len(w) + 1 /\ o[Len(w) + 1] = b
      /\ \A i \in 1..Len(w) : o[i] = w[i]
  BY <1>1
<1> HIDE DEF o
<1>4. ToSet(o) = ToSet(w) \union {b}
  <2>1. DOMAIN o = 1..(Len(w) + 1) /\ DOMAIN w = 1..Len(w)
    BY <1>1, <1>3
  <2>2. ASSUME NEW i \in DOMAIN o PROVE o[i] \in ToSet(w) \union {b}
    <3>1. CASE i = Len(w) + 1
      BY <3>1, <1>3
    <3>2. CASE i # Len(w) + 1
      <4>1. i \in 1..Len(w)
        BY <3>2, <2>1, <1>1
      <4> QED
        BY <4>1, <2>1, <1>3 DEF ToSet
    <3> QED
      BY <3>1, <3>2
  <2>3. ASSUME NEW x \in ToSet(w) PROVE x \in ToSet(o)
    <3>1. PICK i \in 1..Len(w) : w[i] = x
      BY <2>1 DEF ToSet
    <3>2. i \in DOMAIN o /\ o[i] = x
      BY <3>1, <2>1, <1>1, <1>3
    <3> QED
      BY <3>2 DEF ToSet
  <2>4. b \in ToSet(o)
    <3>1. Len(w) + 1 \in DOMAIN o
      BY <2>1, <1>1
    <3> QED
      BY <3>1, <1>3 DEF ToSet
  <2> QED
    BY <2>2, <2>3, <2>4 DEF ToSet
<1>5. ToSet(o) = (ToSet(order) \ evicted) \union {b}
  BY <1>1, <1>4
<1>6. Len(o) <= Len(order) + 1
  BY <1>1, <1>3
<1>7. \A x \in gone : x \in ToSet(order) => Len(o) <= Len(order)
  BY <1>1, <1>3
<1> QED
  BY <1>2, <1>3, <1>5, <1>6, <1>7

LEMMA TableLogs ==
    ASSUME NEW t, NEW p, NEW o, TableFits(t, p, o), NEW b \in Buckets
    PROVE  /\ t[b] \in Logs(Window) /\ p[b] \in Logs(Window - 1)
           /\ t[b] \in Seq(Nat) /\ p[b] \in Seq(Nat) /\ InOrder(t[b]) /\ InOrder(p[b])
           /\ Covers(t[b], p[b], Window) /\ Len(p[b]) <= MaxAttempts
           /\ t[b] # <<>> => b \in ToSet(o)
<1>1. Window \in Nat /\ Window - 1 \in Nat
  BY LimitConstants
<1>2. t[b] \in Logs(Window) /\ p[b] \in Logs(Window - 1)
  BY DEF TableFits
<1>3. t[b] \in Seq(Nat) /\ p[b] \in Seq(Nat)
  BY <1>1, <1>2, LogsAre
<1> QED
  BY <1>2, <1>3 DEF TableFits

\* Storing a table and dropping its stale buckets, which cover nothing.
LEMMA StoreSafe ==
    ASSUME NEW t, NEW p, NEW o, TableFits(t, p, o), StoreAndPrune(t, o), passed' = p,
           asked \in 0..(PruneEvery - 1)
    PROVE  BucketsInv'
<1>1. PICK old \in SUBSET {b \in ToSet(o) : Stale(t, b)} :
         /\ table' = [b \in Buckets |-> IF b \in old THEN <<>> ELSE t[b]]
         /\ order' = Without(o, old)
         /\ asked' = Counted(asked)
  BY DEF StoreAndPrune
<1>2. Window \in Nat /\ o \in Seq(Buckets) /\ Len(o) <= MaxBuckets /\ MaxBuckets \in Nat
  BY LimitConstants DEF TableFits
<1>3. /\ order' \in Seq(Buckets) /\ ToSet(order') = ToSet(o) \ old
      /\ Len(order') <= Len(o) /\ Len(order') \in Nat /\ Len(o) \in Nat
  BY <1>1, <1>2, WithoutIs
<1>4. \A b \in Buckets : table'[b] = IF b \in old THEN <<>> ELSE t[b]
  BY <1>1
<1>5. <<>> \in Logs(Window) /\ InOrder(<<>>) /\ \A x \in Nat : Young(<<>>, x) = 0
  BY <1>2, EmptyLog
<1>6. table' \in [Buckets -> Logs(Window)]
  <2>1. \A b \in Buckets : (IF b \in old THEN <<>> ELSE t[b]) \in Logs(Window)
    BY <1>5, TableLogs
  <2> QED
    BY <2>1, <1>1
<1>7. ASSUME NEW b \in Buckets
      PROVE  /\ InOrder(table'[b]) /\ InOrder(p[b]) /\ Covers(table'[b], p[b], Window)
             /\ Len(p[b]) <= MaxAttempts /\ (table'[b] # <<>> => b \in ToSet(order'))
  <2>1. /\ t[b] \in Seq(Nat) /\ p[b] \in Seq(Nat) /\ InOrder(t[b]) /\ InOrder(p[b])
        /\ Covers(t[b], p[b], Window) /\ Len(p[b]) <= MaxAttempts
        /\ t[b] # <<>> => b \in ToSet(o)
    BY TableLogs
  <2>2. CASE b \in old
    <3>1. t[b] = <<>> \/ Last(t[b]) >= Window
      BY <2>2 DEF Stale
    <3>2. \A x \in 0..Window : Young(t[b], x) = 0 /\ x \in Nat
      BY <3>1, <2>1, <1>2, StaleBare
    <3>3. Covers(<<>>, p[b], Window)
      BY <3>2, <2>1, <1>5 DEF Covers
    <3> QED
      BY <3>3, <2>1, <2>2, <1>4, <1>5
  <2>3. CASE b \notin old
    BY <2>1, <2>3, <1>3, <1>4
  <2> QED
    BY <2>2, <2>3
<1>8. p \in [Buckets -> Logs(Window - 1)]
  BY DEF TableFits
<1>9. TableFits(table', p, order')
  BY <1>2, <1>3, <1>6, <1>7, <1>8 DEF TableFits
<1>10. asked' \in 0..(PruneEvery - 1)
  BY <1>1, CountedIs
<1> QED
  BY <1>9, <1>10 DEF BucketsInv

LEMMA BucketLogs ==
    ASSUME BucketsInv, NEW b \in Buckets
    PROVE  LET recent == Within(table[b], Window)
           IN  /\ recent \in Logs(Window) /\ InOrder(recent) /\ Covers(recent, passed[b], Window)
               /\ Len(recent) = Young(table[b], Window) /\ Len(recent) \in Nat
               /\ recent \in Seq(Nat)
               /\ Len(recent) > 0 => b \in ToSet(order)
               /\ Len(passed[b]) <= Len(recent) /\ Len(passed[b]) \in Nat
<1> DEFINE recent == Within(table[b], Window)
<1>1. /\ table[b] \in Logs(Window) /\ passed[b] \in Logs(Window - 1)
      /\ table[b] \in Seq(Nat) /\ passed[b] \in Seq(Nat)
      /\ InOrder(table[b]) /\ InOrder(passed[b])
      /\ Covers(table[b], passed[b], Window)
      /\ table[b] # <<>> => b \in ToSet(order)
  BY TableLogs DEF BucketsInv
<1>2. Window \in Nat /\ 0 < Window /\ Window - 1 \in Nat
  BY LimitConstants
<1>3. /\ recent \in Logs(Window) /\ InOrder(recent) /\ Len(recent) = Young(table[b], Window)
      /\ Young(table[b], Window) <= Len(table[b]) /\ Young(table[b], Window) \in Nat
  BY <1>1, <1>2, WithinLog
<1>4. Covers(recent, passed[b], Window)
  BY <1>1, <1>2, CoversWithin
<1> HIDE DEF recent
<1>5. recent \in Seq(Nat)
  BY <1>2, <1>3, LogsAre
<1>6. Len(recent) > 0 => b \in ToSet(order)
  BY <1>1, <1>3
<1>7. Young(passed[b], Window) = Len(passed[b])
  <2>1. \A i \in 1..Len(passed[b]) : passed[b][i] \in 0..(Window - 1)
    BY <1>1, <1>2, LogsAre
  <2>2. \A i \in 1..Len(passed[b]) : passed[b][i] < Window
    BY <2>1, <1>2
  <2> QED
    BY <2>2, <1>1, <1>2, YoungAll
<1>8. Window \in 0..Window
  BY <1>2
<1>9. Young(passed[b], Window) <= Young(table[b], Window)
  BY <1>1, <1>8 DEF Covers
<1>10. Len(passed[b]) \in Nat
  BY <1>1
<1> QED
  BY <1>3, <1>4, <1>5, <1>6, <1>7, <1>9, <1>10 DEF recent

\* A call of a network that has used up its window is refused, and its log trimmed.
LEMMA BucketRefused ==
    ASSUME BucketsInv, NEW b \in Buckets, Len(Within(table[b], Window)) >= MaxAttempts,
           StoreAndPrune([table EXCEPT ![b] = Within(table[b], Window)], MovedToEnd(b, {})),
           UNCHANGED passed
    PROVE  BucketsInv'
<1> DEFINE recent == Within(table[b], Window)
<1>1. /\ recent \in Logs(Window) /\ InOrder(recent) /\ Covers(recent, passed[b], Window)
      /\ Len(recent) \in Nat /\ (Len(recent) > 0 => b \in ToSet(order))
  BY BucketLogs
<1>2. b \in ToSet(order)
  BY <1>1, LimitConstants
<1> HIDE DEF recent
<1> DEFINE t == [table EXCEPT ![b] = recent]  o == MovedToEnd(b, {})
<1>3. order \in Seq(Buckets) /\ Len(order) <= MaxBuckets /\ TableFits(table, passed, order)
  BY DEF BucketsInv, TableFits
<1>4. /\ o \in Seq(Buckets) /\ ToSet(o) = ToSet(order) \union {b} /\ Len(o) <= Len(order)
  BY <1>2, <1>3, MovedIs
<1>5. /\ t \in [Buckets -> Logs(Window)] /\ t[b] = recent
      /\ \A x \in Buckets : x # b => t[x] = table[x]
  BY <1>1 DEF BucketsInv, TableFits
<1>6. StoreAndPrune(t, o)
  BY DEF recent
<1> HIDE DEF t, o
<1>7. TableFits(t, passed, o)
  <2>1. Len(o) <= MaxBuckets /\ passed \in [Buckets -> Logs(Window - 1)]
    BY <1>3, <1>4, LimitConstants DEF TableFits
  <2>2. ASSUME NEW x \in Buckets
        PROVE  /\ InOrder(t[x]) /\ InOrder(passed[x]) /\ Covers(t[x], passed[x], Window)
               /\ Len(passed[x]) <= MaxAttempts /\ (t[x] # <<>> => x \in ToSet(o))
    <3>1. /\ InOrder(table[x]) /\ InOrder(passed[x]) /\ Covers(table[x], passed[x], Window)
          /\ Len(passed[x]) <= MaxAttempts /\ (table[x] # <<>> => x \in ToSet(order))
      BY <1>3, TableLogs
    <3>2. CASE x = b
      BY <3>1, <3>2, <1>1, <1>4, <1>5
    <3>3. CASE x # b
      BY <3>1, <3>3, <1>4, <1>5
    <3> QED
      BY <3>2, <3>3
  <2> QED
    BY <2>1, <2>2, <1>4, <1>5 DEF TableFits
<1> QED
  BY <1>6, <1>7, StoreSafe DEF BucketsInv

\* A call that is let through is written down, in a full table instead of the bucket
\* unused for longest.
LEMMA BucketGranted ==
    ASSUME BucketsInv, NEW b \in Buckets, Len(Within(table[b], Window)) < MaxAttempts,
           NEW evicted,
           evicted = IF b \notin ToSet(order) /\ Len(order) >= MaxBuckets
                     THEN {Head(order)} ELSE {},
           NEW t,
           t = [[x \in Buckets |-> IF x \in evicted THEN <<>> ELSE table[x]]
                  EXCEPT ![b] = Append(Within(table[b], Window), 0)],
           StoreAndPrune(t, MovedToEnd(b, evicted)),
           passed' = [x \in Buckets |->
                        LET log == IF x \in evicted THEN <<>> ELSE passed[x]
                        IN  IF x = b THEN Append(log, 0) ELSE log]
    PROVE  BucketsInv'
<1> DEFINE recent == Within(table[b], Window)
<1>0. Window \in Nat /\ Window - 1 \in Nat /\ MaxBuckets \in Nat \ {0} /\ MaxAttempts \in Nat
  BY LimitConstants
<1>1. /\ recent \in Logs(Window) /\ InOrder(recent) /\ Covers(recent, passed[b], Window)
      /\ recent \in Seq(Nat) /\ Len(recent) \in Nat
      /\ Len(passed[b]) <= Len(recent) /\ Len(passed[b]) \in Nat
  BY BucketLogs
<1>2. Len(recent) < MaxAttempts /\ t = [[x \in Buckets |-> IF x \in evicted THEN <<>> ELSE table[x]]
                                          EXCEPT ![b] = Append(recent, 0)]
  OBVIOUS
<1> HIDE DEF recent
<1>3. order \in Seq(Buckets) /\ Len(order) <= MaxBuckets /\ TableFits(table, passed, order)
  BY DEF BucketsInv, TableFits
<1>4. evicted \subseteq ToSet(order) /\ b \notin evicted
      /\ (b \in ToSet(order) \/ evicted # {} \/ Len(order) < MaxBuckets)
  <2>1. CASE b \notin ToSet(order) /\ Len(order) >= MaxBuckets
    <3>1. Len(order) \in Nat /\ 1 \in DOMAIN order /\ Head(order) = order[1]
      BY <2>1, <1>0, <1>3
    <3>2. Head(order) \in ToSet(order)
      BY <3>1 DEF ToSet
    <3> QED
      BY <2>1, <3>2
  <2>2. CASE b \in ToSet(order) \/ ~(Len(order) >= MaxBuckets)
    <3>1. Len(order) \in Nat
      BY <1>3
    <3> QED
      BY <2>2, <3>1, <1>0
  <2> QED
    BY <2>1, <2>2
<1> DEFINE o == MovedToEnd(b, evicted)
<1>5. /\ o \in Seq(Buckets) /\ ToSet(o) = (ToSet(order) \ evicted) \union {b}
      /\ Len(o) <= MaxBuckets
  <2>1. /\ o \in Seq(Buckets) /\ ToSet(o) = (ToSet(order) \ evicted) \union {b}
        /\ Len(o) <= Len(order) + 1
        /\ \A x \in {b} \union evicted : x \in ToSet(order) => Len(o) <= Len(order)
    BY <1>3, MovedIs
  <2> HIDE DEF o
  <2>2. Len(o) \in Nat /\ Len(order) \in Nat
    BY <2>1, <1>3
  <2>3. Len(o) <= Len(order) \/ Len(order) < MaxBuckets
    BY <2>1, <1>4
  <2> QED
    BY <2>1, <2>2, <2>3, <1>0, <1>3
<1> DEFINE p == [x \in Buckets |-> LET log == IF x \in evicted THEN <<>> ELSE passed[x]
                                   IN  IF x = b THEN Append(log, 0) ELSE log]
<1>6. /\ StoreAndPrune(t, o) /\ passed' = p
  OBVIOUS
<1> HIDE DEF o
<1>7. /\ <<>> \in Logs(Window) /\ <<>> \in Logs(Window - 1) /\ InOrder(<<>>) /\ Len(<<>>) = 0
      /\ \A x \in Nat : Young(<<>>, x) = 0
  BY <1>0, EmptyLog
<1>8. Append(recent, 0) \in Logs(Window) /\ InOrder(Append(recent, 0))
  BY <1>0, <1>1, NowLog
<1>9. /\ passed[b] \in Logs(Window - 1) /\ passed[b] \in Seq(Nat) /\ InOrder(passed[b])
  BY <1>3, TableLogs
<1>10. /\ Append(passed[b], 0) \in Logs(Window - 1) /\ InOrder(Append(passed[b], 0))
       /\ Len(Append(passed[b], 0)) <= MaxAttempts
  <2>1. Append(passed[b], 0) \in Logs(Window - 1) /\ InOrder(Append(passed[b], 0))
        /\ Len(Append(passed[b], 0)) = Len(passed[b]) + 1
    BY <1>0, <1>9, NowLog
  <2> QED
    BY <2>1, <1>0, <1>1, <1>2
<1>11. Covers(Append(recent, 0), Append(passed[b], 0), Window)
  BY <1>0, <1>1, <1>9, CoversAppend
<1>12. /\ t[b] = Append(recent, 0) /\ p[b] = Append(passed[b], 0)
       /\ \A x \in Buckets : x # b => /\ t[x] = IF x \in evicted THEN <<>> ELSE table[x]
                                      /\ p[x] = IF x \in evicted THEN <<>> ELSE passed[x]
       /\ DOMAIN t = Buckets
       /\ t = [x \in Buckets |-> t[x]] /\ p = [x \in Buckets |-> p[x]]
  BY <1>2, <1>4
<1> HIDE DEF p
<1>13. ASSUME NEW x \in Buckets
       PROVE  /\ t[x] \in Logs(Window) /\ p[x] \in Logs(Window - 1)
              /\ InOrder(t[x]) /\ InOrder(p[x]) /\ Covers(t[x], p[x], Window)
              /\ Len(p[x]) <= MaxAttempts /\ (t[x] # <<>> => x \in ToSet(o))
  <2>1. CASE x = b
    BY <2>1, <1>5, <1>8, <1>10, <1>11, <1>12
  <2>2. CASE x # b /\ x \in evicted
    <3>1. t[x] = <<>> /\ p[x] = <<>>
      BY <2>2, <1>12
    <3>2. Covers(<<>>, <<>>, Window)
      BY <1>7 DEF Covers
    <3> QED
      BY <3>1, <3>2, <1>0, <1>7
  <2>3. CASE x # b /\ x \notin evicted
    <3>1. t[x] = table[x] /\ p[x] = passed[x]
      BY <2>3, <1>12
    <3> QED
      BY <2>3, <3>1, <1>3, <1>5, TableLogs
  <2> QED
    BY <2>1, <2>2, <2>3
<1>14. t \in [Buckets -> Logs(Window)] /\ p \in [Buckets -> Logs(Window - 1)]
  BY <1>12, <1>13
<1>15. TableFits(t, p, o)
  BY <1>5, <1>13, <1>14 DEF TableFits
<1>16. asked \in 0..(PruneEvery - 1)
  BY DEF BucketsInv
<1> QED
  BY <1>6, <1>15, <1>16, StoreSafe

LEMMA BucketTickSafe ==
    ASSUME BucketsInv, BucketTick
    PROVE  BucketsInv'
<1>0. Window \in Nat \ {0} /\ Window \in Nat /\ Window <= Window /\ MaxAttempts \in Nat
      /\ Window - 1 \in Nat
  BY LimitConstants
<1> DEFINE w(b) == Within(Aged(passed[b], Window), Window)  u(b) == Aged(table[b], Window)
<1>1. /\ table' = [b \in Buckets |-> u(b)] /\ passed' = [b \in Buckets |-> w(b)]
      /\ order' = order /\ asked' = asked
  BY DEF BucketTick
<1>2. ASSUME NEW b \in Buckets
      PROVE  /\ u(b) \in Logs(Window) /\ w(b) \in Logs(Window - 1)
             /\ InOrder(u(b)) /\ InOrder(w(b)) /\ Covers(u(b), w(b), Window)
             /\ Len(w(b)) <= MaxAttempts /\ (u(b) # <<>> => b \in ToSet(order))
  <2>1. /\ table[b] \in Logs(Window) /\ passed[b] \in Logs(Window - 1)
        /\ table[b] \in Seq(Nat) /\ passed[b] \in Seq(Nat)
        /\ InOrder(table[b]) /\ InOrder(passed[b])
        /\ Covers(table[b], passed[b], Window) /\ Len(passed[b]) <= MaxAttempts
        /\ table[b] # <<>> => b \in ToSet(order)
    BY TableLogs DEF BucketsInv
  <2>2. table[b] \in Seq(0..Window)
    BY <2>1 DEF Logs
  <2>3. u(b) \in Logs(Window) /\ InOrder(u(b))
    BY <2>1, <2>2, <1>0, AgedIs DEF Logs
  <2>4. u(b) # <<>> => table[b] # <<>>
    <3>1. table[b] = <<>> => u(b) = <<>>
      BY DEF Aged
    <3> QED
      BY <3>1
  <2>5. /\ w(b) \in Logs(Window - 1) /\ InOrder(w(b)) /\ Len(w(b)) <= Len(passed[b])
        /\ \A top \in Nat, age \in Nat : \A log \in Logs(top) :
              age <= Window /\ age <= top /\ InOrder(log) /\ Covers(log, passed[b], age) =>
                 Covers(Aged(log, top), w(b), age)
    BY <2>1, <1>0, ThroughTick
  <2>6. Covers(u(b), w(b), Window)
    BY <2>1, <2>5, <1>0
  <2> HIDE DEF w, u
  <2>7. Len(w(b)) \in Nat /\ Len(passed[b]) \in Nat
    BY <2>1, <2>5, <1>0, LogsAre
  <2> QED
    BY <2>1, <2>3, <2>4, <2>5, <2>6, <2>7, <1>0
<1> HIDE DEF w, u
<1>3. table' \in [Buckets -> Logs(Window)] /\ passed' \in [Buckets -> Logs(Window - 1)]
  BY <1>1, <1>2
<1>4. \A b \in Buckets : table'[b] = u(b) /\ passed'[b] = w(b)
  BY <1>1
<1>5. order \in Seq(Buckets) /\ Len(order) <= MaxBuckets /\ asked \in 0..(PruneEvery - 1)
  BY DEF BucketsInv, TableFits
<1>6. TableFits(table', passed', order)
  BY <1>2, <1>3, <1>4, <1>5 DEF TableFits
<1> QED
  BY <1>1, <1>5, <1>6 DEF BucketsInv

LEMMA BucketsInvStep ==
    ASSUME BucketsInv, BucketNext
    PROVE  BucketsInv'
<1>1. ASSUME NEW c \in Clients, NEW r \in Arrivals(c), BucketCheck(c, r) PROVE BucketsInv'
  <2> DEFINE b == BucketOf[ClientIp(r.peer, r.cf, r.forwarded, r.real)]
             recent == Within(table[b], Window)
             evicted == IF b \notin ToSet(order) /\ Len(order) >= MaxBuckets
                        THEN {Head(order)} ELSE {}
             t == [[x \in Buckets |-> IF x \in evicted THEN <<>> ELSE table[x]]
                     EXCEPT ![b] = Append(recent, 0)]
  <2>1. b \in Buckets
    BY ClientIsCounted DEF Buckets
  <2>2. (IF Vouched(c, r) THEN BucketOf[c] ELSE b) = b
    BY ClientIsCounted
  <2>3. \/ /\ Len(recent) >= MaxAttempts
           /\ StoreAndPrune([table EXCEPT ![b] = recent], MovedToEnd(b, {}))
           /\ UNCHANGED passed
        \/ /\ ~(Len(recent) >= MaxAttempts)
           /\ StoreAndPrune(t, MovedToEnd(b, evicted))
           /\ passed' = [x \in Buckets |->
                           LET log == IF x \in evicted THEN <<>> ELSE passed[x]
                           IN  IF x = b THEN Append(log, 0) ELSE log]
    BY <1>1, <2>2 DEF BucketCheck
  <2> HIDE DEF b
  <2>4. Len(recent) \in Nat /\ MaxAttempts \in Nat
    BY <2>1, BucketLogs, LimitConstants
  <2>5. CASE /\ Len(recent) >= MaxAttempts
             /\ StoreAndPrune([table EXCEPT ![b] = recent], MovedToEnd(b, {}))
             /\ UNCHANGED passed
    BY <2>1, <2>5, BucketRefused
  <2>6. CASE /\ ~(Len(recent) >= MaxAttempts)
             /\ StoreAndPrune(t, MovedToEnd(b, evicted))
             /\ passed' = [x \in Buckets |->
                             LET log == IF x \in evicted THEN <<>> ELSE passed[x]
                             IN  IF x = b THEN Append(log, 0) ELSE log]
    <3>1. Len(recent) < MaxAttempts
      BY <2>4, <2>6
    <3> HIDE DEF StoreAndPrune
    <3> QED
      BY <2>1, <2>6, <3>1, BucketGranted
  <2> QED
    BY <2>3, <2>5, <2>6
<1> QED
  BY <1>1, BucketTickSafe DEF BucketNext

-----------------------------------------------------------------------------
(* Rate limits: the theorem.                                               *)

LEMMA LimitsInvInit == LimitsInit => LimitsInv
<1> SUFFICES ASSUME LimitsInit PROVE LimitsInv
  OBVIOUS
<1>0. /\ Day + 1 \in Nat /\ Day \in Nat /\ Window \in Nat /\ Window - 1 \in Nat
      /\ 0 \in 0..(PruneEvery - 1) /\ MaxPerDay \in Nat /\ MaxInWindow \in Nat
      /\ MaxAttempts \in Nat /\ MaxBuckets \in Nat
  BY LimitConstants
<1>1. /\ <<>> \in Logs(Day + 1) /\ <<>> \in Logs(Day) /\ <<>> \in Logs(Window)
      /\ <<>> \in Logs(Window - 1) /\ InOrder(<<>>) /\ Len(<<>>) = 0
      /\ \A age \in Nat : Young(<<>>, age) = 0
  BY <1>0, EmptyLog
<1>2. Covers(<<>>, <<>>, Window) /\ Covers(<<>>, <<>>, Day + 1)
  <2>1. \A x \in 0..Window : x \in Nat
    BY <1>0
  <2>2. \A x \in 0..(Day + 1) : x \in Nat
    BY <1>0
  <2> QED
    BY <2>1, <2>2, <1>1 DEF Covers
<1>3. ActorsInv
  <2>1. /\ attempts = [a \in Admins |-> <<>>] /\ daily = [a \in Admins |-> <<>>]
        /\ granted = [a \in Admins |-> <<>>] /\ calls = 0
    BY DEF LimitsInit, ActorInit
  <2>2. \A a \in Admins : ActorFits(a)
    BY <2>1, <1>0, <1>1, <1>2 DEF ActorFits
  <2> QED
    BY <2>1, <2>2, <1>0, <1>1 DEF ActorsInv
<1>4. BucketsInv
  <2>1. /\ table = [b \in Buckets |-> <<>>] /\ passed = [b \in Buckets |-> <<>>]
        /\ order = <<>> /\ asked = 0
    BY DEF LimitsInit, BucketInit
  <2>2. order \in Seq(Buckets) /\ Len(order) <= MaxBuckets
    BY <2>1, <1>0
  <2> QED
    BY <2>1, <2>2, <1>0, <1>1, <1>2 DEF BucketsInv, TableFits
<1> QED
  BY <1>3, <1>4 DEF LimitsInv

LEMMA LimitsInvStep == LimitsInv /\ [LimitsNext]_<<actorVars, bucketVars>> => LimitsInv'
<1> SUFFICES ASSUME LimitsInv, [LimitsNext]_<<actorVars, bucketVars>> PROVE LimitsInv'
  OBVIOUS
<1>1. ASSUME UNCHANGED actorVars PROVE ActorsInv'
  BY <1>1 DEF actorVars, LimitsInv, ActorsInv, ActorFits
<1>2. ASSUME UNCHANGED bucketVars PROVE BucketsInv'
  BY <1>2 DEF bucketVars, LimitsInv, BucketsInv
<1>3. CASE ActorNext /\ UNCHANGED bucketVars
  BY <1>2, <1>3, ActorsInvStep DEF LimitsInv
<1>4. CASE BucketNext /\ UNCHANGED actorVars
  BY <1>1, <1>4, BucketsInvStep DEF LimitsInv
<1>5. CASE UNCHANGED <<actorVars, bucketVars>>
  BY <1>1, <1>2, <1>5 DEF LimitsInv
<1> QED
  BY <1>3, <1>4, <1>5 DEF LimitsNext

LEMMA LimitsInvHolds == LimitsInv => LimitsKept
<1> SUFFICES ASSUME LimitsInv PROVE LimitsKept
  OBVIOUS
<1>1. LimitsTypeOK
  BY DEF LimitsInv, ActorsInv, BucketsInv, TableFits, LimitsTypeOK
<1>2. LimitsHold
  <2>1. \A a \in Admins : /\ Len(granted[a]) <= MaxPerDay
                          /\ Len(Within(granted[a], Window)) <= MaxInWindow
    BY DEF LimitsInv, ActorsInv, ActorFits, Young
  <2>2. (\A b \in Buckets : Len(passed[b]) <= MaxAttempts) /\ Len(order) <= MaxBuckets
    BY DEF LimitsInv, BucketsInv, TableFits
  <2> QED
    BY <2>1, <2>2 DEF LimitsHold
<1> QED
  BY <1>1, <1>2 DEF LimitsKept

\* Nobody gets more through the limiters than the limits say, for every number of
\* admins and addresses, every window, day, limit and size of the table, and however
\* often the tables are pruned (ActionRateLimiter.check, RateLimiter.check,
\* get_client_ip).
THEOREM LimitsKeptAlways == LimitsSpec => []LimitsKept
<1> QED
  BY LimitsInvInit, LimitsInvStep, LimitsInvHolds, PTL DEF LimitsSpec
=============================================================================
