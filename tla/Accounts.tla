------------------------------ MODULE Accounts ------------------------------
(***************************************************************************)
(* Administrators, their sessions and the short-lived proofs that a        *)
(* password was just typed again: the tables admin_users, admin_sessions   *)
(* and reauth_tickets.                                                     *)
(*                                                                         *)
(* A request resolves its session once and keeps the answer; everything it *)
(* does afterwards is a transaction of its own, so that requests of        *)
(* several admins mix between any two of them.  Passwords are numbered     *)
(* per name, and a user row is known by the number it was created with,    *)
(* for ids are never given twice.                                          *)
(***************************************************************************)
EXTENDS Naturals, Sequences

CONSTANTS
    Users,          \* names
    Founders,       \* names with a row at the start, with password 0
    WeakUsers,      \* founders whose first password the policy refuses today
    Tokens,         \* session tokens that can be drawn, each at most once
    Workers,        \* requests in progress together
    MaxPasswords    \* bound on the passwords a name ever has

ASSUME AccountsAssumption ==
    /\ Founders \subseteq Users /\ Founders # {}
    /\ WeakUsers \subseteq Founders
    /\ MaxPasswords \in Nat

VARIABLES
    users,      \* the row of each name
    last,       \* the last password of each name
    sessions,   \* admin_sessions, by token
    tickets,    \* reauth_tickets, by token
    req         \* the request of each worker

accountVars == <<users, last, sessions, tickets, req>>

NoUser    == [born |-> "never"]
Unused    == [user |-> "none"]
Closed    == [user |-> "gone"]
NoTicket  == [user |-> "none"]
NoRequest == [kind |-> "none"]

Versions == 0..MaxPasswords
Rows     == [born : Versions, ver : Versions, must : BOOLEAN]
Sessions == [user : Users, made : Versions]
Tickets  == [user : Users, ver : Versions]

Exists(u) == users[u] # NoUser
Open(t)   == sessions[t] \notin {Unused, Closed}
Weak(u)   == u \in WeakUsers /\ users[u].ver = 0

LoginSteps == <<"flag", "open">>

\* What each handler does after it knows its user, one transaction per entry.
\* The force-change page, the logout and the login are open to flagged users.
ReauthSteps == <<"gate", "prove", "grant">>
ChangeSteps == <<"gate", "prove", "change", "open">>
ForcedSteps == <<"prove", "change", "open">>
RevokeSteps == <<"gate", "untick", "close", "tidy", "open", "forget">>
DeleteSteps == <<"gate", "ticket", "delete", "tidy">>
CreateSteps == <<"gate", "ticket", "create">>
LogoutSteps == <<"destroy">>

Handler ==
    [login  |-> LoginSteps,  reauth |-> ReauthSteps, change |-> ChangeSteps,
     forced |-> ForcedSteps, revoke |-> RevokeSteps, delete |-> DeleteSteps,
     create |-> CreateSteps, logout |-> LogoutSteps]

Kinds == DOMAIN Handler

Requests == [kind : Kinds, at : 1..6, user : Users, token : Tokens \union {"none"},
             about : Users, born : Versions, ver : Versions]

AccountsTypeOK ==
    /\ users \in [Users -> Rows \union {NoUser}]
    /\ last \in [Users -> Versions]
    /\ sessions \in [Tokens -> Sessions \union {Unused, Closed}]
    /\ tickets \in [Tokens -> Tickets \union {NoTicket}]
    /\ req \in [Workers -> Requests \union {NoRequest}]

AccountsInit ==
    /\ users = [u \in Users |-> IF u \in Founders THEN [born |-> 0, ver |-> 0, must |-> FALSE]
                                ELSE NoUser]
    /\ last = [u \in Users |-> 0]
    /\ sessions = [t \in Tokens |-> Unused]
    /\ tickets = [t \in Tokens |-> NoTicket]
    /\ req = [w \in Workers |-> NoRequest]

Request(k, u, t, v, b, p) ==
    [kind |-> k, at |-> 1, user |-> u, token |-> t, about |-> v, born |-> b, ver |-> p]

Idle(w)     == req[w] = NoRequest
At(w, step) == ~Idle(w) /\ Handler[req[w].kind][req[w].at] = step
User(w)     == req[w].user
Refused(w)  == req' = [req EXCEPT ![w] = NoRequest]
Done(w) ==
    req' = IF req[w].at = Len(Handler[req[w].kind]) THEN [req EXCEPT ![w] = NoRequest]
                                                    ELSE [req EXCEPT ![w].at = @ + 1]
DoneKnowing(w, p) == req' = [req EXCEPT ![w].at = @ + 1, ![w].ver = p]

CloseAll(u)  == sessions' = [t \in Tokens |-> IF sessions[t] \in Sessions /\ sessions[t].user = u
                                              THEN Closed ELSE sessions[t]]
UntickAll(u) == tickets' = [t \in Tokens |-> IF tickets[t] \in Tickets /\ tickets[t].user = u
                                             THEN NoTicket ELSE tickets[t]]
Untick(t)    == tickets' = IF t \in Tokens THEN [tickets EXCEPT ![t] = NoTicket] ELSE tickets

-----------------------------------------------------------------------------
(* How a request begins. *)

\* authenticate: the right password of a row that exists.
LoginVerify(w, u) ==
    /\ Idle(w) /\ Exists(u)
    /\ req' = [req EXCEPT ![w] = Request("login", u, "none", u, 0, users[u].ver)]
    /\ UNCHANGED <<users, last, sessions, tickets>>

\* validate_session.  A deletion names the row, a creation the name.
Enter(w, t, k, v) ==
    /\ Idle(w) /\ Open(t) /\ k # "login"
    /\ k = "delete" => Exists(v)
    /\ k \notin {"delete", "create"} => v = sessions[t].user
    /\ LET b == IF k = "delete" THEN users[v].born ELSE 0
       IN  req' = [req EXCEPT ![w] = Request(k, sessions[t].user, t, v, b, 0)]
    /\ UNCHANGED <<users, last, sessions, tickets>>

\* validate_session refuses a session that is too old, idle, unreadable or that
\* comes from another client, and deletes it with its ticket.
DropSession(t) ==
    /\ Open(t)
    /\ sessions' = [sessions EXCEPT ![t] = Closed]
    /\ Untick(t)
    /\ UNCHANGED <<users, last, req>>

\* The sweeps know their own table only.
SweepSession(t) ==
    /\ Open(t)
    /\ sessions' = [sessions EXCEPT ![t] = Closed]
    /\ UNCHANGED <<users, last, tickets, req>>

SweepTicket(t) ==
    /\ tickets[t] # NoTicket
    /\ Untick(t)
    /\ UNCHANGED <<users, last, sessions, req>>

-----------------------------------------------------------------------------
(* The transactions of the handlers. *)

\* ForcePasswordChangeMiddleware.
Gate(w) ==
    /\ At(w, "gate")
    /\ IF Exists(User(w)) /\ users[User(w)].must THEN Refused(w) ELSE Done(w)
    /\ UNCHANGED <<users, last, sessions, tickets>>

\* _flag_weak_password judges the password that was typed.
Flag(w) ==
    /\ At(w, "flag")
    /\ users' = IF User(w) \in WeakUsers /\ req[w].ver = 0 /\ Exists(User(w))
                THEN [users EXCEPT ![User(w)].must = TRUE] ELSE users
    /\ Done(w)
    /\ UNCHANGED <<last, sessions, tickets>>

\* create_session; the foreign key refuses a user without a row.
OpenSession(w) ==
    /\ At(w, "open")
    /\ IF Exists(User(w))
       THEN /\ \E t \in Tokens : /\ sessions[t] = Unused
                                 /\ sessions' = [sessions EXCEPT ![t] =
                                        [user |-> User(w), made |-> users[User(w)].ver]]
            /\ Done(w)
       ELSE /\ Refused(w)
            /\ UNCHANGED sessions
    /\ UNCHANGED <<users, last, tickets>>

\* The password is compared with the row as it is now.
Prove(w) ==
    /\ At(w, "prove")
    /\ \/ Exists(User(w)) /\ DoneKnowing(w, users[User(w)].ver)
       \/ Refused(w)
    /\ UNCHANGED <<users, last, sessions, tickets>>

\* grant_recent_reauth does not ask whether the session is still there.
Grant(w) ==
    /\ At(w, "grant")
    /\ tickets' = [tickets EXCEPT ![req[w].token] = [user |-> User(w), ver |-> req[w].ver]]
    /\ Done(w)
    /\ UNCHANGED <<users, last, sessions>>

\* has_recent_reauth, which may also find the ticket too old.
CheckTicket(w) ==
    /\ At(w, "ticket")
    /\ \/ tickets[req[w].token].user = User(w) /\ Done(w)
       \/ Refused(w)
    /\ UNCHANGED <<users, last, sessions, tickets>>

\* Mutated form: the session that asked for the change stays open.
ClosedByChange(t) == [s \in Tokens |-> IF s # t /\ sessions[s] \in Sessions
                                           /\ sessions[s].user = sessions[t].user
                                       THEN Closed ELSE sessions[s]]
ChangeKeepsOwn(w) ==
    /\ At(w, "change")
    /\ IF Exists(User(w))
       THEN /\ last[User(w)] < MaxPasswords
            /\ last' = [last EXCEPT ![User(w)] = @ + 1]
            /\ users' = [users EXCEPT ![User(w)].ver = last'[User(w)], ![User(w)].must = FALSE]
            /\ sessions' = IF Open(req[w].token) THEN ClosedByChange(req[w].token) ELSE sessions
            /\ UntickAll(User(w))
            /\ Done(w)
       ELSE /\ Refused(w)
            /\ UNCHANGED <<users, last, sessions, tickets>>

\* change_password, one transaction: it does not compare the old password again.
ChangePassword(w) ==
    /\ At(w, "change")
    /\ IF Exists(User(w))
       THEN /\ last[User(w)] < MaxPasswords
            /\ last' = [last EXCEPT ![User(w)] = @ + 1]
            /\ users' = [users EXCEPT ![User(w)].ver = last'[User(w)], ![User(w)].must = FALSE]
            /\ CloseAll(User(w))
            /\ UntickAll(User(w))
            /\ Done(w)
       ELSE /\ Refused(w)
            /\ UNCHANGED <<users, last, sessions, tickets>>

\* Mutated form: nobody deletes himself, so that somebody seems to remain.
CallerRemains(u) == TRUE

OthersRemain(u) == \E v \in Users \ {u} : Exists(v)

\* delete_user: by id, never oneself, and rolled back for the last user.
DeleteUser(w) ==
    LET u == req[w].about
    IN  /\ At(w, "delete")
        /\ IF Exists(u) /\ users[u].born = req[w].born /\ u # User(w) /\ OthersRemain(u)
           THEN /\ users' = [users EXCEPT ![u] = NoUser]
                /\ CloseAll(u)
                /\ Done(w)
           ELSE /\ Refused(w)
                /\ UNCHANGED <<users, sessions>>
        /\ UNCHANGED <<last, tickets>>

Insert(u) ==
    /\ last[u] < MaxPasswords
    /\ last' = [last EXCEPT ![u] = @ + 1]
    /\ users' = [users EXCEPT ![u] = [born |-> last[u] + 1, ver |-> last[u] + 1, must |-> FALSE]]

\* create_user: the name is unique.
CreateUser(w) ==
    /\ At(w, "create")
    /\ IF Exists(req[w].about) THEN UNCHANGED <<users, last>> ELSE Insert(req[w].about)
    /\ Done(w)
    /\ UNCHANGED <<sessions, tickets>>

\* create_user_cli, beside the running service.
CreateByCli(u) ==
    /\ ~Exists(u)
    /\ Insert(u)
    /\ UNCHANGED <<sessions, tickets, req>>

\* revoke_all_reauth_for; where it only tidies up, nobody notices that it failed.
UntickUser(w) ==
    /\ \/ At(w, "untick") /\ UntickAll(req[w].about)
       \/ At(w, "tidy") /\ (UntickAll(req[w].about) \/ UNCHANGED tickets)
    /\ Done(w)
    /\ UNCHANGED <<users, last, sessions>>

\* destroy_all_sessions_for.
CloseSessions(w) ==
    /\ At(w, "close")
    /\ CloseAll(User(w))
    /\ Done(w)
    /\ UNCHANGED <<users, last, tickets>>

\* revoke_reauth on the token the request came with.
ForgetTicket(w) ==
    /\ At(w, "forget")
    /\ Untick(req[w].token)
    /\ Done(w)
    /\ UNCHANGED <<users, last, sessions>>

\* destroy_session.
DestroySession(w) ==
    /\ At(w, "destroy")
    /\ sessions' = [sessions EXCEPT ![req[w].token] = Closed]
    /\ Untick(req[w].token)
    /\ Done(w)
    /\ UNCHANGED <<users, last>>

RequestStep(w) ==
    \/ Gate(w) \/ Flag(w) \/ OpenSession(w) \/ Prove(w) \/ Grant(w) \/ CheckTicket(w)
    \/ ChangePassword(w) \/ DeleteUser(w) \/ CreateUser(w)
    \/ UntickUser(w) \/ CloseSessions(w) \/ ForgetTicket(w) \/ DestroySession(w)

AccountsNext ==
    \/ \E w \in Workers :
        \/ RequestStep(w)
        \/ \E u \in Users : LoginVerify(w, u)
        \/ \E t \in Tokens, k \in Kinds, v \in Users : Enter(w, t, k, v)
    \/ \E t \in Tokens : DropSession(t) \/ SweepSession(t) \/ SweepTicket(t)
    \/ \E u \in Users : CreateByCli(u)

AccountsSpec == AccountsInit /\ [][AccountsNext]_accountVars

-----------------------------------------------------------------------------
(* Properties. *)

\* Once there is an admin there is always one, however many admins delete one
\* another together: the installation can still be entered.
LastAdminStays == \E u \in Users : Exists(u)

\* A session that can be used was opened under the password its user has now, and
\* its ticket is of that password too, although tickets are granted without a look
\* at the session and their removal may fail.
AccessProvesPassword ==
    \A t \in Tokens : Open(t) =>
        /\ Exists(sessions[t].user)
        /\ sessions[t].made = users[sessions[t].user].ver
        /\ tickets[t] # NoTicket => tickets[t] = [user |-> sessions[t].user, ver |-> sessions[t].made]

\* Whoever is in with a password the policy refuses today has been told to change
\* it: no order of logins and changes leaves a session that is not held to it.
WeakSessionsFlagged ==
    \A t \in Tokens : Open(t) /\ Weak(sessions[t].user) => users[sessions[t].user].must

\* What the tables of users, sessions and tickets hold, and what they prove.
AccountsKept == AccountsTypeOK /\ AccessProvesPassword /\ WeakSessionsFlagged
=============================================================================
