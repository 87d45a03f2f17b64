------------------------------- MODULE Access -------------------------------
(***************************************************************************)
(* Accounts and refresh tokens: endpoints/auth.py and the decisions on     *)
(* users of endpoints/admin_users.py.  Roles and permissions decide who    *)
(* may call what and are left out.                                         *)
(***************************************************************************)
EXTENDS Requests, FiniteSets

CONSTANTS
    Users,
    Tokens,        \* refresh tokens given out, numbers: the bound on them
    MaxAttempts    \* LOGIN_MAX_ATTEMPTS

ASSUME AccessAssumption ==
    /\ Users # {}
    /\ Tokens \subseteq Nat
    /\ MaxAttempts \in Nat \ {0}

VARIABLES
    user,      \* per user, the row
    token,     \* per refresh token: state, user and the login it goes back to
    ended,     \* logins that were logged out of (history)
    raced      \* logins whose token two requests used at once (history)

accessVars == <<user, token, ended, raced>>

NoUser == [there |-> FALSE, active |-> FALSE, approved |-> FALSE, attempts |-> 0, locked |-> "no"]

AccessInit ==
    /\ user = [u \in Users |-> NoUser]
    /\ token = [t \in Tokens |-> [state |-> "none", login |-> t, user |-> CHOOSE u \in Users : TRUE]]
    /\ ended = {}
    /\ raced = {}

-----------------------------------------------------------------------------
(* POST /auth/signup; the e-mail is unique. *)
Signup(u) ==
    /\ ~user[u].there
    /\ user' = [user EXCEPT ![u].there = TRUE, ![u].active = TRUE]
    /\ UNCHANGED <<token, ended, raced, req, begun>>

(* POST /admin/users/{id}/approve and /reject, PATCH is_active *)
Decide(u, active, approved) ==
    /\ user[u].there
    /\ user' = [user EXCEPT ![u].active = active, ![u].approved = approved]
    /\ UNCHANGED <<token, ended, raced, req, begun>>

ApproveUser(u) == Decide(u, TRUE, TRUE)
RejectUser(u) == Decide(u, FALSE, FALSE)
UpdateUser(u, active) == Decide(u, active, user[u].approved)

(* locked_until lies in the past from now on, but stays set. *)
LockoutEnds(u) ==
    /\ user[u].locked = "yes"
    /\ user' = [user EXCEPT ![u].locked = "past"]
    /\ UNCHANGED <<token, ended, raced, req, begun>>

-----------------------------------------------------------------------------
(* POST /auth/login: the row is read, the password verified, the counters  *)
(* and the token written from the copy.                                    *)

NewToken == CHOOSE t \in Tokens : /\ token[t].state = "none"
                                  /\ \A n \in Tokens : token[n].state = "none" => t <= n
TokensLeft == \E t \in Tokens : token[t].state = "none"

Issued(u, login) == [state |-> "live", user |-> u, login |-> login]

LoginRead(s, u) ==
    /\ Arrives(s)
    /\ user[u].there /\ user[u].locked # "yes"
    /\ Becomes(s, [pc |-> "login", user |-> u, seen |-> user[u]])
    /\ UNCHANGED accessVars

(* A column is written only if it differs from the copy's. *)
Written(stored, seen, new) == IF new = seen THEN stored ELSE new

LoginFails(s) ==
    LET q == req[s]
        full == q.seen.attempts + 1 >= MaxAttempts IN
    /\ q.pc = "login"
    /\ user' = [user EXCEPT
                  ![q.user].attempts =
                     Written(@, q.seen.attempts, IF full THEN 0 ELSE q.seen.attempts + 1),
                  ![q.user].locked = IF full THEN "yes" ELSE @]
    /\ Ends(s)
    /\ UNCHANGED <<token, ended, raced, begun>>

LoginPasses(s) ==
    LET q == req[s] IN
    /\ q.pc = "login"
    /\ q.seen.active /\ q.seen.approved
    /\ TokensLeft
    /\ user' = [user EXCEPT ![q.user].attempts = Written(@, q.seen.attempts, 0),
                           ![q.user].locked = Written(@, q.seen.locked, "no")]
    /\ token' = [token EXCEPT ![NewToken] = Issued(q.user, NewToken)]
    /\ Ends(s)
    /\ UNCHANGED <<ended, raced, begun>>

-----------------------------------------------------------------------------
(* POST /auth/refresh *)

Live(t) == token[t].state = "live"

(* The row of the token exists and is not revoked. *)
Given(t) == token[t].state # "none"
Usable(t) == Live(t)

Rotating(r, t) == req[r].pc = "rotate" /\ req[r].token = t

(* The token and its user are read without a lock. *)
RefreshTokenRead(s, t) ==
    /\ Arrives(s)
    /\ Usable(t)
    /\ user[token[t].user].active
    /\ Becomes(s, [pc |-> "rotate", token |-> t])
    /\ raced' = IF \E r \in Sessions : Rotating(r, t) THEN raced \cup {token[t].login} ELSE raced
    /\ UNCHANGED <<user, token, ended>>

(* The old token is revoked and a new one given out in one commit. *)
Rotate(s) ==
    LET q == req[s]
        old == token[q.token] IN
    /\ q.pc = "rotate"
    /\ TokensLeft
    /\ token' = [token EXCEPT ![q.token].state = "revoked",
                              ![NewToken] = Issued(old.user, old.login)]
    /\ Ends(s)
    /\ UNCHANGED <<user, ended, raced, begun>>

(* POST /auth/logout, with a live token. *)
Logout(t) ==
    /\ Live(t)
    /\ user[token[t].user].active
    /\ token' = [token EXCEPT ![t].state = "revoked"]
    /\ ended' = ended \cup {token[t].login}
    /\ raced' = IF \E r \in Sessions : Rotating(r, t) THEN raced \cup {token[t].login} ELSE raced
    /\ UNCHANGED <<user, req, begun>>

(* The request raises or its answer is an error; nothing is stored. *)
AccessRollback(s) ==
    /\ req[s].pc \in {"login", "rotate"}
    /\ Ends(s)
    /\ UNCHANGED <<accessVars, begun>>

-----------------------------------------------------------------------------

Authenticate(s) ==
    \/ \E u \in Users : LoginRead(s, u)
    \/ LoginFails(s)
    \/ LoginPasses(s)
    \/ \E t \in Tokens : RefreshTokenRead(s, t)
    \/ Rotate(s)
    \/ AccessRollback(s)

Accounts ==
    \/ \E u \in Users :
         \/ Signup(u) \/ ApproveUser(u) \/ RejectUser(u) \/ LockoutEnds(u)
         \/ \E active \in BOOLEAN : UpdateUser(u, active)
    \/ \E t \in Tokens : Logout(t)
=============================================================================
