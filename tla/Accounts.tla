------------------------------ MODULE Accounts ------------------------------
(***************************************************************************)
(* Accounts, sessions and password resets: app/routers/auth.py and         *)
(* app/core/session.py over the tables users, athletes, user_sessions and  *)
(* password_reset_tokens.  A request is a few statements and one or two    *)
(* commits (READ COMMITTED); other requests commit between any two.        *)
(*                                                                         *)
(* Abstractions.  All signups are of one name and position, so any roster  *)
(* row nobody has claimed is a match.  What a request creates bears the    *)
(* request's name: an athlete, a password, a session, a token.  Hashing,   *)
(* cookies and e-mail are left out, and so are the answers to unknown      *)
(* e-mails and wrong passwords, which change nothing.                      *)
(***************************************************************************)
EXTENDS FiniteSets

CONSTANTS
  Email,     \* addresses people sign up with
  Request,   \* requests to the auth router
  Prospect,  \* the one roster row that was there before
  Nobody,    \* no athlete, or no account
  Nothing    \* a request holds nothing

Person == {Prospect} \cup Request

Account == [athlete : Person \cup {Nobody}, password : Request]

ASSUME AccountAssumption ==
  Nobody \notin Person \cup Account /\ Prospect \notin Request

VARIABLES
  users,     \* per e-mail: Nobody, or the account's athlete and password
  roster,    \* athletes
  sessions,  \* requests whose session row exists
  tokens,    \* requests whose reset token row exists
  lapsed,    \* sessions and tokens past their expiry
  doing,     \* per request: its next step
  email,     \* per request: the account it is about
  holds      \* per request: what its earlier statements returned

accountVars == <<users, roster, sessions, tokens, lapsed, doing, email, holds>>
tables == <<users, roster, sessions, tokens>>

Doing == {"new", "resolve", "create", "open session", "replace token",
          "set password", "done", "refused"}

AccountTypeOK ==
  /\ users \in [Email -> {Nobody} \cup Account]
  /\ roster \subseteq Person
  /\ sessions \subseteq Request /\ tokens \subseteq Request
  /\ lapsed \subseteq Request
  /\ doing \in [Request -> Doing]
  /\ email \in [Request -> Email \cup {Nothing}]
  /\ holds \in [Request -> {Nothing, Nobody} \cup Person \cup SUBSET Request]

AccountInit ==
  /\ users = [e \in Email |-> Nobody]
  /\ roster = {Prospect}
  /\ sessions = {} /\ tokens = {} /\ lapsed = {}
  /\ doing = [q \in Request |-> "new"]
  /\ email = [q \in Request |-> Nothing]
  /\ holds = [q \in Request |-> Nothing]

-----------------------------------------------------------------------------
Proceed(q, step) == doing' = [doing EXCEPT ![q] = step]
Hold(q, value) == holds' = [holds EXCEPT ![q] = value]
Arrive(q, e) == doing[q] = "new" /\ email' = [email EXCEPT ![q] = e]
Of(S, e) == {q \in S : email[q] = e}
Accounts == {e \in Email : users[e] # Nobody}
Claimed == {users[e].athlete : e \in Accounts} \ {Nobody}

\* start_session(), in a transaction of its own.
StartSession(q) ==
  /\ doing[q] = "open session"
  /\ sessions' = sessions \cup {q}
  /\ Proceed(q, "done")
  /\ UNCHANGED <<users, roster, tokens, lapsed, email, holds>>

\* signup(): the address must be free; a coach needs no athlete.
Signup(q, e, role) ==
  /\ Arrive(q, e)
  /\ \/ users[e] # Nobody /\ Proceed(q, "refused") /\ UNCHANGED holds
     \/ /\ users[e] = Nobody
        /\ Hold(q, Nobody)
        /\ Proceed(q, IF role = "athlete" THEN "resolve" ELSE "create")
  /\ UNCHANGED <<tables, lapsed>>

\* Faulty variant: the new row is committed, not flushed.
LinkOrCommitAthlete(q) ==
  /\ doing[q] = "resolve"
  /\ LET matches == roster \ Claimed IN
       \E a \in (IF Cardinality(matches) = 1 THEN matches ELSE {q}) :
         Hold(q, a) /\ roster' = roster \cup {a}
  /\ Proceed(q, "create")
  /\ UNCHANGED <<users, sessions, tokens, lapsed, email>>

\* _link_or_create_athlete(): the one unclaimed match, or a new row, which
\* is only flushed.
LinkOrCreateAthlete(q) ==
  /\ doing[q] = "resolve"
  /\ LET matches == roster \ Claimed IN
       \E a \in (IF Cardinality(matches) = 1 THEN matches ELSE {q}) : Hold(q, a)
  /\ Proceed(q, "create")
  /\ UNCHANGED <<tables, lapsed, email>>

\* commit(): the account and its new roster row, or neither where the
\* address or the athlete has been taken since.
CreateAccount(q) ==
  /\ doing[q] = "create"
  /\ \/ /\ users[email[q]] = Nobody /\ holds[q] \notin Claimed
        /\ users' = [users EXCEPT ![email[q]] =
                       [athlete |-> holds[q], password |-> q]]
        /\ roster' = roster \cup ({holds[q]} \ {Nobody})
        /\ Proceed(q, "open session")
     \/ /\ users[email[q]] # Nobody \/ holds[q] \in Claimed
        /\ Proceed(q, "refused")
        /\ UNCHANGED <<users, roster>>
  /\ Hold(q, Nothing)
  /\ UNCHANGED <<sessions, tokens, lapsed, email>>

\* login(): with the password as it is now.
Login(q, e) ==
  /\ users[e] # Nobody
  /\ Arrive(q, e)
  /\ Proceed(q, "open session")
  /\ UNCHANGED <<tables, lapsed, holds>>

Logout(s) ==
  /\ s \in sessions
  /\ sessions' = sessions \ {s}
  /\ UNCHANGED <<users, roster, tokens, lapsed, doing, email, holds>>

\* get_current_user() deletes an expired session on sight.
DropExpired(s) ==
  /\ s \in sessions \cap lapsed
  /\ sessions' = sessions \ {s}
  /\ UNCHANGED <<users, roster, tokens, lapsed, doing, email, holds>>

\* forgot_password(): DELETE takes the account's tokens it can see.
ForgotPassword(q, e) ==
  /\ users[e] # Nobody
  /\ Arrive(q, e)
  /\ Hold(q, Of(tokens, e))
  /\ Proceed(q, "replace token")
  /\ UNCHANGED <<tables, lapsed>>

ReplaceTokens(q, old) ==
  /\ doing[q] = "replace token"
  /\ tokens' = (tokens \ old) \cup {q}
  /\ Proceed(q, "done")
  /\ UNCHANGED <<users, roster, sessions, lapsed, email, holds>>

\* Faulty variant: only expired tokens are cleared away.
ReplaceExpiredTokens(q) == ReplaceTokens(q, holds[q] \cap lapsed)

CommitToken(q) == ReplaceTokens(q, holds[q])

\* reset_password(): an expired token is deleted, a good one leads on.
FindToken(q, k) ==
  /\ k \in tokens
  /\ Arrive(q, email[k])
  /\ \/ /\ k \in lapsed
        /\ tokens' = tokens \ {k}
        /\ Proceed(q, "refused")
     \/ /\ k \notin lapsed
        /\ Proceed(q, "set password")
        /\ UNCHANGED tokens
  /\ UNCHANGED <<users, roster, sessions, lapsed, holds>>

\* One transaction: password, tokens and sessions of the account.
ResetPassword(q) ==
  /\ doing[q] = "set password"
  /\ users' = [users EXCEPT ![email[q]].password = q]
  /\ tokens' = tokens \ Of(tokens, email[q])
  /\ sessions' = sessions \ Of(sessions, email[q])
  /\ Proceed(q, "open session")
  /\ UNCHANGED <<roster, lapsed, email, holds>>

\* Thirty minutes, or thirty days, pass.
Lapse(k) ==
  /\ k \in (sessions \cup tokens) \ lapsed
  /\ lapsed' = lapsed \cup {k}
  /\ UNCHANGED <<tables, doing, email, holds>>

\* The database fails a statement, or the process stops: rolled back.
RequestFails(q) ==
  /\ doing[q] \notin {"new", "done", "refused"}
  /\ Proceed(q, "refused")
  /\ Hold(q, Nothing)
  /\ UNCHANGED <<tables, lapsed, email>>

AccountNext ==
  \E q \in Request :
    \/ \E e \in Email : \/ \E role \in {"athlete", "coach"} : Signup(q, e, role)
                        \/ Login(q, e) \/ ForgotPassword(q, e)
    \/ LinkOrCreateAthlete(q) \/ CreateAccount(q)
    \/ StartSession(q) \/ Logout(q) \/ DropExpired(q)
    \/ CommitToken(q)
    \/ \E k \in Request : FindToken(q, k)
    \/ ResetPassword(q)
    \/ Lapse(q) \/ RequestFails(q)

AccountSpec == AccountInit /\ [][AccountNext]_accountVars

-----------------------------------------------------------------------------
(* Properties.                                                             *)

\* "An athlete's [athlete_id] is set exactly once" (orm.py:226): no two
\* accounts are of one athlete, however their signups overlapped, and an
\* account refused half way leaves no roster row behind: each but the first
\* is the athlete of an account.
RosterIsClaimed ==
  /\ \A d, e \in Accounts : d # e /\ users[d].athlete # Nobody =>
       users[d].athlete # users[e].athlete
  /\ roster \ {Prospect} \subseteq Claimed
  /\ Claimed \subseteq roster

\* "A fresh request invalidates any prior one" (auth.py:159): once a token
\* has been issued, none that was there when it was asked for is valid.
\* (Two requests that do not see each other's token leave both.)
PriorTokensInvalidated ==
  \A q, k \in tokens : email[q] = email[k] => k \notin holds[q]

\* "Invalidates every existing session for the account" (auth.py:188), and
\* every token: whatever is left when a password has changed belongs to
\* other accounts, a session or token in flight aside.
ResetInvalidates ==
  \A e \in Accounts : users'[e].password # users[e].password =>
    Of(sessions', e) \cup Of(tokens', e) = {}

\* What an account could be entered with before is of no use after.
OldCredentialsDie == [][PriorTokensInvalidated' /\ ResetInvalidates]_accountVars
=============================================================================
