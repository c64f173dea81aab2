--------------------------- MODULE AccountsProofs ---------------------------
(***************************************************************************)
(* Proofs about Accounts, for any number of addresses and of requests,     *)
(* however their statements interleave and wherever they fail.             *)
(***************************************************************************)
EXTENDS Accounts, TLAPS

-----------------------------------------------------------------------------
(* The invariant.  A request on its way to a commit relies on what its     *)
(* earlier statements returned: that the account it found is still there,  *)
(* that it holds an athlete to claim, that the tokens it saw are all of    *)
(* requests that have ended.                                               *)

Finished == {k \in Request : doing[k] = "done"}

AccountsStay ==
  /\ \A q \in Request : doing[q] # "new" => email[q] \in Email
  /\ \A q \in Request : doing[q] = "set password" => email[q] \in Accounts
  /\ \A q \in Request : doing[q] = "replace token" => email[q] \in Accounts
  /\ \A k \in tokens : email[k] \in Accounts

AthleteInHand ==
  \A q \in Request : doing[q] = "create" => holds[q] \in Person \cup {Nobody}

TokensOfEnded ==
  /\ tokens \subseteq Finished
  /\ \A q \in Request : doing[q] = "replace token" => holds[q] \subseteq Finished
  /\ \A q \in tokens : holds[q] \subseteq Finished

AccountInv ==
  /\ AccountTypeOK /\ RosterIsClaimed /\ AccountsStay /\ AthleteInHand
  /\ TokensOfEnded /\ PriorTokensInvalidated

-----------------------------------------------------------------------------
(* What a step does to the requests: at most one moves, and one that had   *)
(* come to its end stays there.                                            *)

\* The steps that leave accounts and athletes as they are.
Aside(q) ==
  \/ \E e \in Email : \/ \E role \in {"athlete", "coach"} : Signup(q, e, role)
                      \/ Login(q, e) \/ ForgotPassword(q, e)
  \/ LinkOrCreateAthlete(q)
  \/ StartSession(q) \/ Logout(q) \/ DropExpired(q)
  \/ CommitToken(q)
  \/ \E k \in Request : FindToken(q, k)
  \/ Lapse(q) \/ RequestFails(q)

LEMMA StepsSplit ==
  ASSUME AccountNext
  PROVE  \E q \in Request : Aside(q) \/ CreateAccount(q) \/ ResetPassword(q)
  BY DEF AccountNext, Aside

LEMMA AsideLeavesAccounts ==
  ASSUME NEW q \in Request, Aside(q)
  PROVE  UNCHANGED <<users, roster>>
  BY DEF Aside, Signup, Login, ForgotPassword, LinkOrCreateAthlete, StartSession,
     Logout, DropExpired, CommitToken, ReplaceTokens, FindToken, Lapse, RequestFails,
     tables

-----------------------------------------------------------------------------
(* The account that CreateAccount commits, the one ResetPassword changes.  *)

LEMMA Created ==
  ASSUME AccountInv, NEW q \in Request, CreateAccount(q), users' # users
  PROVE  /\ email[q] \in Email /\ users[email[q]] = Nobody
         /\ holds[q] \in Person \cup {Nobody} /\ holds[q] \notin Claimed
         /\ \E a \in Account : /\ a.athlete = holds[q]
                               /\ users' = [users EXCEPT ![email[q]] = a]
         /\ roster' = roster \cup ({holds[q]} \ {Nobody})
<1>1. /\ doing[q] = "create" /\ users[email[q]] = Nobody /\ holds[q] \notin Claimed
      /\ users' = [users EXCEPT ![email[q]] = [athlete |-> holds[q], password |-> q]]
      /\ roster' = roster \cup ({holds[q]} \ {Nobody})
  BY DEF CreateAccount
<1>2. email[q] \in Email /\ holds[q] \in Person \cup {Nobody}
  BY <1>1 DEF AccountInv, AccountsStay, AthleteInHand
<1>3. [athlete |-> holds[q], password |-> q] \in Account
  BY <1>2 DEF Account
<1> QED
  BY <1>1, <1>2, <1>3

LEMMA AccountChanged ==
  ASSUME AccountInv, NEW q \in Request, ResetPassword(q)
  PROVE  /\ email[q] \in Accounts
         /\ \E a \in Account : /\ a.athlete = users[email[q]].athlete
                               /\ users' = [users EXCEPT ![email[q]] = a]
<1>1. doing[q] = "set password" /\ users' = [users EXCEPT ![email[q]].password = q]
  BY DEF ResetPassword
<1>2. email[q] \in Accounts
  BY <1>1 DEF AccountInv, AccountsStay
<1>3. users[email[q]] \in Account
  BY <1>2 DEF AccountInv, AccountTypeOK, Accounts
<1>4. [users[email[q]] EXCEPT !.password = q] \in Account
  BY <1>3 DEF Account
<1>5. [users[email[q]] EXCEPT !.password = q].athlete = users[email[q]].athlete
  BY <1>3 DEF Account
<1> QED
  BY <1>1, <1>2, <1>4, <1>5

\* Neither of them, nor any other step, takes an account away.
LEMMA AccountsGrow ==
  ASSUME AccountInv, AccountNext
  PROVE  Accounts \subseteq Accounts'
<1>1. PICK q \in Request : Aside(q) \/ CreateAccount(q) \/ ResetPassword(q)
  BY StepsSplit
<1>2. users' = users \/ \E e \in Email : \E a \in Account : users' = [users EXCEPT ![e] = a]
  <2>1. CASE Aside(q)
    BY <2>1, AsideLeavesAccounts
  <2>2. CASE CreateAccount(q)
    BY <2>2, Created
  <2>3. CASE ResetPassword(q)
    BY <2>3, AccountChanged DEF Accounts
  <2> QED
    BY <1>1, <2>1, <2>2, <2>3
<1> QED
  BY <1>2, AccountAssumption DEF AccountInv, AccountTypeOK, Accounts

-----------------------------------------------------------------------------
LEMMA AccountTypes ==
  ASSUME AccountInv, AccountNext
  PROVE  AccountTypeOK'
<1>1. AccountTypeOK
  BY DEF AccountInv
<1>2. PICK q \in Request : Aside(q) \/ CreateAccount(q) \/ ResetPassword(q)
  BY StepsSplit
<1>3. /\ users' \in [Email -> {Nobody} \cup Account] /\ roster' \subseteq Person
  <2>1. CASE Aside(q)
    BY <1>1, <2>1, AsideLeavesAccounts DEF AccountTypeOK
  <2>2. CASE CreateAccount(q) /\ users' # users
    BY <1>1, <2>2, Created DEF AccountTypeOK
  <2>3. CASE CreateAccount(q) /\ users' = users
    <3>1. doing[q] = "create"
      BY <2>3 DEF CreateAccount
    <3>2. holds[q] \in Person \cup {Nobody}
      BY <3>1 DEF AccountInv, AthleteInHand
    <3> QED
      BY <1>1, <2>3, <3>2 DEF CreateAccount, AccountTypeOK
  <2>4. CASE ResetPassword(q)
    BY <1>1, <2>4, AccountChanged DEF AccountTypeOK, ResetPassword
  <2> QED
    BY <1>2, <2>1, <2>2, <2>3, <2>4
<1>4. /\ sessions' \subseteq Request /\ tokens' \subseteq Request
      /\ lapsed' \subseteq Request
  BY <1>1, <1>2 DEF AccountTypeOK, Aside, Signup, Login, ForgotPassword,
     LinkOrCreateAthlete, CreateAccount, StartSession, Logout, DropExpired, CommitToken,
     ReplaceTokens, FindToken, ResetPassword, Lapse, RequestFails, tables
<1>5. doing' \in [Request -> Doing]
  BY <1>1, <1>2 DEF AccountTypeOK, Doing, Proceed, Aside, Signup, Login, ForgotPassword,
     LinkOrCreateAthlete, CreateAccount, StartSession, Logout, DropExpired, CommitToken,
     ReplaceTokens, FindToken, ResetPassword, Lapse, RequestFails, Arrive
<1>6. email' \in [Request -> Email \cup {Nothing}]
  <2>1. \A k \in tokens : email[k] \in Email
    BY DEF AccountInv, AccountsStay, Accounts
  <2> QED
    BY <1>1, <1>2, <2>1 DEF AccountTypeOK, Aside, Signup, Login, ForgotPassword,
     LinkOrCreateAthlete, CreateAccount, StartSession, Logout, DropExpired, CommitToken,
     ReplaceTokens, FindToken, ResetPassword, Lapse, RequestFails, Arrive
<1>7. holds' \in [Request -> {Nothing, Nobody} \cup Person \cup SUBSET Request]
  <2>1. \A e \in Email : Of(tokens, e) \in SUBSET Request
    BY <1>1 DEF AccountTypeOK, Of
  <2>2. \A m \in SUBSET roster : m \subseteq Person /\ q \in Person
    BY <1>1 DEF AccountTypeOK, Person
  <2>3. CASE LinkOrCreateAthlete(q)
    <3>1. \E a \in Person : holds' = [holds EXCEPT ![q] = a]
      BY <2>2, <2>3 DEF LinkOrCreateAthlete, Hold
    <3> QED
      BY <1>1, <3>1 DEF AccountTypeOK
  <2>4. CASE ~LinkOrCreateAthlete(q)
    BY <1>1, <1>2, <2>1, <2>4 DEF AccountTypeOK, Aside, Signup, Login, ForgotPassword,
       CreateAccount, StartSession, Logout, DropExpired, CommitToken, ReplaceTokens,
       FindToken, ResetPassword, Lapse, RequestFails, Hold
  <2> QED
    BY <2>3, <2>4
<1> QED
  BY <1>3, <1>4, <1>5, <1>6, <1>7 DEF AccountTypeOK

LEMMA RosterStaysClaimed ==
  ASSUME AccountInv, AccountNext
  PROVE  RosterIsClaimed'
<1>1. AccountTypeOK /\ RosterIsClaimed
  BY DEF AccountInv
<1>2. PICK q \in Request : Aside(q) \/ CreateAccount(q) \/ ResetPassword(q)
  BY StepsSplit
<1>3. CASE UNCHANGED <<users, roster>>
  BY <1>1, <1>3 DEF RosterIsClaimed, Accounts, Claimed
<1>4. CASE CreateAccount(q) /\ users' # users
  <2>1. PICK a \in Account : /\ a.athlete = holds[q]
                             /\ users' = [users EXCEPT ![email[q]] = a]
    BY <1>4, Created
  <2>2. /\ email[q] \in Email /\ users[email[q]] = Nobody /\ holds[q] \notin Claimed
        /\ roster' = roster \cup ({holds[q]} \ {Nobody})
    BY <1>4, Created
  <2>3. a # Nobody
    BY AccountAssumption
  <2>4. /\ Accounts' = Accounts \cup {email[q]} /\ email[q] \notin Accounts
        /\ users'[email[q]].athlete = holds[q]
        /\ \A e \in Accounts : users'[e] = users[e]
    BY <1>1, <2>1, <2>2, <2>3 DEF AccountTypeOK, Accounts
  <2>5. Claimed' = Claimed \cup ({holds[q]} \ {Nobody})
    BY <2>4 DEF Claimed
  <2>6. \A d, e \in Accounts' : d # e /\ users'[d].athlete # Nobody =>
          users'[d].athlete # users'[e].athlete
    <3> SUFFICES ASSUME NEW d \in Accounts', NEW e \in Accounts', d # e,
                        users'[d].athlete # Nobody
                 PROVE  users'[d].athlete # users'[e].athlete
      OBVIOUS
    <3>1. CASE d \in Accounts /\ e \in Accounts
      BY <1>1, <2>4, <3>1 DEF RosterIsClaimed
    <3>2. CASE d = email[q]
      BY <2>2, <2>4, <3>2 DEF Claimed
    <3>3. CASE e = email[q]
      BY <2>2, <2>4, <3>3 DEF Claimed
    <3> QED
      BY <2>4, <3>1, <3>2, <3>3
  <2> QED
    BY <1>1, <2>2, <2>5, <2>6 DEF RosterIsClaimed
<1>5. CASE CreateAccount(q) /\ users' = users
  <2>1. UNCHANGED <<users, roster>>
    <3>1. CASE /\ doing[q] = "create" /\ users[email[q]] = Nobody
               /\ users' = [users EXCEPT ![email[q]] = [athlete |-> holds[q], password |-> q]]
      <4>1. email[q] \in Email /\ holds[q] \in Person \cup {Nobody}
        BY <3>1 DEF AccountInv, AccountsStay, AthleteInHand
      <4>2. [athlete |-> holds[q], password |-> q] \in Account
        BY <4>1 DEF Account
      <4> QED
        BY <1>1, <1>5, <3>1, <4>1, <4>2, AccountAssumption DEF AccountTypeOK
    <3>2. CASE UNCHANGED <<users, roster>>
      BY <3>2
    <3> QED
      BY <1>5, <3>1, <3>2 DEF CreateAccount
  <2> QED
    BY <1>3, <2>1
<1>6. CASE ResetPassword(q)
  <2>1. PICK a \in Account : /\ a.athlete = users[email[q]].athlete
                             /\ users' = [users EXCEPT ![email[q]] = a]
    BY <1>6, AccountChanged
  <2>2. email[q] \in Accounts /\ roster' = roster /\ a # Nobody
    BY <1>6, AccountChanged, AccountAssumption DEF ResetPassword
  <2>3. Accounts' = Accounts /\ \A e \in Accounts : users'[e].athlete = users[e].athlete
    BY <1>1, <2>1, <2>2 DEF AccountTypeOK, Accounts
  <2>4. Claimed' = Claimed
    BY <2>3 DEF Claimed
  <2> QED
    BY <1>1, <2>2, <2>3, <2>4 DEF RosterIsClaimed
<1> QED
  BY <1>2, <1>3, <1>4, <1>5, <1>6, AsideLeavesAccounts

-----------------------------------------------------------------------------
(* Requests that are under way.                                            *)

LEMMA FoundAccountsStay ==
  ASSUME AccountInv, AccountNext
  PROVE  AccountsStay'
<1>1. AccountTypeOK /\ AccountsStay /\ Accounts \subseteq Accounts'
  BY AccountsGrow DEF AccountInv
<1>2. PICK q \in Request : Aside(q) \/ CreateAccount(q) \/ ResetPassword(q)
  BY StepsSplit
<1>3. \A r \in Request : doing[r] # "new" => email'[r] = email[r] /\ doing'[r] # "new"
  BY <1>1, <1>2 DEF AccountTypeOK, Doing, Proceed, Aside, Signup, Login, ForgotPassword,
     LinkOrCreateAthlete, CreateAccount, StartSession, Logout, DropExpired, CommitToken,
     ReplaceTokens, FindToken, ResetPassword, Lapse, RequestFails, Arrive
<1>4. \A r \in Request : doing[r] = "new" /\ doing'[r] # "new" => email'[r] \in Email
  BY <1>1, <1>2 DEF AccountTypeOK, AccountsStay, Accounts, Doing, Proceed, Aside, Signup,
     Login, ForgotPassword, LinkOrCreateAthlete, CreateAccount, StartSession, Logout,
     DropExpired, CommitToken, ReplaceTokens, FindToken, ResetPassword, Lapse,
     RequestFails, Arrive
<1>5. \A r \in Request : doing'[r] \in {"set password", "replace token"} =>
        doing[r] = doing'[r] \/ (doing[r] = "new" /\ email'[r] \in Accounts)
  <2>1. CASE \E k \in Request : FindToken(q, k)
    <3>1. PICK k \in Request : FindToken(q, k)
      BY <2>1
    <3>2. email[k] \in Accounts
      BY <1>1, <3>1 DEF FindToken, AccountsStay
    <3>3. /\ doing[q] = "new" /\ email' = [email EXCEPT ![q] = email[k]]
          /\ \E d \in Doing : doing' = [doing EXCEPT ![q] = d]
      BY <3>1 DEF FindToken, Arrive, Proceed, Doing
    <3> QED
      BY <1>1, <3>2, <3>3 DEF AccountTypeOK
  <2>2. CASE \E e \in Email : ForgotPassword(q, e)
    <3>1. PICK e \in Email : ForgotPassword(q, e)
      BY <2>2
    <3>2. /\ doing[q] = "new" /\ email' = [email EXCEPT ![q] = e] /\ e \in Accounts
          /\ doing' = [doing EXCEPT ![q] = "replace token"]
      BY <3>1 DEF ForgotPassword, Arrive, Proceed, Accounts
    <3> QED
      BY <1>1, <3>2 DEF AccountTypeOK
  <2>3. CASE ~(\E k \in Request : FindToken(q, k)) /\ ~(\E e \in Email : ForgotPassword(q, e))
    BY <1>1, <1>2, <2>3 DEF AccountTypeOK, Proceed, Aside, Signup, Login,
       LinkOrCreateAthlete, CreateAccount, StartSession, Logout, DropExpired,
       CommitToken, ReplaceTokens, ResetPassword, Lapse, RequestFails
  <2> QED
    BY <2>1, <2>2, <2>3
<1>6. \A k \in tokens' : k \in tokens \/ (k \in Request /\ doing[k] = "replace token")
  <2>1. \/ tokens' \subseteq tokens
        \/ doing[q] = "replace token" /\ tokens' \subseteq tokens \cup {q}
    BY <1>2 DEF Aside, Signup, Login, ForgotPassword, LinkOrCreateAthlete, CreateAccount,
       StartSession, Logout, DropExpired, CommitToken, ReplaceTokens, FindToken,
       ResetPassword, Lapse, RequestFails, tables
  <2> QED
    BY <2>1
<1>7. \A k \in tokens : k \in Request /\ doing[k] = "done"
  BY DEF AccountInv, TokensOfEnded, Finished
<1>8. \A k \in tokens' : email'[k] \in Accounts'
  BY <1>1, <1>3, <1>6, <1>7 DEF AccountsStay
<1>9. \A r \in Request : doing'[r] \in {"set password", "replace token"} =>
        email'[r] \in Accounts'
  BY <1>1, <1>3, <1>5 DEF AccountsStay
<1> QED
  BY <1>1, <1>3, <1>4, <1>8, <1>9 DEF AccountsStay

LEMMA AthleteStaysInHand ==
  ASSUME AccountInv, AccountNext
  PROVE  AthleteInHand'
<1>1. AccountTypeOK /\ AthleteInHand
  BY DEF AccountInv
<1>2. PICK q \in Request : Aside(q) \/ CreateAccount(q) \/ ResetPassword(q)
  BY StepsSplit
<1>3. SUFFICES ASSUME NEW r \in Request, doing'[r] = "create"
               PROVE  holds'[r] \in Person \cup {Nobody}
  BY DEF AthleteInHand
<1>4. CASE doing[r] = "create"
  <2>1. r # q \/ holds'[r] = holds[r]
    BY <1>1, <1>2, <1>3, <1>4 DEF AccountTypeOK, Proceed, Aside, Signup, Login,
       ForgotPassword, LinkOrCreateAthlete, CreateAccount, StartSession, Logout,
       DropExpired, CommitToken, ReplaceTokens, FindToken, ResetPassword, Lapse,
       RequestFails, Arrive
  <2>2. r # q => holds'[r] = holds[r]
    BY <1>1, <1>2 DEF AccountTypeOK, Hold, Aside, Signup, Login,
       ForgotPassword, LinkOrCreateAthlete, CreateAccount, StartSession, Logout,
       DropExpired, CommitToken, ReplaceTokens, FindToken, ResetPassword, Lapse,
       RequestFails
  <2> QED
    BY <1>1, <1>4, <2>1, <2>2 DEF AthleteInHand
<1>5. CASE doing[r] # "create"
  <2>1. /\ r = q
        /\ \/ \E e \in Email : \E role \in {"athlete", "coach"} : Signup(q, e, role)
           \/ LinkOrCreateAthlete(q)
    BY <1>1, <1>2, <1>3, <1>5 DEF AccountTypeOK, Proceed, Aside, Login,
       ForgotPassword, LinkOrCreateAthlete, CreateAccount, StartSession, Logout,
       DropExpired, CommitToken, ReplaceTokens, FindToken, ResetPassword, Lapse,
       RequestFails, Arrive, Signup
  <2>2. CASE LinkOrCreateAthlete(q)
    <3>1. PICK a \in Person : holds' = [holds EXCEPT ![q] = a]
      BY <1>1, <2>2 DEF LinkOrCreateAthlete, Hold, AccountTypeOK, Person
    <3> QED
      BY <1>1, <2>1, <3>1 DEF AccountTypeOK
  <2>3. CASE \E e \in Email : \E role \in {"athlete", "coach"} : Signup(q, e, role)
    <3>1. holds' = [holds EXCEPT ![q] = Nobody]
      BY <1>1, <1>3, <2>1, <2>3 DEF Signup, Hold, Proceed, Arrive, AccountTypeOK
    <3> QED
      BY <1>1, <2>1, <3>1 DEF AccountTypeOK
  <2> QED
    BY <2>1, <2>2, <2>3
<1> QED
  BY <1>4, <1>5

-----------------------------------------------------------------------------
(* Tokens.                                                                 *)

\* A step adds at most the token of the request that takes it, which then
\* has ended; what the requests with tokens hold does not change.
LEMMA TokenValues ==
  ASSUME AccountInv, NEW q \in Request,
         Aside(q) \/ CreateAccount(q) \/ ResetPassword(q)
  PROVE  /\ Finished \subseteq Finished'
         /\ \A r \in Finished : holds'[r] = holds[r] /\ email'[r] = email[r]
         /\ \/ tokens' \subseteq tokens
            \/ /\ doing[q] = "replace token" /\ tokens' = (tokens \ holds[q]) \cup {q}
               /\ doing'[q] = "done" /\ holds' = holds /\ email' = email
<1>1. AccountTypeOK
  BY DEF AccountInv
<1>2. CASE CommitToken(q)
  BY <1>1, <1>2 DEF CommitToken, ReplaceTokens, AccountTypeOK, Finished, Proceed
<1>3. CASE ~CommitToken(q)
  <2>1. tokens' \subseteq tokens
    BY <1>3 DEF Aside, Signup, Login, ForgotPassword, LinkOrCreateAthlete, CreateAccount,
       StartSession, Logout, DropExpired, FindToken, ResetPassword, Lapse, RequestFails,
       tables
  <2>2. /\ \A r \in Request : doing[r] = "done" => doing'[r] = "done"
        /\ \A r \in Finished : holds'[r] = holds[r] /\ email'[r] = email[r]
    BY <1>1, <1>3 DEF AccountTypeOK, Finished, Proceed, Hold, Aside, Signup, Login,
       ForgotPassword, LinkOrCreateAthlete, CreateAccount, StartSession, Logout,
       DropExpired, FindToken, ResetPassword, Lapse, RequestFails, Arrive
  <2> QED
    BY <2>1, <2>2 DEF Finished
<1> QED
  BY <1>2, <1>3

LEMMA TokensStayOfEnded ==
  ASSUME AccountInv, AccountNext
  PROVE  TokensOfEnded'
<1>1. AccountTypeOK /\ TokensOfEnded
  BY DEF AccountInv
<1>2. PICK q \in Request : Aside(q) \/ CreateAccount(q) \/ ResetPassword(q)
  BY StepsSplit
<1>3. Finished \subseteq Finished' /\ \A r \in Finished : holds'[r] = holds[r]
  BY <1>2, TokenValues
<1>4. tokens' \subseteq Finished'
  <2>1. CASE tokens' \subseteq tokens
    BY <1>1, <1>3, <2>1 DEF TokensOfEnded
  <2>2. CASE tokens' = (tokens \ holds[q]) \cup {q} /\ doing'[q] = "done"
    BY <1>1, <1>3, <2>2 DEF TokensOfEnded, Finished
  <2> QED
    BY <1>2, <2>1, <2>2, TokenValues
<1>5. \A r \in tokens' : holds'[r] \subseteq Finished'
  <2>1. CASE tokens' \subseteq tokens
    BY <1>1, <1>3, <2>1 DEF TokensOfEnded
  <2>2. CASE /\ doing[q] = "replace token" /\ tokens' = (tokens \ holds[q]) \cup {q}
             /\ holds' = holds
    BY <1>1, <1>3, <2>2 DEF TokensOfEnded
  <2> QED
    BY <1>2, <2>1, <2>2, TokenValues
<1>6. \A r \in Request : doing'[r] = "replace token" => holds'[r] \subseteq Finished'
  <2>1. CASE \E e \in Email : ForgotPassword(q, e)
    <3>1. PICK e \in Email : ForgotPassword(q, e)
      BY <2>1
    <3>2. /\ holds' = [holds EXCEPT ![q] = Of(tokens, e)]
          /\ doing' = [doing EXCEPT ![q] = "replace token"]
      BY <3>1 DEF ForgotPassword, Hold, Proceed
    <3>3. Of(tokens, e) \subseteq Finished
      BY <1>1 DEF TokensOfEnded, Of
    <3> QED
      BY <1>1, <1>3, <3>2, <3>3 DEF AccountTypeOK, TokensOfEnded
  <2>2. CASE ~(\E e \in Email : ForgotPassword(q, e))
    <3>1. \A r \in Request : doing'[r] = "replace token" =>
            doing[r] = "replace token" /\ holds'[r] = holds[r]
      BY <1>1, <1>2, <2>2 DEF AccountTypeOK, Proceed, Hold, Aside, Signup, Login,
         LinkOrCreateAthlete, CreateAccount, StartSession, Logout, DropExpired,
         CommitToken, ReplaceTokens, FindToken, ResetPassword, Lapse, RequestFails, Arrive
    <3> QED
      BY <1>1, <1>3, <3>1 DEF TokensOfEnded
  <2> QED
    BY <2>1, <2>2
<1> QED
  BY <1>4, <1>5, <1>6 DEF TokensOfEnded

LEMMA PriorTokensStayInvalid ==
  ASSUME AccountInv, AccountNext
  PROVE  PriorTokensInvalidated'
<1>1. AccountTypeOK /\ TokensOfEnded /\ PriorTokensInvalidated
  BY DEF AccountInv
<1>2. PICK q \in Request : Aside(q) \/ CreateAccount(q) \/ ResetPassword(q)
  BY StepsSplit
<1>3. \A r \in tokens : holds'[r] = holds[r] /\ email'[r] = email[r]
  BY <1>1, <1>2, TokenValues DEF TokensOfEnded
<1>4. CASE tokens' \subseteq tokens
  BY <1>1, <1>3, <1>4 DEF PriorTokensInvalidated
<1>5. CASE /\ doing[q] = "replace token" /\ tokens' = (tokens \ holds[q]) \cup {q}
           /\ holds' = holds /\ email' = email
  <2>1. q \notin Finished
    BY <1>5 DEF Finished
  <2>2. q \notin holds[q] /\ \A r \in tokens : q \notin holds[r]
    BY <1>1, <1>5, <2>1 DEF TokensOfEnded
  <2> QED
    BY <1>1, <1>5, <2>2 DEF PriorTokensInvalidated
<1> QED
  BY <1>2, <1>4, <1>5, TokenValues

-----------------------------------------------------------------------------
LEMMA AccountInvariant == AccountSpec => []AccountInv
<1>1. AccountInit => AccountInv
  <2> SUFFICES ASSUME AccountInit PROVE AccountInv
    OBVIOUS
  <2>1. AccountTypeOK
    BY DEF AccountInit, AccountTypeOK, Doing, Person
  <2>2. Accounts = {} /\ Claimed = {}
    BY DEF AccountInit, Accounts, Claimed
  <2> QED
    BY <2>1, <2>2 DEF AccountInit, AccountInv, RosterIsClaimed, AccountsStay,
       AthleteInHand, TokensOfEnded, PriorTokensInvalidated
<1>2. AccountInv /\ [AccountNext]_accountVars => AccountInv'
  <2> SUFFICES ASSUME AccountInv, [AccountNext]_accountVars PROVE AccountInv'
    OBVIOUS
  <2>1. CASE AccountNext
    BY <2>1, AccountTypes, RosterStaysClaimed, FoundAccountsStay, AthleteStaysInHand,
       TokensStayOfEnded, PriorTokensStayInvalid DEF AccountInv
  <2>2. CASE UNCHANGED accountVars
    <3>1. Accounts' = Accounts /\ Claimed' = Claimed /\ Finished' = Finished
      BY <2>2 DEF accountVars, Accounts, Claimed, Finished
    <3>2. AccountTypeOK' /\ RosterIsClaimed'
      BY <2>2, <3>1 DEF accountVars, AccountInv, AccountTypeOK, RosterIsClaimed
    <3>3. AccountsStay' /\ AthleteInHand'
      BY <2>2, <3>1 DEF accountVars, AccountInv, AccountsStay, AthleteInHand
    <3>4. TokensOfEnded' /\ PriorTokensInvalidated'
      BY <2>2, <3>1 DEF accountVars, AccountInv, TokensOfEnded, PriorTokensInvalidated
    <3> QED
      BY <3>2, <3>3, <3>4 DEF AccountInv
  <2> QED
    BY <2>1, <2>2
<1> QED
  BY <1>1, <1>2, PTL DEF AccountSpec

\* No two accounts are of one athlete and no signup leaves an athlete that
\* is no account's (signup, _link_or_create_athlete, auth.py), however many
\* signups for one athlete or one address overlap.
THEOREM AthletesAreClaimedOnce == AccountSpec => []RosterIsClaimed
<1>1. AccountInv => RosterIsClaimed
  BY DEF AccountInv
<1> QED
  BY <1>1, AccountInvariant, PTL

\* A reset token and a new password put an end to what was there before
\* (forgot_password, reset_password, auth.py): the tokens that could be seen
\* when a token was asked for, and every session and token of an account
\* whose password changes.
THEOREM ResetsAreFinal == AccountSpec => OldCredentialsDie
<1>1. ASSUME AccountInv, AccountInv', [AccountNext]_accountVars
      PROVE  [PriorTokensInvalidated' /\ ResetInvalidates]_accountVars
  <2> SUFFICES ASSUME AccountNext PROVE PriorTokensInvalidated' /\ ResetInvalidates
    BY <1>1
  <2>1. PriorTokensInvalidated'
    BY <1>1 DEF AccountInv
  <2>2. SUFFICES ASSUME NEW e \in Accounts, users'[e].password # users[e].password
                 PROVE  Of(sessions', e) \cup Of(tokens', e) = {}
    BY <2>1 DEF ResetInvalidates
  <2>3. PICK q \in Request : Aside(q) \/ CreateAccount(q) \/ ResetPassword(q)
    BY StepsSplit
  <2>4. ~Aside(q)
    BY <2>2, AsideLeavesAccounts
  <2>5. ~CreateAccount(q)
    <3> SUFFICES ASSUME CreateAccount(q) PROVE FALSE
      OBVIOUS
    <3>1. users' # users
      BY <2>2
    <3> QED
      BY <1>1, <2>2, <3>1, Created DEF AccountInv, AccountTypeOK, Accounts
  <2>6. e = email[q]
    BY <1>1, <2>2, <2>3, <2>4, <2>5, AccountChanged DEF AccountInv, AccountTypeOK, Accounts
  <2> QED
    BY <2>3, <2>4, <2>5, <2>6 DEF ResetPassword, Of
<1> QED
  BY <1>1, AccountInvariant, PTL DEF AccountSpec, OldCredentialsDie
=============================================================================
