------------------------------ MODULE Accounts ------------------------------
(***************************************************************************)
(* Who has an account, in which role and standing, and what that lets them *)
(* do: register and provisionUser make accounts, updateUserStatus bars     *)
(* them, login looks at both, JwtStrategy and RolesGuard stand before      *)
(* every route.  Tokens of one account are alike here, as nothing but the  *)
(* account's id in them is used; Sessions tells them apart.                *)
(***************************************************************************)
EXTENDS FiniteSets

CONSTANTS
    People, Nobody,
    Founder,        \* the administrator the database starts with
    Doors           \* sign-ins and refreshes that may be in flight

ASSUME AccountsAssumption == Founder \in People /\ Nobody \notin People

VARIABLES
    account,        \* each person's user document
    signedIn,       \* people with a token that passes, an access or a refresh
    entering,       \* whom each request is about to give tokens
    madeBy          \* history: the administrator who provisioned an account

accountVars == <<account, signedIn, entering, madeBy>>

Roles == {"user", "admin", "support"}

NoAccount == [role |-> "none", isActive |-> FALSE, isBanned |-> FALSE]

NewAccount(role) == [role |-> role, isActive |-> TRUE, isBanned |-> FALSE]

AccountsInit ==
    /\ account = [p \in People |-> IF p = Founder THEN NewAccount("admin") ELSE NoAccount]
    /\ signedIn = {}
    /\ entering = [w \in Doors |-> Nobody]
    /\ madeBy = [p \in People |-> p]

Exists(p) == account[p] # NoAccount

\* No sign-in for this account.
Barred(p) == ~ account[p].isActive \/ account[p].isBanned

\* A sign-in or refresh that has looked at the account, or the token, and not
\* yet given out new tokens.
Entering(p) == \E w \in Doors : entering[w] = p

-----------------------------------------------------------------------------
Enter(w, p) == entering' = [entering EXCEPT ![w] = p]
Leave(w) == entering' = [entering EXCEPT ![w] = Nobody]

\* Mutant of Register: the role comes from the body.
RegisterAs(w, p) ==
    /\ entering[w] = Nobody
    /\ ~ Exists(p)
    /\ \E r \in Roles : account' = [account EXCEPT ![p] = NewAccount(r)]
    /\ Enter(w, p)
    /\ UNCHANGED <<signedIn, madeBy>>

\* register: a user like any other, who gets tokens at once.
Register(w, p) ==
    /\ entering[w] = Nobody
    /\ ~ Exists(p)
    /\ account' = [account EXCEPT ![p] = NewAccount("user")]
    /\ Enter(w, p)
    /\ UNCHANGED <<signedIn, madeBy>>

\* Mutant of Login: 'and' for 'or' in the look at the standing.
LoginUnlessBoth(w, p) ==
    /\ entering[w] = Nobody
    /\ Exists(p)
    /\ account[p].isActive \/ ~ account[p].isBanned
    /\ Enter(w, p)
    /\ UNCHANGED <<account, signedIn, madeBy>>

\* login with the right password: the standing, and on the administrators'
\* door the role.
Login(w, p) ==
    /\ entering[w] = Nobody
    /\ Exists(p)
    /\ \E expected \in {"any", "admin"} : expected = "any" \/ account[p].role = expected
    /\ ~ Barred(p)
    /\ Enter(w, p)
    /\ UNCHANGED <<account, signedIn, madeBy>>

\* Tokens are made and handed out, whatever the account is by now.
SignIn(w) ==
    /\ entering[w] # Nobody
    /\ signedIn' = signedIn \cup {entering[w]}
    /\ Leave(w)
    /\ UNCHANGED <<account, madeBy>>

\* refreshToken: a token is found good, with no look at the standing; new ones
\* follow, even if the old ones have lapsed or been revoked by then.
Refresh(w, p) ==
    /\ entering[w] = Nobody
    /\ p \in signedIn
    /\ Exists(p)
    /\ Enter(w, p)
    /\ UNCHANGED <<account, signedIn, madeBy>>

\* The tokens lapse, or p logs out.
SignOut(p) ==
    /\ p \in signedIn
    /\ signedIn' = signedIn \ {p}
    /\ UNCHANGED <<account, entering, madeBy>>

\* JwtStrategy.validate reads the account the token names, and RolesGuard
\* compares the role stored there with what the administrators' routes ask for.
\* Neither looks at the standing.  A role never changes, so what the guard saw
\* still holds when the service writes, and both are one step here.
AdminRoute(p) == p \in signedIn /\ Exists(p) /\ account[p].role = "admin"

\* provisionUser: the role of the body, or a user; no tokens.
ProvisionUser(p, q) ==
    /\ AdminRoute(p)
    /\ ~ Exists(q)
    /\ \E r \in Roles : account' = [account EXCEPT ![q] = NewAccount(r)]
    /\ madeBy' = [madeBy EXCEPT ![q] = p]
    /\ UNCHANGED <<signedIn, entering>>

\* updateUserStatus: both flags, from the status.
UpdateUserStatus(p, q) ==
    /\ AdminRoute(p)
    /\ Exists(q)
    /\ \E status \in {"active", "inactive", "banned"} :
          account' = [account EXCEPT ![q].isBanned = (status = "banned"),
                                     ![q].isActive = (status = "active")]
    /\ UNCHANGED <<signedIn, entering, madeBy>>

\* The request breaks off.
GiveUp(w) ==
    /\ entering[w] # Nobody
    /\ Leave(w)
    /\ UNCHANGED <<account, signedIn, madeBy>>

AccountsNext ==
    \/ \E w \in Doors, p \in People : Register(w, p) \/ Login(w, p) \/ Refresh(w, p)
    \/ \E w \in Doors : SignIn(w) \/ GiveUp(w)
    \/ \E p \in People : SignOut(p)
    \/ \E p, q \in People : ProvisionUser(p, q) \/ UpdateUserStatus(p, q)

AccountsSpec == AccountsInit /\ [][AccountsNext]_accountVars
-----------------------------------------------------------------------------
\* Type invariant: accounts and requests.
AccountsTypeOK ==
    /\ account \in [People -> [role : Roles, isActive : BOOLEAN, isBanned : BOOLEAN]
                              \cup {NoAccount}]
    /\ signedIn \in SUBSET People
    /\ entering \in [Doors -> People \cup {Nobody}]
    /\ madeBy \in [People -> People]

Admins == {p \in People : account[p].role = "admin"}

\* Every administrator goes back to the founder: made by an administrator who was
\* made by another, and so on down to the founder, with no circle among them.
\* That is, the administrators are the least set that has the founder and, with
\* each of its members, the administrators this one has made.  So it is however
\* registrations, sign-ins and changes of standing overlap.
AdminsFromFounder ==
    /\ Founder \in Admins
    /\ \A S \in SUBSET Admins :
          Founder \in S /\ (\A p \in Admins : madeBy[p] \in S => p \in S) => S = Admins

\* A barred account that has no token left, and no sign-in or refresh under way
\* that began before, gets no other while it is barred.  One that has
\* a token may keep refreshing it: nothing looks at the standing again.
BarredStaysOut ==
    [][ \A p \in People :
          Exists(p) /\ Barred(p) /\ p \notin signedIn /\ ~ Entering(p)
            => \/ p \notin signedIn' /\ ~ Entering(p)'
               \/ ~ Barred(p)' ]_accountVars
=============================================================================
