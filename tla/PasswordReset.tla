--------------------------- MODULE PasswordReset ---------------------------
(***************************************************************************)
(* AuthService.forgotPassword and resetPassword beside the sessions they   *)
(* end: a one-time password is kept in Redis under otp:<e-mail> for ten    *)
(* minutes and mailed; with it the user sets a new password, which clears  *)
(* the stored refresh token.                                               *)
(*                                                                         *)
(* The requests of this module have a local state of their own and run     *)
(* beside those of Sessions.  Passwords themselves are left out: the only  *)
(* thing that looks at them is a login, which is one that succeeds.        *)
(***************************************************************************)
EXTENDS Sessions

CONSTANTS
    Resets,         \* requests for forgot-password and reset-password
    Otps,
    NoOtp,
    OtpLife         \* 600 seconds in the code

ASSUME ResetAssumption ==
    /\ NoOtp \notin Otps
    /\ OtpLife \in Nat

VARIABLES
    otpKey,         \* otpKey[u]: the key otp:<u's e-mail>
    mailed,         \* one-time passwords that reached their users
    reset,          \* what each of these requests is doing
    otpUser,        \* history: whom a one-time password was made for
    latest,         \* history: the one stored last for u
    spent           \* history: those whose reset deleted the key

otpVars == <<otpKey, mailed, reset, otpUser, latest, spent>>
allVars == <<vars, otpVars>>

OtpKey == [otp : Otps \cup {NoOtp}, expires : Nat]

NoKey == [otp |-> NoOtp, expires |-> 0]

ResetOps == {"idle", "mail", "reset", "resetDel"}

ResetJob == [op : ResetOps, user : Users \cup {NoUser}, otp : Otps \cup {NoOtp}]

IdleReset == [op |-> "idle", user |-> NoUser, otp |-> NoOtp]

ResetInit ==
    /\ Init
    /\ otpKey = [u \in Users |-> NoKey]
    /\ mailed = {}
    /\ reset = [r \in Resets |-> IdleReset]
    /\ otpUser = [o \in Otps |-> NoUser]
    /\ latest = [u \in Users |-> NoOtp]
    /\ spent = {}

-----------------------------------------------------------------------------
\* redisService.get of the key: nothing once it has expired.
StoredOtp(u) == IF now < otpKey[u].expires THEN otpKey[u].otp ELSE NoOtp

\* forgotPassword: a number drawn at random, o, replaces the one stored.
\* Without Redis nothing is stored, and o is mailed all the same.
ForgotSet(r, u, o) ==
    /\ reset[r].op = "idle"
    /\ otpUser[o] = NoUser
    /\ otpUser' = [otpUser EXCEPT ![o] = u]
    /\ \/ /\ otpKey' = [otpKey EXCEPT ![u] = [otp |-> o, expires |-> now + OtpLife]]
          /\ latest' = [latest EXCEPT ![u] = o]
       \/ /\ FALSE \in Answers
          /\ UNCHANGED <<otpKey, latest>>
    /\ reset' = [reset EXCEPT ![r] = [op |-> "mail", user |-> u, otp |-> o]]
    /\ UNCHANGED <<vars, mailed, spent>>

\* mailService.sendPasswordResetOtp
ForgotMail(r) ==
    /\ reset[r].op = "mail"
    /\ mailed' = mailed \cup {reset[r].otp}
    /\ reset' = [reset EXCEPT ![r] = IdleReset]
    /\ UNCHANGED <<vars, otpKey, otpUser, latest, spent>>

\* resetPassword: the user enters o, and it is the one stored.
ResetCheck(r, o) ==
    /\ reset[r].op = "idle"
    /\ o \in mailed
    /\ StoredOtp(otpUser[o]) = o
    /\ reset' = [reset EXCEPT ![r] = [op |-> "reset", user |-> otpUser[o], otp |-> o]]
    /\ UNCHANGED <<vars, otpKey, mailed, otpUser, latest, spent>>

\* updateProfile: the new password's hash and no refresh token, in one update.
ResetWrite(r) ==
    /\ reset[r].op = "reset"
    /\ hashed' = [hashed EXCEPT ![reset[r].user] = NoToken]
    /\ reset' = [reset EXCEPT ![r].op = "resetDel"]
    /\ UNCHANGED <<now, pair, delivered, blacklist, job, history,
                   otpKey, mailed, otpUser, latest, spent>>

\* Mutant of ResetDel: the key is left to expire.
ResetDelNothing(r) ==
    /\ reset[r].op = "resetDel"
    /\ spent' = spent \cup {reset[r].otp}
    /\ reset' = [reset EXCEPT ![r] = IdleReset]
    /\ UNCHANGED <<vars, otpKey, mailed, otpUser, latest>>

\* redisService.del: whatever is stored there by now.
ResetDel(r) ==
    /\ reset[r].op = "resetDel"
    /\ \/ /\ otpKey' = [otpKey EXCEPT ![reset[r].user] = NoKey]
          /\ spent' = spent \cup {reset[r].otp}
       \/ /\ FALSE \in Answers
          /\ UNCHANGED <<otpKey, spent>>
    /\ reset' = [reset EXCEPT ![r] = IdleReset]
    /\ UNCHANGED <<vars, mailed, otpUser, latest>>

\* The request dies where it stands.
ResetDrop(r) ==
    /\ reset[r].op # "idle"
    /\ reset' = [reset EXCEPT ![r] = IdleReset]
    /\ UNCHANGED <<vars, otpKey, mailed, otpUser, latest, spent>>

ResetStep(r) ==
    \/ \E u \in Users, o \in Otps : ForgotSet(r, u, o)
    \/ ForgotMail(r)
    \/ \E o \in Otps : ResetCheck(r, o)
    \/ ResetWrite(r) \/ ResetDel(r) \/ ResetDrop(r)

ResetNext ==
    \/ Next /\ UNCHANGED otpVars
    \/ \E r \in Resets : ResetStep(r)

ResetSpec == ResetInit /\ [][ResetNext]_allVars
-----------------------------------------------------------------------------
\* Type invariant: what the stores and the requests' local state hold.
ResetTypeOK ==
    /\ TypeOK
    /\ otpKey \in [Users -> OtpKey]
    /\ mailed \in SUBSET Otps
    /\ reset \in [Resets -> ResetJob]
    /\ otpUser \in [Otps -> Users \cup {NoUser}]
    /\ latest \in [Users -> Otps \cup {NoOtp}]
    /\ spent \in SUBSET Otps

\* Once a reset has deleted its one-time password, no reset begins with that
\* one, however many are made for the same user meanwhile and in whatever order
\* their mails arrive; nor does one begin with a password mailed to the user
\* and then replaced.
SpentIsRefused ==
    [][\A r \in Resets :
         reset[r].op = "idle" /\ reset'[r].op = "reset" =>
            /\ reset'[r].otp \notin spent
            /\ reset'[r].otp = latest[reset'[r].user]]_allVars
=============================================================================
