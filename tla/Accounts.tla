------------------------------ MODULE Accounts ------------------------------
(***************************************************************************)
(* Accounts: registration, verification, login, password reset and login   *)
(* through a provider (src/backend/internal/auth/service.go, oauth.go and  *)
(* session.go, db/auth.sql.go).                                            *)
(*                                                                         *)
(* No operation is a transaction: every statement commits by itself, other *)
(* requests run between two of them, and any request may stop there, when  *)
(* the database fails, the client goes away or the process restarts.       *)
(*                                                                         *)
(* An account is named by its e-mail address, which is unique, and is      *)
(* never deleted.  A link is a row of auth_tokens, live until it is used or *)
(* expires, and of use once it is mailed; MaxLinks bounds how many of a    *)
(* kind an account has at a time.                                          *)
(***************************************************************************)
EXTENDS Integers, FiniteSets

CONSTANTS
    Emails, Passwords,
    Identities,   \* accounts at a provider
    Typists,      \* addresses that use a password
    EmailOf,      \* the address the provider tells
    Vouched,      \* identities whose address the provider has verified
    Calls,        \* requests in progress
    MaxLinks,
    MaxFaults,    \* bound on requests that stop half way and on mailed links that expire
    None

ASSUME EmailOfIsTotal == EmailOf \in [Identities -> Emails]
ASSUME VouchedAreIdentities == Vouched \subseteq Identities /\ Typists \subseteq Emails
ASSUME BoundsAreNat == MaxLinks \in Nat /\ MaxFaults \in Nat
ASSUME NoneIsNew == /\ None \notin Emails \cup Passwords
                    /\ None \notin [password : Passwords \cup {None}, verified : BOOLEAN]

VARIABLES
    user,       \* users: password_hash and email_verified_at, None without a row
    linked,     \* oauth_identities: whose the identity is
    link,       \* auth_tokens: what has become of a link
    sessions,   \* accounts with a session
    call,       \* the requests in progress
    faults

vars == <<user, linked, link, sessions, call, faults>>

Purposes == {"email_verification", "password_reset"}
Links    == [email : Emails, purpose : Purposes, n : 1..MaxLinks]
Account(p, v) == [password |-> p, verified |-> v]
Idle == [step |-> "idle"]

\* What a request holds between two statements.
Requests ==
    {Idle}
    \cup [step : {"token"}, email : Emails, purpose : Purposes]
    \cup [step : {"over", "update"}, email : Emails, password : Passwords]
    \cup [step : {"mail"}, link : Links]
    \cup [step : {"mark"}, email : Emails, link : Links]
    \cup [step : {"password"}, email : Emails, link : Links, password : Passwords]
    \cup [step : {"signout", "session"}, email : Emails]
    \cup [step : {"match", "create", "wipe", "vouch", "link"}, identity : Identities, email : Emails]

Go(c, next) == call' = [call EXCEPT ![c] = next]
Step(c, s)  == Go(c, [call[c] EXCEPT !.step = s])
End(c)      == Go(c, Idle)
At(c, s)    == call[c].step = s

-----------------------------------------------------------------------------
(* Register and sendVerification *)

CreateUser(e, p, v) == user' = [user EXCEPT ![e] = Account(p, v)]

Register(c, e, p) ==
    /\ At(c, "idle")
    /\ IF user[e] = None
       THEN /\ CreateUser(e, p, FALSE)
            /\ Go(c, [step |-> "token", email |-> e, purpose |-> "email_verification"])
       ELSE /\ Go(c, [step |-> "over", email |-> e, password |-> p])
            /\ UNCHANGED user
    /\ UNCHANGED <<linked, link, sessions, faults>>

\* Mutant: an address that has an account is taken.
TakenIfExisting(c) ==
    /\ At(c, "over")
    /\ End(c)
    /\ UNCHANGED <<user, linked, link, sessions, faults>>

\* registerOverExisting: the address is taken once it is verified.
FindExisting(c) ==
    /\ At(c, "over")
    /\ IF user[call[c].email].verified THEN End(c) ELSE Step(c, "update")
    /\ UNCHANGED <<user, linked, link, sessions, faults>>

\* Mutant: the account is updated as it was found.
UpdateAnyUser(c) == LET e == call[c].email IN
    /\ At(c, "update")
    /\ user' = [user EXCEPT ![e].password = call[c].password]
    /\ Go(c, [step |-> "token", email |-> e, purpose |-> "email_verification"])
    /\ UNCHANGED <<linked, link, sessions, faults>>

\* Its WHERE asks again: the account may be verified by now.
UpdateUnverifiedUser(c) == LET e == call[c].email IN
    /\ At(c, "update")
    /\ IF user[e].verified
       THEN End(c) /\ UNCHANGED user
       ELSE /\ user' = [user EXCEPT ![e].password = call[c].password]
            /\ Go(c, [step |-> "token", email |-> e, purpose |-> "email_verification"])
    /\ UNCHANGED <<linked, link, sessions, faults>>

\* A call has just written the link, or uses it up.
Held(k) == \E c \in Calls : At(c, "mail") /\ call[c].link = k
Spending(c, k) == call[c].step \in {"mark", "password"} /\ call[c].link = k

FreeLinks(e, purpose) ==
    {k \in Links : /\ k.email = e /\ k.purpose = purpose /\ link[k] = "none"
                   /\ ~Held(k) /\ \A d \in Calls : ~Spending(d, k)}

\* Beyond MaxLinks the request ends here.
CreateAuthToken(c) ==
    /\ At(c, "token")
    /\ LET free == FreeLinks(call[c].email, call[c].purpose)
       IN  IF free = {} THEN End(c) /\ UNCHANGED link
           ELSE \E k \in free : /\ link' = [link EXCEPT ![k] = "live"]
                                /\ Go(c, [step |-> "mail", link |-> k])
    /\ UNCHANGED <<user, linked, sessions, faults>>

Send(c) ==
    /\ At(c, "mail")
    /\ link' = [link EXCEPT ![call[c].link] = "mailed"]
    /\ End(c)
    /\ UNCHANGED <<user, linked, sessions, faults>>

-----------------------------------------------------------------------------
(* VerifyEmail, RequestPasswordReset, ResetPassword *)

\* Mutant: the row is looked up and left.
FindAuthToken(k) == UNCHANGED link

ConsumeAuthToken(k) == link' = [link EXCEPT ![k] = "none"]

Usable(k, purpose) == link[k] = "mailed" /\ k.purpose = purpose

VerifyEmail(c, k) ==
    /\ At(c, "idle") /\ Usable(k, "email_verification")
    /\ ConsumeAuthToken(k)
    /\ Go(c, [step |-> "mark", email |-> k.email, link |-> k])
    /\ UNCHANGED <<user, linked, sessions, faults>>

MarkEmailVerified(c) ==
    /\ At(c, "mark")
    /\ user' = [user EXCEPT ![call[c].email].verified = TRUE]
    /\ End(c)
    /\ UNCHANGED <<linked, link, sessions, faults>>

RequestPasswordReset(c, e) ==
    /\ At(c, "idle") /\ user[e] # None
    /\ Go(c, [step |-> "token", email |-> e, purpose |-> "password_reset"])
    /\ UNCHANGED <<user, linked, link, sessions, faults>>

ResetPassword(c, k, p) ==
    /\ At(c, "idle") /\ Usable(k, "password_reset")
    /\ ConsumeAuthToken(k)
    /\ Go(c, [step |-> "password", email |-> k.email, link |-> k, password |-> p])
    /\ UNCHANGED <<user, linked, sessions, faults>>

SetPasswordHash(c) ==
    /\ At(c, "password")
    /\ user' = [user EXCEPT ![call[c].email].password = call[c].password]
    /\ Go(c, [step |-> "signout", email |-> call[c].email])
    /\ UNCHANGED <<linked, link, sessions, faults>>

DeleteSessionsForUser(c) ==
    /\ At(c, "signout")
    /\ sessions' = sessions \ {call[c].email}
    /\ End(c)
    /\ UNCHANGED <<user, linked, link, faults>>

-----------------------------------------------------------------------------
(* Login, sessions *)

\* Mutant: the address need not be verified.
LoginUnverified(c, e, p) ==
    /\ At(c, "idle") /\ user[e] # None
    /\ user[e].password = p
    /\ Go(c, [step |-> "session", email |-> e])
    /\ UNCHANGED <<user, linked, link, sessions, faults>>

Login(c, e, p) ==
    /\ At(c, "idle") /\ user[e] # None
    /\ user[e].password = p /\ user[e].verified
    /\ Go(c, [step |-> "session", email |-> e])
    /\ UNCHANGED <<user, linked, link, sessions, faults>>

CreateSession(c) ==
    /\ At(c, "session")
    /\ sessions' = sessions \cup {call[c].email}
    /\ End(c)
    /\ UNCHANGED <<user, linked, link, faults>>

\* A logout, or the end of its 30 days.
EndSession(e) ==
    /\ e \in sessions
    /\ sessions' = sessions \ {e}
    /\ UNCHANGED <<user, linked, link, call, faults>>

-----------------------------------------------------------------------------
(* OAuth: CompleteLogin and matchOrCreateUser *)

\* linkTo is an account with a session while it links, None otherwise.
CompleteLogin(c, i, linkTo) ==
    /\ At(c, "idle")
    /\ linkTo \in sessions \cup {None}
    /\ IF linked[i] # None
       THEN /\ linkTo \in {linked[i], None}
            /\ Go(c, [step |-> "session", email |-> linked[i]])
       ELSE IF linkTo # None
       THEN Go(c, [step |-> "link", identity |-> i, email |-> linkTo])
       ELSE Go(c, [step |-> "match", identity |-> i, email |-> EmailOf[i]])
    /\ UNCHANGED <<user, linked, link, sessions, faults>>

\* Mutant: an account with this address is always a collision.
MatchNobody(c) ==
    /\ At(c, "match")
    /\ IF user[call[c].email] = None THEN Step(c, "create") ELSE End(c)
    /\ UNCHANGED <<user, linked, link, sessions, faults>>

MatchUser(c) == LET u == user[call[c].email] IN
    /\ At(c, "match")
    /\ IF u = None THEN Step(c, "create")
       ELSE IF call[c].identity \notin Vouched THEN End(c)
       ELSE IF u.verified THEN Step(c, "link")
       ELSE Step(c, "wipe")
    /\ UNCHANGED <<user, linked, link, sessions, faults>>

\* The password of an account that was never verified may be somebody else's.
WipePassword(c) ==
    /\ At(c, "wipe")
    /\ user' = [user EXCEPT ![call[c].email].password = None]
    /\ Step(c, "vouch")
    /\ UNCHANGED <<linked, link, sessions, faults>>

MarkVouched(c) ==
    /\ At(c, "vouch")
    /\ user' = [user EXCEPT ![call[c].email].verified = TRUE]
    /\ Step(c, "link")
    /\ UNCHANGED <<linked, link, sessions, faults>>

\* The address is unique: an account that is there by now fails the insert.
CreateProviderUser(c) == LET e == call[c].email IN
    /\ At(c, "create")
    /\ IF user[e] # None
       THEN End(c) /\ UNCHANGED user
       ELSE CreateUser(e, None, call[c].identity \in Vouched) /\ Step(c, "link")
    /\ UNCHANGED <<linked, link, sessions, faults>>

\* So does an identity that is linked by now.
CreateOAuthIdentity(c) == LET i == call[c].identity IN
    /\ At(c, "link")
    /\ IF linked[i] # None
       THEN End(c) /\ UNCHANGED linked
       ELSE /\ linked' = [linked EXCEPT ![i] = call[c].email]
            /\ Go(c, [step |-> "session", email |-> call[c].email])
    /\ UNCHANGED <<user, link, sessions, faults>>

-----------------------------------------------------------------------------
(* Faults and time *)

\* A request ends between two statements; a mail that is not sent included.
Stop(c) ==
    /\ ~At(c, "idle")
    /\ faults < MaxFaults
    /\ faults' = faults + 1
    /\ End(c)
    /\ UNCHANGED <<user, linked, link, sessions>>

\* Its TTL is over; a link that was never mailed just goes.
Expire(k) ==
    /\ link[k] # "none" /\ ~Held(k)
    /\ faults' = IF link[k] = "mailed" THEN faults + 1 ELSE faults
    /\ faults' <= MaxFaults
    /\ link' = [link EXCEPT ![k] = "none"]
    /\ UNCHANGED <<user, linked, sessions, call>>

Init ==
    /\ user = [e \in Emails |-> None]
    /\ linked = [i \in Identities |-> None]
    /\ link = [k \in Links |-> "none"]
    /\ sessions = {}
    /\ call = [c \in Calls |-> Idle]
    /\ faults = 0

Proceed(c) ==
    \/ FindExisting(c) \/ UpdateUnverifiedUser(c) \/ CreateAuthToken(c) \/ Send(c)
    \/ MarkEmailVerified(c) \/ SetPasswordHash(c) \/ DeleteSessionsForUser(c)
    \/ CreateSession(c) \/ MatchUser(c) \/ WipePassword(c) \/ MarkVouched(c)
    \/ CreateProviderUser(c) \/ CreateOAuthIdentity(c)

Next ==
    \/ \E c \in Calls :
         \/ Proceed(c) \/ Stop(c)
         \/ \E e \in Typists : RequestPasswordReset(c, e)
         \/ \E e \in Typists, p \in Passwords : Register(c, e, p) \/ Login(c, e, p)
         \/ \E k \in Links : VerifyEmail(c, k)
         \/ \E k \in Links, p \in Passwords : ResetPassword(c, k, p)
         \/ \E i \in Identities, linkTo \in Emails \cup {None} : CompleteLogin(c, i, linkTo)
    \/ \E k \in Links : Expire(k)
    \/ \E e \in Emails : EndSession(e)

Spec == Init /\ [][Next]_vars

LinksOf(e) == {k \in Links : k.email = e /\ k.purpose = "email_verification"}

\* Requests run on, and users do not give up: whoever has registered does it
\* again until he has a link, and opens it; links expire; who has an account at a provider
\* tries to log in again.
Fairness ==
    /\ \A c \in Calls : WF_vars(Proceed(c))
    /\ \A e \in Typists : SF_vars(\E c \in Calls, p \in Passwords : Register(c, e, p))
    /\ \A e \in Typists :
         /\ SF_vars(\E c \in Calls : \E k \in LinksOf(e) : VerifyEmail(c, k))
         /\ WF_vars(\E k \in LinksOf(e) : link[k] = "live" /\ Expire(k))
    /\ \A i \in Vouched : SF_vars(\E c \in Calls : CompleteLogin(c, i, None))

FairSpec == Spec /\ Fairness

-----------------------------------------------------------------------------
(* Properties *)

\* The tables have their types and a request knows what its step needs.
TypeOK ==
    /\ user \in [Emails -> [password : Passwords \cup {None}, verified : BOOLEAN] \cup {None}]
    /\ linked \in [Identities -> Emails \cup {None}]
    /\ link \in [Links -> {"none", "live", "mailed"}]
    /\ sessions \subseteq Emails
    /\ call \in [Calls -> Requests]
    /\ faults \in 0..MaxFaults

\* "ConsumeAuthToken" is a delete: a link works once, also when it is opened
\* twice at the same time.
SpentOnce ==
    \A c \in Calls, k \in Links : Spending(c, k) =>
        link[k] = "none" /\ \A d \in Calls \ {c} : ~Spending(d, k)

\* "already verified: the email is considered taken", "link as-is": the password
\* of a verified account is changed by a reset of that account only, or by a
\* login through a provider that still found it unverified.
VerifiedPasswordKept == [][
    \A e \in Emails : user[e] # None /\ user[e].verified /\ user'[e].password # user[e].password =>
        \E c \in Calls : call[c].step \in {"password", "wipe"} /\ call[c].email = e
  ]_vars

\* Whoever is logged in has shown that the account is his: by a verified
\* address, or by an identity that is linked to it.
SessionsAreEarned ==
    \A e \in sessions : user[e] # None /\ (user[e].verified \/ \E i \in Identities : linked[i] = e)

\* An identity logs in to one account for ever, however logins and explicit
\* links of it overlap.
IdentityStays == [][\A i \in Identities : linked[i] # None => linked'[i] = linked[i]]_vars

\* A registration that stopped anywhere, or whose link expired, can be repeated
\* until the address is verified.
VerificationRecovers ==
    \A e \in Typists : user[e] # None ~> user[e] # None /\ user[e].verified

\* A login through a provider that vouches for the address succeeds in the end,
\* wherever earlier ones stopped.
ProviderLoginWorks == \A i \in Vouched : <>(linked[i] # None)

=============================================================================
