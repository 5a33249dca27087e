--------------------------- MODULE AccountsProofs ---------------------------
(***************************************************************************)
(* What the statements of concurrent requests keep about accounts, for any *)
(* number of addresses, identities, links and requests.                    *)
(*                                                                         *)
(* That links work once rests on who has which link: a request that has    *)
(* just written one or is using one up is the only one that has it.  That  *)
(* sessions are earned rests on what every request knows of its account    *)
(* before it creates one, and on that never being taken back.              *)
(***************************************************************************)
EXTENDS Accounts, TLAPS

HasLink(c) == call[c].step \in {"mail", "mark", "password"}

NeedsAccount ==
    {"token", "over", "update", "mark", "password", "signout", "session", "wipe", "vouch", "link"}

Earned(e)     == user[e] # None /\ (user[e].verified \/ \E i \in Identities : linked[i] = e)
EarnedNext(e) == user'[e] # None /\ (user'[e].verified \/ \E i \in Identities : linked'[i] = e)

\* Whatever names an account names one that is there.
AccountsExist ==
    /\ \A i \in Identities : linked[i] # None => user[linked[i]] # None
    /\ \A k \in Links : link[k] # "none" => user[k.email] # None
    /\ \A c \in Calls : call[c].step \in NeedsAccount => user[call[c].email] # None

\* A link that is written but not mailed, or used up, belongs to one request.
LinksAreHeld ==
    /\ \A c \in Calls : call[c].step = "mail" => link[call[c].link] = "live"
    /\ \A c \in Calls : call[c].step \in {"mark", "password"} => link[call[c].link] = "none"
    /\ \A c, d \in Calls : HasLink(c) /\ HasLink(d) /\ call[c].link = call[d].link => c = d

\* Whoever is about to get a session has earned it.
LoginsAreEarned ==
    \A c \in Calls : call[c].step = "session" => Earned(call[c].email)

AccountInvariant ==
    /\ TypeOK
    /\ AccountsExist
    /\ LinksAreHeld
    /\ LoginsAreEarned
    /\ SessionsAreEarned

-----------------------------------------------------------------------------
(* Requests *)

\* What a request holds follows from its step.
LEMMA RequestTypes ==
    ASSUME TypeOK, NEW c \in Calls
    PROVE  LET r == call[c]
           IN  /\ r.step = "token" => r.email \in Emails /\ r.purpose \in Purposes
               /\ r.step \in {"over", "update"} => r.email \in Emails /\ r.password \in Passwords
               /\ r.step = "mail" => r.link \in Links
               /\ r.step = "mark" => r.email \in Emails /\ r.link \in Links
               /\ r.step = "password" =>
                     r.email \in Emails /\ r.link \in Links /\ r.password \in Passwords
               /\ r.step \in {"signout", "session"} => r.email \in Emails
               /\ r.step \in {"match", "create", "wipe", "vouch", "link"} =>
                     r.email \in Emails /\ r.identity \in Identities
BY DEF TypeOK, Requests, Idle

\* A request that goes on to the next statement keeps what it holds.
LEMMA NextStatement ==
    ASSUME TypeOK, NEW c \in Calls, NEW s
    PROVE  /\ call[c].step = "over" /\ s = "update" => [call[c] EXCEPT !.step = s] \in Requests
           /\ call[c].step \in {"match", "create", "wipe", "vouch"}
                /\ s \in {"create", "wipe", "vouch", "link"} =>
                  /\ [call[c] EXCEPT !.step = s] \in Requests
                  /\ [call[c] EXCEPT !.step = s].email = call[c].email
                  /\ [call[c] EXCEPT !.step = s].step = s
BY DEF TypeOK, Requests, Idle

\* One request moves, the others stay where they are.
LEMMA GoTypes ==
    ASSUME TypeOK, NEW c \in Calls, NEW next \in Requests, Go(c, next)
    PROVE  /\ call' \in [Calls -> Requests]
           /\ call'[c] = next
           /\ \A d \in Calls \ {c} : call'[d] = call[d]
BY DEF TypeOK, Go

-----------------------------------------------------------------------------
(* Types *)

\* The parts of TypeOK that are not the requests.
TablesOK ==
    /\ user \in [Emails -> [password : Passwords \cup {None}, verified : BOOLEAN] \cup {None}]
    /\ linked \in [Identities -> Emails \cup {None}]
    /\ link \in [Links -> {"none", "live", "mailed"}]
    /\ sessions \subseteq Emails
    /\ faults \in 0..MaxFaults

\* A request that goes on keeps the types if the tables have theirs.
LEMMA TypeOfGo ==
    ASSUME TypeOK, NEW c \in Calls, NEW next \in Requests, Go(c, next), TablesOK'
    PROVE  TypeOK'
BY GoTypes DEF TypeOK, TablesOK

\* Registration, verification and their links.
LEMMA RegisterTypes ==
    ASSUME TypeOK, NEW c \in Calls, NEW e \in Emails, NEW p \in Passwords, Register(c, e, p)
    PROVE  TypeOK'
<1>1. CASE user[e] = None
  <2>1. [step |-> "token", email |-> e, purpose |-> "email_verification"] \in Requests
        BY DEF Requests, Purposes
  <2>2. user' = [user EXCEPT ![e] = [password |-> p, verified |-> FALSE]]
        BY <1>1 DEF Register, CreateUser, Account
  <2>3. user' \in [Emails -> [password : Passwords \cup {None}, verified : BOOLEAN] \cup {None}]
        BY <2>2 DEF TypeOK
  <2>4. TablesOK'
        BY <2>3 DEF Register, TypeOK, TablesOK
  <2> QED
      BY <1>1, <2>1, <2>4, TypeOfGo DEF Register
<1>2. CASE user[e] # None
  <2>1. [step |-> "over", email |-> e, password |-> p] \in Requests
        BY DEF Requests
  <2>2. TablesOK'
        BY <1>2 DEF Register, TypeOK, TablesOK
  <2> QED
      BY <1>2, <2>1, <2>2, TypeOfGo DEF Register
<1> QED
    BY <1>1, <1>2

\* A request may always end.
LEMMA EndTypes == ASSUME TypeOK, NEW c \in Calls, End(c), TablesOK' PROVE TypeOK'
<1>1. Idle \in Requests
      BY DEF Requests
<1> QED
    BY <1>1, TypeOfGo DEF End

\* The statements of registerOverExisting and sendVerification.
LEMMA RegistrationTypes ==
    ASSUME TypeOK, AccountsExist, NEW c \in Calls,
           FindExisting(c) \/ UpdateUnverifiedUser(c) \/ CreateAuthToken(c) \/ Send(c)
    PROVE  TypeOK'
<1>1. CASE FindExisting(c)
  <2>1. TablesOK'
        BY <1>1 DEF FindExisting, TypeOK, TablesOK
  <2>2. call[c].step = "over"
        BY <1>1 DEF FindExisting, At
  <2>3. [call[c] EXCEPT !.step = "update"] \in Requests
        BY <2>2, NextStatement
  <2> QED
      BY <1>1, <2>1, <2>3, EndTypes, TypeOfGo DEF FindExisting, Step
<1>2. CASE UpdateUnverifiedUser(c)
  <2>1. call[c].email \in Emails /\ call[c].password \in Passwords /\ user[call[c].email] # None
        BY <1>2, RequestTypes DEF UpdateUnverifiedUser, At, AccountsExist, NeedsAccount
  <2>2. [step |-> "token", email |-> call[c].email, purpose |-> "email_verification"] \in Requests
        BY <2>1 DEF Requests, Purposes
  <2>3. user' = user \/ user' = [user EXCEPT ![call[c].email].password = call[c].password]
        BY <1>2 DEF UpdateUnverifiedUser
  <2>4. user' \in [Emails -> [password : Passwords \cup {None}, verified : BOOLEAN] \cup {None}]
        BY <2>1, <2>3 DEF TypeOK
  <2>5. TablesOK'
        BY <1>2, <2>4 DEF UpdateUnverifiedUser, TypeOK, TablesOK
  <2> QED
      BY <1>2, <2>2, <2>5, EndTypes, TypeOfGo DEF UpdateUnverifiedUser
<1>3. CASE CreateAuthToken(c)
  <2>1. CASE End(c) /\ UNCHANGED link
    <3>1. TablesOK'
          BY <1>3, <2>1 DEF CreateAuthToken, TypeOK, TablesOK
    <3> QED
        BY <2>1, <3>1, EndTypes
  <2>2. ASSUME NEW k \in FreeLinks(call[c].email, call[c].purpose),
               link' = [link EXCEPT ![k] = "live"], Go(c, [step |-> "mail", link |-> k])
        PROVE  TypeOK'
    <3>1. k \in Links
          BY DEF FreeLinks
    <3>2. [step |-> "mail", link |-> k] \in Requests
          BY <3>1 DEF Requests
    <3>3. TablesOK'
          BY <1>3, <2>2, <3>1 DEF CreateAuthToken, TypeOK, TablesOK
    <3> QED
        BY <2>2, <3>2, <3>3, TypeOfGo
  <2> QED
      BY <1>3, <2>1, <2>2 DEF CreateAuthToken
<1>4. CASE Send(c)
  <2>1. call[c].link \in Links
        BY <1>4, RequestTypes DEF Send, At
  <2>2. TablesOK'
        BY <1>4, <2>1 DEF Send, TypeOK, TablesOK
  <2> QED
      BY <1>4, <2>2, EndTypes DEF Send
<1> QED
    BY <1>1, <1>2, <1>3, <1>4

\* The requests that open a link or ask for one.
LEMMA LinkTypes ==
    ASSUME TypeOK, NEW c \in Calls
    PROVE  /\ \A k \in Links : VerifyEmail(c, k) => TypeOK'
           /\ \A k \in Links, p \in Passwords : ResetPassword(c, k, p) => TypeOK'
           /\ \A e \in Emails : RequestPasswordReset(c, e) => TypeOK'
<1>1. ASSUME NEW k \in Links, VerifyEmail(c, k)
      PROVE  TypeOK'
  <2>1. [step |-> "mark", email |-> k.email, link |-> k] \in Requests
        BY DEF Requests, Links
  <2>2. TablesOK'
        BY <1>1 DEF VerifyEmail, ConsumeAuthToken, TypeOK, TablesOK
  <2> QED
      BY <1>1, <2>1, <2>2, TypeOfGo DEF VerifyEmail
<1>2. ASSUME NEW k \in Links, NEW p \in Passwords, ResetPassword(c, k, p)
      PROVE  TypeOK'
  <2>1. [step |-> "password", email |-> k.email, link |-> k, password |-> p] \in Requests
        BY DEF Requests, Links
  <2>2. TablesOK'
        BY <1>2 DEF ResetPassword, ConsumeAuthToken, TypeOK, TablesOK
  <2> QED
      BY <1>2, <2>1, <2>2, TypeOfGo DEF ResetPassword
<1>3. ASSUME NEW e \in Emails, RequestPasswordReset(c, e)
      PROVE  TypeOK'
  <2>1. [step |-> "token", email |-> e, purpose |-> "password_reset"] \in Requests
        BY DEF Requests, Purposes
  <2>2. TablesOK'
        BY <1>3 DEF RequestPasswordReset, TypeOK, TablesOK
  <2> QED
      BY <1>3, <2>1, <2>2, TypeOfGo DEF RequestPasswordReset
<1> QED
    BY <1>1, <1>2, <1>3

\* The statements that use a link up, and those of sessions.
LEMMA SessionTypes ==
    ASSUME TypeOK, AccountsExist, NEW c \in Calls,
           MarkEmailVerified(c) \/ SetPasswordHash(c) \/ DeleteSessionsForUser(c) \/ CreateSession(c)
    PROVE  TypeOK'
<1>1. CASE MarkEmailVerified(c)
  <2>1. call[c].email \in Emails /\ user[call[c].email] # None
        BY <1>1, RequestTypes DEF MarkEmailVerified, At, AccountsExist, NeedsAccount
  <2>2. TablesOK'
        BY <1>1, <2>1 DEF MarkEmailVerified, TypeOK, TablesOK
  <2> QED
      BY <1>1, <2>2, EndTypes DEF MarkEmailVerified
<1>2. CASE SetPasswordHash(c)
  <2>1. /\ call[c].email \in Emails /\ user[call[c].email] # None
        /\ call[c].password \in Passwords
        BY <1>2, RequestTypes DEF SetPasswordHash, At, AccountsExist, NeedsAccount
  <2>2. TablesOK'
        BY <1>2, <2>1 DEF SetPasswordHash, TypeOK, TablesOK
  <2>3. [step |-> "signout", email |-> call[c].email] \in Requests
        BY <2>1 DEF Requests
  <2> QED
      BY <1>2, <2>2, <2>3, TypeOfGo DEF SetPasswordHash
<1>3. CASE DeleteSessionsForUser(c) \/ CreateSession(c)
  <2>1. call[c].email \in Emails
        BY <1>3, RequestTypes DEF DeleteSessionsForUser, CreateSession, At
  <2>2. TablesOK' /\ End(c)
        BY <1>3, <2>1 DEF DeleteSessionsForUser, CreateSession, TypeOK, TablesOK
  <2> QED
      BY <2>2, EndTypes
<1> QED
    BY <1>1, <1>2, <1>3

\* The requests that log in.
LEMMA LoginTypes ==
    ASSUME TypeOK, AccountsExist, NEW c \in Calls
    PROVE  /\ \A e \in Emails, p \in Passwords : Login(c, e, p) => TypeOK'
           /\ \A i \in Identities, to \in Emails \cup {None} : CompleteLogin(c, i, to) => TypeOK'
<1>1. ASSUME NEW e \in Emails, NEW p \in Passwords, Login(c, e, p)
      PROVE  TypeOK'
  <2>1. [step |-> "session", email |-> e] \in Requests
        BY DEF Requests
  <2>2. TablesOK'
        BY <1>1 DEF Login, TypeOK, TablesOK
  <2> QED
      BY <1>1, <2>1, <2>2, TypeOfGo DEF Login
<1>2. ASSUME NEW i \in Identities, NEW to \in Emails \cup {None}, CompleteLogin(c, i, to)
      PROVE  TypeOK'
  <2>1. TablesOK'
        BY <1>2 DEF CompleteLogin, TypeOK, TablesOK
  <2>2. CASE linked[i] # None
    <3>1. linked[i] \in Emails
          BY <2>2 DEF TypeOK
    <3>2. [step |-> "session", email |-> linked[i]] \in Requests
          BY <3>1 DEF Requests
    <3> QED
        BY <1>2, <2>1, <2>2, <3>2, TypeOfGo DEF CompleteLogin
  <2>3. CASE linked[i] = None /\ to # None
    <3>1. [step |-> "link", identity |-> i, email |-> to] \in Requests
          BY <2>3 DEF Requests
    <3> QED
        BY <1>2, <2>1, <2>3, <3>1, TypeOfGo DEF CompleteLogin
  <2>4. CASE linked[i] = None /\ to = None
    <3>1. [step |-> "match", identity |-> i, email |-> EmailOf[i]] \in Requests
          BY EmailOfIsTotal DEF Requests
    <3> QED
        BY <1>2, <2>1, <2>4, <3>1, TypeOfGo DEF CompleteLogin
  <2> QED
      BY <2>2, <2>3, <2>4
<1> QED
    BY <1>1, <1>2

\* The statements of matchOrCreateUser.
LEMMA ProviderTypes ==
    ASSUME TypeOK, AccountsExist, NEW c \in Calls,
           MatchUser(c) \/ WipePassword(c) \/ MarkVouched(c) \/ CreateProviderUser(c)
               \/ CreateOAuthIdentity(c)
    PROVE  TypeOK'
<1> DEFINE e == call[c].email
           i == call[c].identity
<1>1. /\ call[c].step \in {"match", "wipe", "vouch", "create", "link"}
      /\ e \in Emails /\ i \in Identities
      /\ call[c].step \in {"wipe", "vouch"} => user[e] # None
      BY RequestTypes
      DEF MatchUser, WipePassword, MarkVouched, CreateProviderUser, CreateOAuthIdentity, At,
          AccountsExist, NeedsAccount
<1>2. CASE MatchUser(c)
  <2>1. TablesOK'
        BY <1>2 DEF MatchUser, TypeOK, TablesOK
  <2>2. \A s \in {"create", "link", "wipe"} : [call[c] EXCEPT !.step = s] \in Requests
        BY <1>1, <1>2, NextStatement DEF MatchUser, At
  <2>3. End(c) \/ \E s \in {"create", "link", "wipe"} : Step(c, s)
        BY <1>2 DEF MatchUser
  <2> QED
      BY <2>1, <2>2, <2>3, EndTypes, TypeOfGo DEF Step
<1>3. CASE WipePassword(c)
  <2>1. user' = [user EXCEPT ![e].password = None]
        BY <1>3 DEF WipePassword
  <2>2. user' \in [Emails -> [password : Passwords \cup {None}, verified : BOOLEAN] \cup {None}]
        BY <1>1, <1>3, <2>1 DEF WipePassword, At, TypeOK
  <2>3. TablesOK'
        BY <1>3, <2>2 DEF WipePassword, TypeOK, TablesOK
  <2>4. [call[c] EXCEPT !.step = "vouch"] \in Requests
        BY <1>1, <1>3, NextStatement DEF WipePassword, At
  <2> QED
      BY <1>3, <2>3, <2>4, TypeOfGo DEF WipePassword, Step
<1>4. CASE MarkVouched(c)
  <2>1. TablesOK'
        BY <1>1, <1>4 DEF MarkVouched, At, TypeOK, TablesOK
  <2>2. [call[c] EXCEPT !.step = "link"] \in Requests
        BY <1>1, <1>4, NextStatement DEF MarkVouched, At
  <2> QED
      BY <1>4, <2>1, <2>2, TypeOfGo DEF MarkVouched, Step
<1>5. CASE CreateProviderUser(c)
  <2>1. user' = user \/ user' = [user EXCEPT ![e] = [password |-> None, verified |-> i \in Vouched]]
        BY <1>5 DEF CreateProviderUser, CreateUser, Account
  <2>2. user' \in [Emails -> [password : Passwords \cup {None}, verified : BOOLEAN] \cup {None}]
    <3>1. [password |-> None, verified |-> i \in Vouched] \in
              [password : Passwords \cup {None}, verified : BOOLEAN]
      <4>1. (i \in Vouched) \in BOOLEAN
            OBVIOUS
      <4>2. \A v \in BOOLEAN : [password |-> None, verified |-> v] \in
                [password : Passwords \cup {None}, verified : BOOLEAN]
            OBVIOUS
      <4> QED
          BY <4>1, <4>2, Zenon
    <3> QED
        BY <2>1, <3>1 DEF TypeOK
  <2>3. TablesOK'
        BY <1>5, <2>2 DEF CreateProviderUser, TypeOK, TablesOK
  <2>4. [call[c] EXCEPT !.step = "link"] \in Requests
        BY <1>1, <1>5, NextStatement DEF CreateProviderUser, At
  <2> QED
      BY <1>5, <2>3, <2>4, EndTypes, TypeOfGo DEF CreateProviderUser, Step
<1>6. CASE CreateOAuthIdentity(c)
  <2>1. TablesOK'
        BY <1>1, <1>6 DEF CreateOAuthIdentity, TypeOK, TablesOK
  <2>2. [step |-> "session", email |-> e] \in Requests
        BY <1>1 DEF Requests
  <2> QED
      BY <1>6, <2>1, <2>2, EndTypes, TypeOfGo DEF CreateOAuthIdentity
<1> QED
    BY <1>2, <1>3, <1>4, <1>5, <1>6

\* Every step keeps the types.
LEMMA TypeStep == TypeOK /\ AccountsExist /\ [Next]_vars => TypeOK'
<1> SUFFICES ASSUME TypeOK, AccountsExist, [Next]_vars
             PROVE  TypeOK'
    OBVIOUS
<1>1. ASSUME NEW c \in Calls, Proceed(c)
      PROVE  TypeOK'
      BY <1>1, RegistrationTypes, SessionTypes, ProviderTypes DEF Proceed
<1>2. ASSUME NEW c \in Calls, Stop(c)
      PROVE  TypeOK'
  <2>1. TablesOK' /\ End(c)
        BY <1>2, BoundsAreNat DEF Stop, TypeOK, TablesOK
  <2> QED
      BY <2>1, EndTypes
<1>3. ASSUME NEW c \in Calls, NEW e \in Typists,
             \/ RequestPasswordReset(c, e)
             \/ \E p \in Passwords : Register(c, e, p) \/ Login(c, e, p)
      PROVE  TypeOK'
  <2>1. e \in Emails
        BY VouchedAreIdentities
  <2> QED
      BY <1>3, <2>1, LinkTypes, RegisterTypes, LoginTypes
<1>4. ASSUME NEW c \in Calls, NEW k \in Links,
             VerifyEmail(c, k) \/ \E p \in Passwords : ResetPassword(c, k, p)
      PROVE  TypeOK'
      BY <1>4, LinkTypes
<1>5. ASSUME NEW c \in Calls, NEW i \in Identities, NEW to \in Emails \cup {None},
             CompleteLogin(c, i, to)
      PROVE  TypeOK'
      BY <1>5, LoginTypes
<1>6. ASSUME NEW k \in Links, Expire(k)
      PROVE  TypeOK'
      BY <1>6, BoundsAreNat DEF Expire, TypeOK
<1>7. ASSUME NEW e \in Emails, EndSession(e)
      PROVE  TypeOK'
      BY <1>7 DEF EndSession, TypeOK
<1>8. CASE UNCHANGED vars
      BY <1>8 DEF vars, TypeOK
<1> QED
    BY <1>1, <1>2, <1>3, <1>4, <1>5, <1>6, <1>7, <1>8 DEF Next

-----------------------------------------------------------------------------
(* What is never taken back *)

\* Accounts stay, verified ones stay verified, and identities where they are.
Progress ==
    /\ \A e \in Emails : user[e] # None =>
          user'[e] # None /\ (user[e].verified => user'[e].verified)
    /\ \A i \in Identities : linked[i] # None => linked'[i] = linked[i]

\* The password of a verified account changes by a reset or a wipe of it only.
PasswordsKept ==
    \A e \in Emails : user[e] # None /\ user[e].verified /\ user'[e].password # user[e].password =>
        \E c \in Calls : call[c].step \in {"password", "wipe"} /\ call[c].email = e

\* Each statement that writes an account.
LEMMA UserStep ==
    ASSUME TypeOK, AccountsExist, [Next]_vars, NEW e \in Emails, user[e] # None
    PROVE  /\ user'[e] # None /\ (user[e].verified => user'[e].verified)
           /\ user[e].verified /\ user'[e].password # user[e].password =>
                 \E c \in Calls : call[c].step \in {"password", "wipe"} /\ call[c].email = e
<1> DEFINE Goal == /\ user'[e] # None /\ (user[e].verified => user'[e].verified)
                   /\ user[e].verified /\ user'[e].password # user[e].password =>
                         \E c \in Calls : call[c].step \in {"password", "wipe"} /\ call[c].email = e
<1> SUFFICES Goal
    OBVIOUS
<1> HIDE DEF Goal
<1>1. user[e] \in [password : Passwords \cup {None}, verified : BOOLEAN] /\ user' \in
          [Emails -> [password : Passwords \cup {None}, verified : BOOLEAN] \cup {None}]
      BY TypeStep DEF TypeOK
<1>2. ASSUME user' = user
      PROVE  Goal
      BY <1>2 DEF Goal
<1>3. ASSUME NEW c \in Calls, NEW f \in Emails, NEW p \in Passwords, Register(c, f, p)
      PROVE  Goal
      BY <1>1, <1>3 DEF Goal, Register, CreateUser, Account, TypeOK
<1>4. ASSUME NEW c \in Calls,
             \/ UpdateUnverifiedUser(c) \/ MarkEmailVerified(c) \/ SetPasswordHash(c)
             \/ WipePassword(c) \/ MarkVouched(c)
      PROVE  Goal
  <2>1. call[c].email \in Emails /\ user[call[c].email] # None
        BY <1>4, RequestTypes
        DEF UpdateUnverifiedUser, MarkEmailVerified, SetPasswordHash, WipePassword, MarkVouched,
            At, AccountsExist, NeedsAccount
  <2>2. user[call[c].email] \in [password : Passwords \cup {None}, verified : BOOLEAN]
        BY <2>1 DEF TypeOK
  <2>3. CASE call[c].email # e
        BY <1>4, <2>3
        DEF Goal, UpdateUnverifiedUser, MarkEmailVerified, SetPasswordHash, WipePassword, MarkVouched,
            TypeOK
  <2>4. CASE call[c].email = e
    <3>1. CASE UpdateUnverifiedUser(c)
      <4>1. CASE user[e].verified
            BY <1>2, <2>4, <3>1, <4>1 DEF UpdateUnverifiedUser
      <4>2. CASE ~user[e].verified
        <5>1. user'[e] = [user[e] EXCEPT !.password = call[c].password]
              BY <2>4, <3>1, <4>2 DEF UpdateUnverifiedUser, TypeOK
        <5>2. user'[e] # None
              BY <1>1, <2>4, <3>1, <5>1, RequestTypes, NoneIsNew DEF UpdateUnverifiedUser, At
        <5> QED
            BY <4>2, <5>2 DEF Goal
      <4> QED
          BY <4>1, <4>2
    <3>2. CASE MarkEmailVerified(c) \/ MarkVouched(c)
      <4>1. user'[e] = [user[e] EXCEPT !.verified = TRUE]
            BY <2>4, <3>2 DEF MarkEmailVerified, MarkVouched, TypeOK
      <4>2. user'[e] # None /\ user'[e].verified = TRUE /\ user'[e].password = user[e].password
            BY <1>1, <4>1, NoneIsNew
      <4> QED
          BY <4>2 DEF Goal
    <3>3. CASE SetPasswordHash(c) \/ WipePassword(c)
      <4>1. \E p \in Passwords \cup {None} : user' = [user EXCEPT ![e].password = p]
            BY <2>4, <3>3, RequestTypes DEF SetPasswordHash, WipePassword, At
      <4>2. user'[e] # None /\ user'[e].verified = user[e].verified
            BY <1>1, <4>1, NoneIsNew DEF TypeOK
      <4> QED
          BY <2>4, <3>3, <4>2 DEF Goal, SetPasswordHash, WipePassword, At
    <3> QED
        BY <1>4, <3>1, <3>2, <3>3
  <2> QED
      BY <2>3, <2>4
<1>5. ASSUME NEW c \in Calls, CreateProviderUser(c)
      PROVE  Goal
      BY <1>1, <1>5 DEF Goal, CreateProviderUser, CreateUser, TypeOK
<1>6. ASSUME NEW c \in Calls,
             \/ FindExisting(c) \/ CreateAuthToken(c) \/ Send(c) \/ DeleteSessionsForUser(c)
             \/ CreateSession(c) \/ MatchUser(c) \/ CreateOAuthIdentity(c) \/ Stop(c)
      PROVE  Goal
      BY <1>2, <1>6 DEF FindExisting, CreateAuthToken, Send, DeleteSessionsForUser, CreateSession,
                        MatchUser, CreateOAuthIdentity, Stop
<1>7. ASSUME NEW c \in Calls, NEW f \in Typists
      PROVE  /\ RequestPasswordReset(c, f) => Goal
             /\ \A p \in Passwords : Register(c, f, p) \/ Login(c, f, p) => Goal
      BY <1>2, <1>3, VouchedAreIdentities DEF RequestPasswordReset, Login
<1>8. ASSUME NEW c \in Calls, NEW k \in Links
      PROVE  /\ VerifyEmail(c, k) => Goal
             /\ \A p \in Passwords : ResetPassword(c, k, p) => Goal
      BY <1>2 DEF VerifyEmail, ResetPassword
<1>9. ASSUME NEW c \in Calls, NEW i \in Identities, NEW to \in Emails \cup {None},
             CompleteLogin(c, i, to)
      PROVE  Goal
      BY <1>2, <1>9 DEF CompleteLogin
<1>10. CASE (\E k \in Links : Expire(k)) \/ (\E f \in Emails : EndSession(f)) \/ UNCHANGED vars
       BY <1>2, <1>10 DEF Expire, EndSession, vars
<1> QED
    BY <1>4, <1>5, <1>6, <1>7, <1>8, <1>9, <1>10 DEF Next, Proceed

\* The one statement that writes an identity is refused if it is linked.
LEMMA LinkedStep ==
    ASSUME TypeOK, [Next]_vars, NEW i \in Identities, linked[i] # None
    PROVE  linked'[i] = linked[i]
<1>1. CASE linked' = linked
      BY <1>1
<1>2. ASSUME NEW c \in Calls, CreateOAuthIdentity(c)
      PROVE  linked'[i] = linked[i]
      BY <1>2 DEF CreateOAuthIdentity, TypeOK
<1>3. ASSUME NEW c \in Calls, Proceed(c) \/ Stop(c), ~CreateOAuthIdentity(c)
      PROVE  linked' = linked
      BY <1>3
      DEF Proceed, FindExisting, UpdateUnverifiedUser, CreateAuthToken, Send, MarkEmailVerified,
          SetPasswordHash, DeleteSessionsForUser, CreateSession, MatchUser, WipePassword,
          MarkVouched, CreateProviderUser, Stop
<1>4. ASSUME NEW c \in Calls
      PROVE  /\ \A e \in Typists : RequestPasswordReset(c, e) => linked' = linked
             /\ \A e \in Typists, p \in Passwords :
                   Register(c, e, p) \/ Login(c, e, p) => linked' = linked
             /\ \A k \in Links : VerifyEmail(c, k) => linked' = linked
             /\ \A k \in Links, p \in Passwords : ResetPassword(c, k, p) => linked' = linked
             /\ \A j \in Identities, to \in Emails \cup {None} :
                   CompleteLogin(c, j, to) => linked' = linked
      BY DEF RequestPasswordReset, Register, Login, VerifyEmail, ResetPassword, CompleteLogin
<1>5. CASE (\E k \in Links : Expire(k)) \/ (\E f \in Emails : EndSession(f)) \/ UNCHANGED vars
      BY <1>1, <1>5 DEF Expire, EndSession, vars
<1> QED
    BY <1>1, <1>2, <1>3, <1>4, <1>5 DEF Next

\* Together.
LEMMA ProgressStep ==
    ASSUME TypeOK, AccountsExist, [Next]_vars
    PROVE  Progress /\ PasswordsKept
BY UserStep, LinkedStep DEF Progress, PasswordsKept

\* What is earned stays earned.
LEMMA EarnedStays ==
    ASSUME TypeOK, Progress, NEW e \in Emails, Earned(e)
    PROVE  EarnedNext(e)
BY NoneIsNew DEF Earned, EarnedNext, Progress

-----------------------------------------------------------------------------
(* The invariant, step by step *)

\* What a step may do to the requests: one moves on, to a statement that no
\* link belongs to, and with what that statement needs.
LEMMA CallStep ==
    ASSUME AccountInvariant, TypeOK', Progress, link' = link,
           NEW c \in Calls, NEW next \in Requests, Go(c, next),
           next.step \notin {"mail", "mark", "password"},
           next.step \in NeedsAccount => next.email \in Emails /\ user'[next.email] # None,
           next.step = "session" => EarnedNext(next.email),
           \A i \in Identities : linked'[i] # None => user'[linked'[i]] # None,
           \A e \in sessions' \ sessions : EarnedNext(e)
    PROVE  AccountInvariant'
<1> USE DEF AccountInvariant
<1>1. /\ call'[c] = next
      /\ \A d \in Calls \ {c} : call'[d] = call[d]
      BY GoTypes
<1>2. AccountsExist'
  <2>1. \A k \in Links : link'[k] # "none" => user'[k.email] # None
        BY DEF AccountsExist, Progress, Links
  <2>2. ASSUME NEW d \in Calls, call'[d].step \in NeedsAccount
        PROVE  user'[call'[d].email] # None
    <3>1. CASE d = c
          BY <1>1, <2>2, <3>1
    <3>2. CASE d # c
      <4>1. call[d].email \in Emails /\ user[call[d].email] # None
            BY <1>1, <2>2, <3>2, RequestTypes DEF AccountsExist, NeedsAccount
      <4> QED
          BY <1>1, <3>2, <4>1 DEF Progress
    <3> QED
        BY <3>1, <3>2
  <2> QED
      BY <2>1, <2>2 DEF AccountsExist
<1>3. LinksAreHeld'
      BY <1>1 DEF LinksAreHeld, HasLink
<1>4. LoginsAreEarned'
  <2>1. ASSUME NEW d \in Calls, call'[d].step = "session"
        PROVE  EarnedNext(call'[d].email)
    <3>1. CASE d = c
          BY <1>1, <2>1, <3>1
    <3>2. CASE d # c
      <4>1. call[d].email \in Emails /\ Earned(call[d].email)
            BY <1>1, <2>1, <3>2, RequestTypes DEF LoginsAreEarned
      <4>2. EarnedNext(call[d].email)
            BY <4>1, EarnedStays
      <4> QED
          BY <1>1, <3>2, <4>2
    <3> QED
        BY <3>1, <3>2
  <2> QED
      BY <2>1 DEF LoginsAreEarned, Earned, EarnedNext
<1>5. SessionsAreEarned'
  <2>1. ASSUME NEW e \in sessions'
        PROVE  EarnedNext(e)
    <3>1. CASE e \in sessions
          BY <3>1, EarnedStays DEF SessionsAreEarned, Earned, TypeOK
    <3>2. CASE e \notin sessions
          BY <3>2
    <3> QED
        BY <3>1, <3>2
  <2> QED
      BY <2>1 DEF SessionsAreEarned, EarnedNext
<1> QED
    BY <1>2, <1>3, <1>4, <1>5

\* A request that ends, wherever it is.
LEMMA EndStep ==
    ASSUME AccountInvariant, TypeOK', Progress, link' = link, NEW c \in Calls, End(c),
           \A i \in Identities : linked'[i] # None => user'[linked'[i]] # None,
           \A e \in sessions' \ sessions : EarnedNext(e)
    PROVE  AccountInvariant'
<1>1. Idle \in Requests /\ Idle.step \notin {"mail", "mark", "password", "session"} \cup NeedsAccount
      BY DEF Requests, Idle, NeedsAccount
<1>2. Go(c, Idle)
      BY DEF End
<1> QED
    BY <1>1, <1>2, CallStep

\* Accounts that are linked exist, and stay.
LEMMA LinkedExist ==
    ASSUME TypeOK, AccountsExist, Progress, linked' = linked
    PROVE  \A i \in Identities : linked'[i] # None => user'[linked'[i]] # None
BY DEF TypeOK, AccountsExist, Progress

\* The statements of a registration, up to its link.
LEMMA RegistrationStep ==
    ASSUME AccountInvariant, [Next]_vars, NEW c \in Calls,
           \/ FindExisting(c) \/ UpdateUnverifiedUser(c)
           \/ \E e \in Emails, p \in Passwords : Register(c, e, p)
           \/ \E e \in Emails : RequestPasswordReset(c, e)
    PROVE  AccountInvariant'
<1>1. TypeOK' /\ Progress
      BY TypeStep, ProgressStep DEF AccountInvariant
<1>2. UNCHANGED <<linked, link, sessions>>
      BY DEF FindExisting, UpdateUnverifiedUser, Register, RequestPasswordReset
<1>3. \A i \in Identities : linked'[i] # None => user'[linked'[i]] # None
      BY <1>1, <1>2, LinkedExist DEF AccountInvariant
<1>4. CASE End(c)
      BY <1>1, <1>2, <1>3, <1>4, EndStep
<1>5. ASSUME NEW e \in Emails, NEW purpose \in Purposes, user'[e] # None,
             Go(c, [step |-> "token", email |-> e, purpose |-> purpose])
      PROVE  AccountInvariant'
  <2> DEFINE next == [step |-> "token", email |-> e, purpose |-> purpose]
  <2>1. next \in Requests /\ next.step = "token" /\ next.email = e
        BY DEF Requests
  <2> HIDE DEF next
  <2>2. Go(c, next)
        BY <1>5 DEF next
  <2> QED
      BY <1>1, <1>2, <1>3, <1>5, <2>1, <2>2, CallStep
<1>6. ASSUME NEW next \in Requests, next.step \in {"over", "update"},
             user'[next.email] # None, next.email \in Emails, Go(c, next)
      PROVE  AccountInvariant'
      BY <1>1, <1>2, <1>3, <1>6, CallStep
<1>7. CASE FindExisting(c)
  <2>1. call[c].step = "over" /\ call[c].email \in Emails /\ user[call[c].email] # None
        BY <1>7, RequestTypes
        DEF FindExisting, At, AccountInvariant, AccountsExist, NeedsAccount
  <2>2. [call[c] EXCEPT !.step = "update"] \in Requests
        BY <2>1, NextStatement DEF AccountInvariant
  <2>3. /\ [call[c] EXCEPT !.step = "update"].step = "update"
        /\ [call[c] EXCEPT !.step = "update"].email = call[c].email
        BY <2>1 DEF AccountInvariant, TypeOK, Requests, Idle
  <2>4. user'[call[c].email] # None
        BY <1>1, <2>1 DEF Progress
  <2> QED
      BY <1>4, <1>6, <1>7, <2>2, <2>3, <2>1, <2>4 DEF FindExisting, Step
<1>8. CASE UpdateUnverifiedUser(c)
  <2>1. call[c].email \in Emails /\ user'[call[c].email] # None
        BY <1>1, <1>8, RequestTypes
        DEF UpdateUnverifiedUser, At, AccountInvariant, AccountsExist, NeedsAccount, Progress
  <2> QED
      BY <1>4, <1>5, <1>8, <2>1 DEF UpdateUnverifiedUser, Purposes
<1>9. ASSUME NEW e \in Emails, NEW p \in Passwords, Register(c, e, p)
      PROVE  AccountInvariant'
  <2>1. CASE user[e] = None
    <3>1. user'[e] # None
      <4>1. user'[e] = [password |-> p, verified |-> FALSE]
            BY <1>9, <2>1 DEF Register, CreateUser, Account, AccountInvariant, TypeOK
      <4>2. user'[e] \in [password : Passwords \cup {None}, verified : BOOLEAN]
            BY <4>1
      <4> QED
          BY <4>2, NoneIsNew
    <3> QED
        BY <1>5, <1>9, <2>1, <3>1 DEF Register, Purposes
  <2>2. CASE user[e] # None
    <3>1. [step |-> "over", email |-> e, password |-> p] \in Requests
          BY DEF Requests
    <3>2. user'[e] # None
          BY <1>1, <2>2 DEF Progress
    <3> QED
        BY <1>6, <1>9, <2>2, <3>1, <3>2 DEF Register
  <2> QED
      BY <2>1, <2>2
<1>10. ASSUME NEW e \in Emails, RequestPasswordReset(c, e)
       PROVE  AccountInvariant'
  <2>1. user'[e] # None
        BY <1>1, <1>10 DEF RequestPasswordReset, Progress
  <2> QED
      BY <1>5, <1>10, <2>1 DEF RequestPasswordReset, Purposes
<1> QED
    BY <1>7, <1>8, <1>9, <1>10

\* A new link belongs to the request that wrote it, and nobody else had it.
LEMMA CreateLinkStep ==
    ASSUME AccountInvariant, [Next]_vars, NEW c \in Calls, CreateAuthToken(c)
    PROVE  AccountInvariant'
<1>1. TypeOK' /\ Progress
      BY TypeStep, ProgressStep DEF AccountInvariant
<1>2. UNCHANGED <<user, linked, sessions>>
      BY DEF CreateAuthToken
<1>3. call[c].step = "token" /\ call[c].email \in Emails /\ user[call[c].email] # None
      BY RequestTypes DEF CreateAuthToken, At, AccountInvariant, AccountsExist, NeedsAccount
<1>4. CASE End(c) /\ UNCHANGED link
      BY <1>1, <1>2, <1>4, EndStep, LinkedExist DEF AccountInvariant
<1>5. ASSUME NEW k \in FreeLinks(call[c].email, call[c].purpose),
             link' = [link EXCEPT ![k] = "live"], Go(c, [step |-> "mail", link |-> k])
      PROVE  AccountInvariant'
  <2>1. k \in Links /\ k.email = call[c].email /\ \A d \in Calls : ~(HasLink(d) /\ call[d].link = k)
        BY <1>5 DEF FreeLinks, Held, Spending, HasLink, At
  <2>2. [step |-> "mail", link |-> k] \in Requests
        BY <2>1 DEF Requests
  <2>3. /\ call'[c] = [step |-> "mail", link |-> k]
        /\ \A d \in Calls \ {c} : call'[d] = call[d]
        BY <1>5, <2>2, GoTypes DEF AccountInvariant
  <2>4. /\ link'[k] = "live"
        /\ \A l \in Links \ {k} : link'[l] = link[l]
        BY <1>5, <2>1 DEF AccountInvariant, TypeOK
  <2>5. AccountsExist'
        BY <1>2, <1>3, <2>1, <2>3, <2>4 DEF AccountInvariant, AccountsExist, NeedsAccount
  <2>6. LinksAreHeld'
    <3>1. \A d \in Calls \ {c} : HasLink(d) => call[d].link \in Links \ {k}
          BY <2>1, RequestTypes DEF AccountInvariant, HasLink
    <3> QED
        BY <2>1, <2>3, <2>4, <3>1 DEF AccountInvariant, LinksAreHeld, HasLink
  <2>7. LoginsAreEarned' /\ SessionsAreEarned'
        BY <1>2, <2>3 DEF AccountInvariant, LoginsAreEarned, SessionsAreEarned, Earned
  <2> QED
      BY <1>1, <2>5, <2>6, <2>7 DEF AccountInvariant
<1> QED
    BY <1>4, <1>5 DEF CreateAuthToken

\* The mail is sent: the link leaves the request.
LEMMA SendStep ==
    ASSUME AccountInvariant, [Next]_vars, NEW c \in Calls, Send(c)
    PROVE  AccountInvariant'
<1>1. TypeOK'
      BY TypeStep DEF AccountInvariant
<1>2. /\ call[c].step = "mail" /\ call[c].link \in Links
      /\ link[call[c].link] = "live"
      /\ UNCHANGED <<user, linked, sessions>>
      /\ link' = [link EXCEPT ![call[c].link] = "mailed"]
      BY RequestTypes DEF Send, At, AccountInvariant, LinksAreHeld
<1>3. /\ call'[c] = Idle
      /\ \A d \in Calls \ {c} : call'[d] = call[d]
      BY GoTypes DEF Send, End, AccountInvariant, Requests
<1>4. AccountsExist'
      BY <1>2, <1>3 DEF AccountInvariant, AccountsExist, NeedsAccount, Idle, TypeOK
<1>5. LinksAreHeld'
  <2>1. \A d \in Calls \ {c} : HasLink(d) => call[d].link \in Links \ {call[c].link}
        BY <1>2, RequestTypes DEF AccountInvariant, HasLink, LinksAreHeld
  <2>2. \A l \in Links \ {call[c].link} : link'[l] = link[l]
        BY <1>2 DEF AccountInvariant, TypeOK
  <2> QED
      BY <1>3, <2>1, <2>2 DEF AccountInvariant, LinksAreHeld, HasLink, Idle
<1>6. LoginsAreEarned' /\ SessionsAreEarned'
      BY <1>2, <1>3 DEF AccountInvariant, LoginsAreEarned, SessionsAreEarned, Earned, Idle
<1> QED
    BY <1>1, <1>4, <1>5, <1>6 DEF AccountInvariant

\* A link that works is nobody's, and whoever uses it up is the only one.
LEMMA ConsumeStep ==
    ASSUME AccountInvariant, [Next]_vars, NEW c \in Calls, NEW k \in Links,
           VerifyEmail(c, k) \/ \E p \in Passwords : ResetPassword(c, k, p)
    PROVE  AccountInvariant'
<1>1. TypeOK'
      BY TypeStep DEF AccountInvariant
<1>2. /\ link[k] = "mailed"
      /\ link' = [link EXCEPT ![k] = "none"]
      /\ UNCHANGED <<user, linked, sessions>>
      BY DEF VerifyEmail, ResetPassword, Usable, ConsumeAuthToken
<1>3. \E next \in Requests :
         /\ next.step \in {"mark", "password"} /\ next.link = k /\ next.email = k.email
         /\ Go(c, next)
  <2>1. CASE VerifyEmail(c, k)
    <3>1. [step |-> "mark", email |-> k.email, link |-> k] \in Requests
          BY DEF Requests, Links
    <3> QED
        BY <2>1, <3>1 DEF VerifyEmail
  <2>2. ASSUME NEW p \in Passwords, ResetPassword(c, k, p)
        PROVE  \E next \in Requests :
                  /\ next.step \in {"mark", "password"} /\ next.link = k /\ next.email = k.email
                  /\ Go(c, next)
    <3>1. [step |-> "password", email |-> k.email, link |-> k, password |-> p] \in Requests
          BY DEF Requests, Links
    <3> QED
        BY <2>2, <3>1 DEF ResetPassword
  <2> QED
      BY <2>1, <2>2
<1>4. /\ call'[c].step \in {"mark", "password"} /\ call'[c].link = k /\ call'[c].email = k.email
      /\ \A d \in Calls \ {c} : call'[d] = call[d]
      BY <1>3, GoTypes DEF AccountInvariant
<1>5. /\ link'[k] = "none"
      /\ \A l \in Links \ {k} : link'[l] = link[l]
      BY <1>2 DEF AccountInvariant, TypeOK
<1>6. user[k.email] # None
      BY <1>2 DEF AccountInvariant, AccountsExist
<1>7. AccountsExist'
      BY <1>2, <1>4, <1>5, <1>6 DEF AccountInvariant, AccountsExist, NeedsAccount
<1>8. LinksAreHeld'
  <2>1. \A d \in Calls \ {c} : HasLink(d) => call[d].link \in Links \ {k}
        BY <1>2, RequestTypes DEF AccountInvariant, HasLink, LinksAreHeld
  <2> QED
      BY <1>4, <1>5, <2>1 DEF AccountInvariant, LinksAreHeld, HasLink
<1>9. LoginsAreEarned' /\ SessionsAreEarned'
      BY <1>2, <1>4 DEF AccountInvariant, LoginsAreEarned, SessionsAreEarned, Earned
<1> QED
    BY <1>1, <1>7, <1>8, <1>9 DEF AccountInvariant

\* A link expires unless a request has just written it.
LEMMA ExpireStep ==
    ASSUME AccountInvariant, [Next]_vars, NEW k \in Links, Expire(k)
    PROVE  AccountInvariant'
<1>1. TypeOK'
      BY TypeStep DEF AccountInvariant
<1>2. /\ link' = [link EXCEPT ![k] = "none"] /\ UNCHANGED <<user, linked, sessions, call>>
      /\ \A c \in Calls : call[c].step = "mail" => call[c].link # k
      BY DEF Expire, Held, At
<1>3. /\ link'[k] = "none"
      /\ \A l \in Links \ {k} : link'[l] = link[l]
      BY <1>2 DEF AccountInvariant, TypeOK
<1>4. AccountsExist'
      BY <1>2, <1>3 DEF AccountInvariant, AccountsExist
<1>5. LinksAreHeld'
  <2>1. \A c \in Calls : HasLink(c) => call[c].link \in Links
        BY RequestTypes DEF AccountInvariant, HasLink
  <2> QED
      BY <1>2, <1>3, <2>1 DEF AccountInvariant, LinksAreHeld, HasLink
<1>6. LoginsAreEarned' /\ SessionsAreEarned'
      BY <1>2 DEF AccountInvariant, LoginsAreEarned, SessionsAreEarned, Earned
<1> QED
    BY <1>1, <1>4, <1>5, <1>6 DEF AccountInvariant

\* The statements that use up a link, and those of sessions.
LEMMA AccountStep ==
    ASSUME AccountInvariant, [Next]_vars, NEW c \in Calls,
           MarkEmailVerified(c) \/ SetPasswordHash(c) \/ DeleteSessionsForUser(c) \/ CreateSession(c)
               \/ Stop(c)
    PROVE  AccountInvariant'
<1>1. TypeOK' /\ Progress
      BY TypeStep, ProgressStep DEF AccountInvariant
<1>2. UNCHANGED <<linked, link>>
      BY DEF MarkEmailVerified, SetPasswordHash, DeleteSessionsForUser, CreateSession, Stop
<1>3. \A i \in Identities : linked'[i] # None => user'[linked'[i]] # None
      BY <1>1, <1>2, LinkedExist DEF AccountInvariant
<1>4. CASE MarkEmailVerified(c) \/ DeleteSessionsForUser(c) \/ Stop(c)
      BY <1>1, <1>2, <1>3, <1>4, EndStep DEF MarkEmailVerified, DeleteSessionsForUser, Stop
<1>5. CASE SetPasswordHash(c)
  <2> DEFINE next == [step |-> "signout", email |-> call[c].email]
  <2>1. call[c].email \in Emails /\ user'[call[c].email] # None
        BY <1>1, <1>5, RequestTypes
        DEF SetPasswordHash, At, AccountInvariant, AccountsExist, NeedsAccount, Progress
  <2>2. next \in Requests /\ next.step = "signout" /\ next.email = call[c].email
        BY <2>1 DEF Requests
  <2>3. Go(c, next) /\ sessions' = sessions
        BY <1>5 DEF SetPasswordHash
  <2> HIDE DEF next
  <2> QED
      BY <1>1, <1>2, <1>3, <2>1, <2>2, <2>3, CallStep
<1>6. CASE CreateSession(c)
  <2>1. call[c].email \in Emails /\ Earned(call[c].email)
        BY <1>6, RequestTypes DEF CreateSession, At, AccountInvariant, LoginsAreEarned
  <2>2. EarnedNext(call[c].email)
        BY <1>1, <2>1, EarnedStays DEF AccountInvariant
  <2> QED
      BY <1>1, <1>2, <1>3, <1>6, <2>2, EndStep DEF CreateSession
<1> QED
    BY <1>4, <1>5, <1>6

\* A login: what the request knows is what it has earned.
LEMMA LoginStep ==
    ASSUME AccountInvariant, [Next]_vars, NEW c \in Calls
    PROVE  /\ \A e \in Emails, p \in Passwords : Login(c, e, p) => AccountInvariant'
           /\ \A i \in Identities, to \in Emails \cup {None} :
                 CompleteLogin(c, i, to) => AccountInvariant'
<1>1. TypeOK' /\ Progress
      BY TypeStep, ProgressStep DEF AccountInvariant
<1>2. ASSUME NEW next \in Requests, next.step \in {"session", "link", "match"},
             next.step \in {"session", "link"} => next.email \in Emails /\ user[next.email] # None,
             next.step = "session" => Earned(next.email),
             Go(c, next), UNCHANGED <<user, linked, link, sessions>>
      PROVE  AccountInvariant'
  <2>1. next.step \in NeedsAccount => next.email \in Emails /\ user'[next.email] # None
        BY <1>2 DEF NeedsAccount
  <2>2. next.step = "session" => EarnedNext(next.email)
        BY <1>1, <1>2, EarnedStays DEF AccountInvariant
  <2>3. \A i \in Identities : linked'[i] # None => user'[linked'[i]] # None
        BY <1>1, <1>2, LinkedExist DEF AccountInvariant
  <2> QED
      BY <1>1, <1>2, <2>1, <2>2, <2>3, CallStep
<1>3. ASSUME NEW e \in Emails, NEW p \in Passwords, Login(c, e, p)
      PROVE  AccountInvariant'
  <2> DEFINE next == [step |-> "session", email |-> e]
  <2>1. next \in Requests /\ next.step = "session" /\ next.email = e
        BY DEF Requests
  <2>2. Earned(e) /\ user[e] # None
        BY <1>3 DEF Login, Earned
  <2>3. Go(c, next) /\ UNCHANGED <<user, linked, link, sessions>>
        BY <1>3 DEF Login
  <2> HIDE DEF next
  <2> QED
      BY <1>2, <2>1, <2>2, <2>3
<1>4. ASSUME NEW i \in Identities, NEW to \in Emails \cup {None}, CompleteLogin(c, i, to)
      PROVE  AccountInvariant'
  <2>1. UNCHANGED <<user, linked, link, sessions>>
        BY <1>4 DEF CompleteLogin
  <2>2. CASE linked[i] # None
    <3> DEFINE next == [step |-> "session", email |-> linked[i]]
    <3>1. linked[i] \in Emails /\ user[linked[i]] # None /\ Earned(linked[i])
          BY <2>2 DEF AccountInvariant, AccountsExist, TypeOK, Earned
    <3>2. next \in Requests /\ next.step = "session" /\ next.email = linked[i]
          BY <3>1 DEF Requests
    <3>3. Go(c, next)
          BY <1>4, <2>2 DEF CompleteLogin
    <3> HIDE DEF next
    <3> QED
        BY <1>2, <2>1, <3>1, <3>2, <3>3
  <2>3. CASE linked[i] = None /\ to # None
    <3> DEFINE next == [step |-> "link", identity |-> i, email |-> to]
    <3>1. next \in Requests /\ next.step = "link" /\ next.email = to
          BY <2>3 DEF Requests
    <3>2. to \in Emails /\ user[to] # None
          BY <1>4, <2>3 DEF CompleteLogin, AccountInvariant, SessionsAreEarned
    <3>3. Go(c, next)
          BY <1>4, <2>3 DEF CompleteLogin
    <3> HIDE DEF next
    <3> QED
        BY <1>2, <2>1, <3>1, <3>2, <3>3
  <2>4. CASE linked[i] = None /\ to = None
    <3> DEFINE next == [step |-> "match", identity |-> i, email |-> EmailOf[i]]
    <3>1. next \in Requests /\ next.step = "match"
          BY EmailOfIsTotal DEF Requests
    <3>2. Go(c, next)
          BY <1>4, <2>4 DEF CompleteLogin
    <3> HIDE DEF next
    <3> QED
        BY <1>2, <2>1, <3>1, <3>2
  <2> QED
      BY <2>2, <2>3, <2>4
<1> QED
    BY <1>3, <1>4

\* The statements of matchOrCreateUser, and the link at its end.
LEMMA ProviderStep ==
    ASSUME AccountInvariant, [Next]_vars, NEW c \in Calls,
           MatchUser(c) \/ WipePassword(c) \/ MarkVouched(c) \/ CreateProviderUser(c)
               \/ CreateOAuthIdentity(c)
    PROVE  AccountInvariant'
<1> DEFINE e == call[c].email
           i == call[c].identity
<1>1. TypeOK' /\ Progress /\ TypeOK /\ AccountsExist
      BY TypeStep, ProgressStep DEF AccountInvariant
<1>2. /\ call[c].step \in {"match", "wipe", "vouch", "create", "link"}
      /\ e \in Emails /\ i \in Identities
      /\ call[c].step \in {"wipe", "vouch", "link"} => user[e] # None
      BY <1>1, RequestTypes
      DEF MatchUser, WipePassword, MarkVouched, CreateProviderUser, CreateOAuthIdentity, At,
          AccountsExist, NeedsAccount
<1>3. UNCHANGED <<link, sessions>>
      BY DEF MatchUser, WipePassword, MarkVouched, CreateProviderUser, CreateOAuthIdentity
<1>4. ASSUME linked' = linked, NEW s \in {"create", "wipe", "vouch", "link"}, Step(c, s),
             call[c].step # "link", s # "create" => user'[e] # None
      PROVE  AccountInvariant'
  <2> DEFINE next == [call[c] EXCEPT !.step = s]
  <2>1. next \in Requests /\ next.step = s /\ next.email = e
        BY <1>1, <1>2, <1>4, NextStatement
  <2>2. Go(c, next)
        BY <1>4 DEF Step
  <2>3. \A j \in Identities : linked'[j] # None => user'[linked'[j]] # None
        BY <1>1, <1>4, LinkedExist
  <2>4. next.step \in NeedsAccount => s # "create"
        BY <2>1 DEF NeedsAccount
  <2> HIDE DEF next
  <2> QED
      BY <1>1, <1>2, <1>3, <1>4, <2>1, <2>2, <2>3, <2>4, CallStep
<1>5. ASSUME linked' = linked, End(c)
      PROVE  AccountInvariant'
      BY <1>1, <1>3, <1>5, LinkedExist, EndStep
<1>6. CASE MatchUser(c)
  <2>1. linked' = linked /\ user' = user /\ call[c].step = "match"
        BY <1>6 DEF MatchUser, At
  <2>2. CASE user[e] = None
        BY <1>4, <1>6, <2>1, <2>2 DEF MatchUser
  <2>3. CASE user[e] # None
        BY <1>4, <1>5, <1>6, <2>1, <2>3 DEF MatchUser
  <2> QED
      BY <2>2, <2>3
<1>7. CASE WipePassword(c)
  <2>1. linked' = linked /\ call[c].step = "wipe" /\ Step(c, "vouch")
        BY <1>7 DEF WipePassword, At
  <2>2. user'[e] # None
        BY <1>1, <1>2, <2>1 DEF Progress
  <2> QED
      BY <1>4, <2>1, <2>2
<1>8. CASE MarkVouched(c)
  <2>1. linked' = linked /\ call[c].step = "vouch" /\ Step(c, "link")
        BY <1>8 DEF MarkVouched, At
  <2>2. user'[e] # None
        BY <1>1, <1>2, <2>1 DEF Progress
  <2> QED
      BY <1>4, <2>1, <2>2
<1>9. CASE CreateProviderUser(c)
  <2>1. linked' = linked /\ call[c].step = "create"
        BY <1>9 DEF CreateProviderUser, At
  <2>2. CASE user[e] # None
        BY <1>5, <1>9, <2>1, <2>2 DEF CreateProviderUser
  <2>3. CASE user[e] = None
    <3>1. user' = [user EXCEPT ![e] = [password |-> None, verified |-> i \in Vouched]]
          BY <1>9, <2>3 DEF CreateProviderUser, CreateUser, Account
    <3>2. user'[e] = [password |-> None, verified |-> i \in Vouched]
          BY <1>1, <1>2, <3>1 DEF TypeOK
    <3>3. user'[e] # None
      <4>1. \A v \in BOOLEAN : [password |-> None, verified |-> v] # None
        <5>1. \A v \in BOOLEAN : [password |-> None, verified |-> v] \in
                  [password : Passwords \cup {None}, verified : BOOLEAN]
              OBVIOUS
        <5> QED
            BY <5>1, NoneIsNew, Zenon
      <4>2. (i \in Vouched) \in BOOLEAN
            OBVIOUS
      <4> QED
          BY <3>2, <4>1, <4>2, Zenon
    <3>4. Step(c, "link")
          BY <1>9, <2>3 DEF CreateProviderUser
    <3> QED
        BY <1>4, <2>1, <3>3, <3>4
  <2> QED
      BY <2>2, <2>3
<1>10. CASE CreateOAuthIdentity(c)
  <2>1. user' = user /\ call[c].step = "link" /\ user[e] # None
        BY <1>2, <1>10 DEF CreateOAuthIdentity, At
  <2>2. CASE linked[i] # None
        BY <1>5, <1>10, <2>2 DEF CreateOAuthIdentity
  <2>3. CASE linked[i] = None
    <3> DEFINE next == [step |-> "session", email |-> e]
    <3>1. linked' = [linked EXCEPT ![i] = e] /\ Go(c, next)
          BY <1>10, <2>3 DEF CreateOAuthIdentity
    <3>2. next \in Requests /\ next.step = "session" /\ next.email = e
          BY <1>2 DEF Requests
    <3>3. linked'[i] = e /\ \A j \in Identities \ {i} : linked'[j] = linked[j]
          BY <1>1, <1>2, <3>1 DEF TypeOK
    <3>4. EarnedNext(e)
          BY <1>2, <2>1, <3>3 DEF EarnedNext
    <3>5. \A j \in Identities : linked'[j] # None => user'[linked'[j]] # None
          BY <1>1, <2>1, <3>3 DEF AccountsExist
    <3> HIDE DEF next
    <3> QED
        BY <1>1, <1>2, <1>3, <2>1, <3>1, <3>2, <3>4, <3>5, CallStep
  <2> QED
      BY <2>2, <2>3
<1> QED
    BY <1>6, <1>7, <1>8, <1>9, <1>10

\* Nothing is there at the start.
LEMMA InitHolds == Init => AccountInvariant
<1> SUFFICES ASSUME Init
             PROVE  AccountInvariant
    OBVIOUS
<1>1. TypeOK
      BY BoundsAreNat DEF Init, TypeOK, Requests, Links
<1>2. \A c \in Calls : call[c].step = "idle"
      BY DEF Init, Idle
<1> QED
    BY <1>1, <1>2
    DEF Init, AccountInvariant, AccountsExist, LinksAreHeld, LoginsAreEarned, SessionsAreEarned,
        NeedsAccount, HasLink

\* Every step keeps the invariant.
LEMMA InvariantStep == AccountInvariant /\ [Next]_vars => AccountInvariant'
<1> SUFFICES ASSUME AccountInvariant, [Next]_vars
             PROVE  AccountInvariant'
    OBVIOUS
<1>1. ASSUME NEW c \in Calls, Proceed(c)
      PROVE  AccountInvariant'
      BY <1>1, RegistrationStep, CreateLinkStep, SendStep, AccountStep, ProviderStep DEF Proceed
<1>2. ASSUME NEW c \in Calls, Stop(c)
      PROVE  AccountInvariant'
      BY <1>2, AccountStep
<1>3. ASSUME NEW c \in Calls, NEW e \in Typists,
             \/ RequestPasswordReset(c, e)
             \/ \E p \in Passwords : Register(c, e, p) \/ Login(c, e, p)
      PROVE  AccountInvariant'
  <2>1. e \in Emails
        BY VouchedAreIdentities
  <2> QED
      BY <1>3, <2>1, RegistrationStep, LoginStep
<1>4. ASSUME NEW c \in Calls, NEW k \in Links,
             VerifyEmail(c, k) \/ \E p \in Passwords : ResetPassword(c, k, p)
      PROVE  AccountInvariant'
      BY <1>4, ConsumeStep
<1>5. ASSUME NEW c \in Calls, NEW i \in Identities, NEW to \in Emails \cup {None},
             CompleteLogin(c, i, to)
      PROVE  AccountInvariant'
      BY <1>5, LoginStep
<1>6. ASSUME NEW k \in Links, Expire(k)
      PROVE  AccountInvariant'
      BY <1>6, ExpireStep
<1>7. CASE (\E e \in Emails : EndSession(e)) \/ UNCHANGED vars
  <2>1. UNCHANGED <<user, linked, link, call>> /\ sessions' \subseteq sessions
        BY <1>7 DEF EndSession, vars
  <2>2. TypeOK'
        BY TypeStep DEF AccountInvariant
  <2> QED
      BY <2>1, <2>2
      DEF AccountInvariant, AccountsExist, LinksAreHeld, HasLink, LoginsAreEarned, Earned,
          SessionsAreEarned
<1> QED
    BY <1>1, <1>2, <1>3, <1>4, <1>5, <1>6, <1>7 DEF Next

\* The invariant is inductive.
LEMMA InvariantHolds == Spec => []AccountInvariant
BY InitHolds, InvariantStep, PTL DEF Spec

-----------------------------------------------------------------------------
(* The theorems *)

\* The tables have their types, and a request has what its next statement
\* needs (service.go, oauth.go).
THEOREM TypeCorrect == Spec => []TypeOK
BY InvariantHolds, PTL DEF AccountInvariant

\* A link works once, also when it is opened twice at the same time
\* (ConsumeAuthToken).
THEOREM LinksWorkOnce == Spec => []SpentOnce
<1>1. AccountInvariant => SpentOnce
      BY DEF AccountInvariant, LinksAreHeld, SpentOnce, Spending, HasLink
<1> QED
    BY InvariantHolds, <1>1, PTL

\* Nobody has a session of an account that he has not shown to be his, by its
\* address or by an identity (Login, CompleteLogin).
THEOREM SessionsHaveOwners == Spec => []SessionsAreEarned
BY InvariantHolds, PTL DEF AccountInvariant

\* No registration takes over a verified account: its password changes by a
\* reset, or by a provider login that found it unverified (registerOverExisting).
THEOREM VerifiedPasswordIsKept == Spec => VerifiedPasswordKept
<1>1. AccountInvariant /\ [Next]_vars => [PasswordsKept]_vars
      BY ProgressStep DEF AccountInvariant
<1> QED
    BY InvariantHolds, <1>1, PTL DEF Spec, VerifiedPasswordKept, PasswordsKept

\* However logins and explicit links overlap, an identity stays with the
\* account that has it (CompleteLogin, CreateOAuthIdentity).
THEOREM IdentitiesStay == Spec => IdentityStays
<1>1. AccountInvariant /\ [Next]_vars =>
          [\A i \in Identities : linked[i] # None => linked'[i] = linked[i]]_vars
      BY LinkedStep DEF AccountInvariant
<1> QED
    BY InvariantHolds, <1>1, PTL DEF Spec, IdentityStays

=============================================================================
