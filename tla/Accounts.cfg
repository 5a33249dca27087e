SPECIFICATION FairSpec
CONSTANTS
    e1 = e1
    e2 = e2
    google = google
    discord = discord
    Emails = {e1, e2}
    Passwords = {p1, p2}
    Typists = {e1}
    MaxLinks = 1
    Identities = {google, discord}
    EmailOf <- MCEmailOf
    Vouched = {google}
    Calls = {c1, c2}
    MaxFaults = 1
    None = None
INVARIANTS
    SpentOnce
    SessionsAreEarned
PROPERTIES
    VerifiedPasswordKept
    VerificationRecovers
    ProviderLoginWorks
CHECK_DEADLOCK FALSE
