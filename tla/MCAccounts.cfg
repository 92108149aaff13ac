\* Racing registrations and a login with a failing database; once every request
\* is done the instance stops.
SPECIFICATION Spec
CONSTANTS
    Emails = {"a@x", "b@x"}
    Usernames = {"admin", "bob"}
    BadNames = {"?"}
    Passwords = {"secret1", "secret2", "long"}
    LongPasswords = {"long"}
    BadPasswords = {"short"}
    AdminUser = "admin"
    AdminPass = "secret2"
    Registrations = {r1, r2}
    Logins = {l1}
    Outcomes = {"ok", "lost", "unconfirmed"}
    None = None
SYMMETRY RegistrationSymmetry
CHECK_DEADLOCK FALSE
INVARIANTS
    AccountsTypeOK
    LoginUnambiguous
    CreatedStays
    ConflictTruthful
    AdminNeverLockedOut
