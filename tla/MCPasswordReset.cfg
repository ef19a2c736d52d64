SPECIFICATION Spec
CONSTANTS
    Mails = {m1, m2}
    NoMail = NoMail
    Workers = {w1}
    MaxRetries = 0
    MaxAccidents = 0
    Requests = {r1, r2}
    Tokens = {t1, t2, t3}
    NoToken = NoToken
    Known = TRUE
    MaxSlips = 1
    Faults = {"cache", "broker", "db", "crash"}
SYMMETRY Symmetry
INVARIANTS MailedCodeWasStored CodeBuysFewTokens TokenSetsFewPasswords PasswordNeedsMail
