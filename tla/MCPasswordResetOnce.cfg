SPECIFICATION Spec
CONSTANTS
    Mails = {m1}
    NoMail = NoMail
    Workers = {w1}
    MaxRetries = 0
    MaxAccidents = 0
    Requests = {r1, r2}
    Tokens = {t1, t2}
    NoToken = NoToken
    Known = TRUE
    MaxSlips = 0
    Faults = {}
INVARIANT CodesOrTokensAreSingleUse
