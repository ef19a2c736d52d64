SPECIFICATION MCSpec
CONSTANTS
    Mails = {m1, m2}
    NoMail = NoMail
    Workers = {w1, w2}
    MaxRetries = 2
    MaxAccidents = 2
INVARIANTS DuplicatesAreAccounted NoMailIsLost
PROPERTY MailEnds
