---------------------------- MODULE PasswordReset ----------------------------
(***************************************************************************)
(* Resetting a password with a code by mail: AuthService.send_otp,         *)
(* reset_password, verify_otp and change_password, the two keys of an      *)
(* email address in Redis, and the mail queue (module MailQueue).          *)
(*                                                                         *)
(* The code and the verification token of the address live under one key   *)
(* each, with a time to live.  A handler reads, compares and deletes in    *)
(* separate calls and nothing ties the deletion to the value it compared:  *)
(* between two calls another worker process may store, delete or replace.  *)
(*                                                                         *)
(* One address is modelled: two addresses share no key, row or task.  Codes*)
(* and tokens are fresh when generated (random ones).  A user knows a code *)
(* from a mail and a token from an answer, or mistypes.                    *)
(***************************************************************************)
EXTENDS MailQueue

CONSTANTS
    Requests,   \* HTTP requests in progress, one per worker process
    Tokens,     \* the verification tokens that may be generated
    NoToken,    \* no token
    Known,      \* whether a user has the address
    MaxSlips,   \* bound: deletions that fail or are cut off by a crash
    Faults      \* what the environment may do: a subset of FaultKinds

\* "cache": a call to Redis fails; "broker": a task cannot be published;
\* "db": a commit fails; "crash": an HTTP worker dies.
FaultKinds == {"cache", "broker", "db", "crash"}

ASSUME RequestsAssumption == IsFiniteSet(Requests)
ASSUME NoTokenAssumption == NoToken \notin Tokens
ASSUME KnownAssumption == Known \in BOOLEAN
ASSUME MaxSlipsAssumption == MaxSlips \in Nat
ASSUME FaultsAssumption == Faults \subseteq FaultKinds

VARIABLES
    otp,        \* the value of otp:<email>
    token,      \* the value of verification_token:<email>
    req,        \* the local state of each handler
    fate,       \* what became of each code between its generation and its mail
    exchanged,  \* exchanged[t]: the code typed for token t, once generated
    given,      \* tokens some answer has given to the user
    uses,       \* uses[t]: passwords committed with t
    slips,      \* deletions that did not happen
    verifiers,  \* history: the most requests that held a code at a time
    changers    \* history: the most requests that held a token at a time

resetVars == <<otp, token, req, fate, exchanged, given, uses, slips>>
crowds == <<verifiers, changers>>
vars == <<mailVars, resetVars, crowds>>

Ops == {"none", "send", "reset", "verify", "change"}
PCs == {"idle", "store", "publish", "read", "delete", "storeToken", "commit"}
\* A code is stored, or reset_password goes on although Redis refused it.
Fates == {"none", "issued", "stored", "refused"}
Handler == [pc: PCs, op: Ops, code: Mails \cup {NoMail}, token: Tokens \cup {NoToken}]
Idle == [pc |-> "idle", op |-> "none", code |-> NoMail, token |-> NoToken]

StateOK ==
    /\ MailTypeOK
    /\ otp \in Mails \cup {NoMail}
    /\ token \in Tokens \cup {NoToken}
    /\ req \in [Requests -> Handler]
    /\ fate \in [Mails -> Fates]
    /\ exchanged \in [Tokens -> Mails \cup {NoMail}]
    /\ given \subseteq Tokens
    /\ uses \in [Tokens -> Nat]
    /\ slips \in 0..MaxSlips

TypeOK == StateOK /\ verifiers \in [Mails -> Nat] /\ changers \in [Tokens -> Nat]

Init ==
    /\ MailInit
    /\ otp = NoMail /\ token = NoToken
    /\ req = [r \in Requests |-> Idle]
    /\ fate = [m \in Mails |-> "none"]
    /\ exchanged = [t \in Tokens |-> NoMail]
    /\ given = {} /\ uses = [t \in Tokens |-> 0]
    /\ slips = 0
    /\ verifiers = [m \in Mails |-> 0] /\ changers = [t \in Tokens |-> 0]

Goto(r, pc) == req' = [req EXCEPT ![r].pc = pc]
End(r) == req' = [req EXCEPT ![r] = Idle]
Start(r, op, pc, c, t) ==
    /\ req[r].pc = "idle"
    /\ req' = [req EXCEPT ![r] = [pc |-> pc, op |-> op, code |-> c, token |-> t]]

-----------------------------------------------------------------------------
(* send_otp and reset_password. *)

\* Both routes generate a code and store it.
GenerateCode(r, op) ==
    /\ \E c \in {m \in Mails : fate[m] = "none"} :
        /\ Start(r, op, "store", c, NoToken)
        /\ fate' = [fate EXCEPT ![c] = "issued"]
    /\ UNCHANGED <<mailVars, otp, token, exchanged, given, uses, slips>>

SendOtp(r) == GenerateCode(r, "send")

\* An unknown address gets the same answer and nothing else.
ResetPassword(r) == Known /\ GenerateCode(r, "reset")

\* Mutant: the task is published first.
StoreLate(r) ==
    /\ req[r].pc = "store"
    /\ Publish(req[r].code)
    /\ Goto(r, "publish")
    /\ UNCHANGED <<otp, token, fate, exchanged, given, uses, slips>>

\* set_otp replaces the code of the address.  When it fails, send_otp answers
\* 500 and reset_password, which ignores the result, goes on.
StoreCode(r) ==
    /\ req[r].pc = "store"
    /\ \/ /\ otp' = req[r].code
          /\ Goto(r, "publish")
          /\ fate' = [fate EXCEPT ![req[r].code] = "stored"]
       \/ /\ "cache" \in Faults /\ req[r].op = "reset"
          /\ Goto(r, "publish")
          /\ fate' = [fate EXCEPT ![req[r].code] = "refused"]
          /\ UNCHANGED otp
       \/ /\ "cache" \in Faults /\ req[r].op = "send"
          /\ End(r)
          /\ UNCHANGED <<otp, fate>>
    /\ UNCHANGED <<mailVars, token, exchanged, given, uses, slips>>

\* send_otp_email.delay and the answer; without a broker send_otp answers 500
\* and reset_password what it always answers.
PublishCode(r) ==
    /\ req[r].pc = "publish"
    /\ \/ Publish(req[r].code)
       \/ "broker" \in Faults /\ UNCHANGED mailVars
    /\ End(r)
    /\ UNCHANGED <<otp, token, fate, exchanged, given, uses, slips>>

-----------------------------------------------------------------------------
(* verify_otp: a code of some mail, or a wrong one. *)

Verify(r) ==
    /\ \E c \in {NoMail} \cup {m \in Mails : mailed[m] > 0} :
        Start(r, "verify", "read", c, NoToken)
    /\ UNCHANGED <<mailVars, otp, token, fate, exchanged, given, uses, slips>>

\* Mutant: any code will do as long as one is stored.
CheckSomeCode(r) ==
    /\ req[r].pc = "read" /\ req[r].op = "verify"
    /\ \/ otp # NoMail /\ Goto(r, "delete")
       \/ End(r)
    /\ UNCHANGED <<mailVars, otp, token, fate, exchanged, given, uses, slips>>

\* get_otp and the comparison: no code, another one or a failing cache is a 400.
CheckCode(r) ==
    /\ req[r].pc = "read" /\ req[r].op = "verify"
    /\ \/ otp = req[r].code /\ otp # NoMail /\ Goto(r, "delete")
       \/ (otp # req[r].code \/ otp = NoMail \/ "cache" \in Faults) /\ End(r)
    /\ UNCHANGED <<mailVars, otp, token, fate, exchanged, given, uses, slips>>

\* Mutant: the code stays until it expires.
DeleteNoCode(r) ==
    /\ req[r].pc = "delete" /\ req[r].op = "verify"
    /\ Goto(r, "storeToken")
    /\ UNCHANGED <<mailVars, otp, slips,
                   token, fate, exchanged, given, uses>>

\* delete_otp deletes the key, whatever code it holds by now; its result is
\* ignored.
DeleteCode(r) ==
    /\ req[r].pc = "delete" /\ req[r].op = "verify"
    /\ \/ otp' = NoMail /\ UNCHANGED slips
       \/ /\ "cache" \in Faults /\ slips < MaxSlips
          /\ slips' = slips + 1
          /\ UNCHANGED otp
    /\ Goto(r, "storeToken")
    /\ UNCHANGED <<mailVars, token, fate, exchanged, given, uses>>

\* A fresh token replaces the one of the address and is the answer; when it
\* cannot be stored the answer is 500, with the code deleted already.  (So is
\* a request that comes when the bound has no token left.)
StoreToken(r) ==
    /\ req[r].pc = "storeToken"
    /\ \/ \E t \in Tokens \ given :
            /\ token' = t
            /\ exchanged' = [exchanged EXCEPT ![t] = req[r].code]
            /\ given' = given \cup {t}
       \/ /\ "cache" \in Faults \/ given = Tokens
          /\ UNCHANGED <<token, exchanged, given>>
    /\ End(r)
    /\ UNCHANGED <<mailVars, otp, fate, uses, slips>>

-----------------------------------------------------------------------------
(* change_password: with a token of some answer, or a wrong one. *)

Change(r) ==
    /\ \E t \in given \cup {NoToken} : Start(r, "change", "read", NoMail, t)
    /\ UNCHANGED <<mailVars, otp, token, fate, exchanged, given, uses, slips>>

\* get_verification_token, the comparison and the lookup of the user (404).
CheckToken(r) ==
    /\ req[r].pc = "read" /\ req[r].op = "change"
    /\ \/ token = req[r].token /\ token # NoToken /\ Known /\ Goto(r, "commit")
       \/ /\ token # req[r].token \/ token = NoToken \/ ~Known \/ "cache" \in Faults
          /\ End(r)
    /\ UNCHANGED <<mailVars, otp, token, fate, exchanged, given, uses, slips>>

\* The new hash is committed by the handler itself; a failing commit is rolled
\* back and the token kept.
CommitPassword(r) ==
    /\ req[r].pc = "commit"
    /\ \/ /\ uses' = [uses EXCEPT ![req[r].token] = @ + 1]
          /\ Goto(r, "delete")
       \/ "db" \in Faults /\ End(r) /\ UNCHANGED uses
    /\ UNCHANGED <<mailVars, otp, token, fate, exchanged, given, slips>>

\* Mutant: a token can be used until it expires.
DeleteNoToken(r) ==
    /\ req[r].pc = "delete" /\ req[r].op = "change"
    /\ End(r)
    /\ UNCHANGED <<mailVars, token, slips,
                   otp, fate, exchanged, given, uses>>

\* delete_verification_token deletes the key, whatever token it holds by now;
\* its result is ignored.
DeleteToken(r) ==
    /\ req[r].pc = "delete" /\ req[r].op = "change"
    /\ \/ token' = NoToken /\ UNCHANGED slips
       \/ /\ "cache" \in Faults /\ slips < MaxSlips
          /\ slips' = slips + 1
          /\ UNCHANGED token
    /\ End(r)
    /\ UNCHANGED <<mailVars, otp, fate, exchanged, given, uses>>

-----------------------------------------------------------------------------
\* The time to live of a key ends, at any time after it was set: the order of
\* the events of a behaviour is all the properties are about.
Expire ==
    /\ \/ otp # NoMail /\ otp' = NoMail /\ UNCHANGED token
       \/ token # NoToken /\ token' = NoToken /\ UNCHANGED otp
    /\ UNCHANGED <<mailVars, req, fate, exchanged, given, uses, slips>>

\* An HTTP worker dies: Redis keeps what it was told, the session rolls back.
Crash(r) ==
    /\ "crash" \in Faults
    /\ req[r].pc # "idle"
    /\ IF req[r].pc = "delete"
       THEN slips < MaxSlips /\ slips' = slips + 1
       ELSE UNCHANGED slips
    /\ End(r)
    /\ UNCHANGED <<mailVars, otp, token, fate, exchanged, given, uses>>

HandlerStep(r) ==
    \/ StoreCode(r) \/ PublishCode(r)
    \/ CheckCode(r) \/ DeleteCode(r) \/ StoreToken(r)
    \/ CheckToken(r) \/ CommitPassword(r) \/ DeleteToken(r)

\* The requests that have compared a code, or a token, with the stored one and
\* not deleted it yet.
Verifying(m) ==
    {r \in Requests : req[r].op = "verify" /\ req[r].code = m /\ req[r].pc = "delete"}
Changing(t) ==
    {r \in Requests : /\ req[r].op = "change" /\ req[r].token = t
                      /\ req[r].pc \in {"commit", "delete"}}

\* The histories, which no guard reads.
Larger(a, b) == IF a < b THEN b ELSE a
Gather ==
    /\ verifiers' =
         [m \in Mails |-> Larger(verifiers[m], Cardinality(Verifying(m)'))]
    /\ changers' =
         [t \in Tokens |-> Larger(changers[t], Cardinality(Changing(t)'))]

Next ==
    /\ \/ \E r \in Requests :
            \/ SendOtp(r) \/ ResetPassword(r) \/ Verify(r) \/ Change(r)
            \/ HandlerStep(r) \/ Crash(r)
       \/ Expire
       \/ MailNext /\ UNCHANGED resetVars
    /\ Gather

Spec == Init /\ [][Next]_vars

-----------------------------------------------------------------------------
\* A code that is in the queue or in a mail was stored before, so it can be
\* verified until it expires or is replaced: a fast mail never beats the cache.
\* Only reset_password, which ignores a failing cache, mails one that was not.
MailedCodeWasStored ==
    \A m \in asked :
        fate[m] = "stored" \/ (fate[m] = "refused" /\ "cache" \in Faults)

\* A code is single-use as long as no two requests are between their comparison
\* and their deletion of it at the same time and every deletion succeeds: it
\* buys no more tokens than requests were ever there together, and one more for
\* each deletion that did not happen.
CodeBuysFewTokens ==
    \A m \in Mails : Cardinality({t \in given : exchanged[t] = m}) <= verifiers[m] + slips

\* The same of a token, the changes with it and the passwords it sets.
TokenSetsFewPasswords == \A t \in Tokens : uses[t] <= changers[t] + slips

\* What the documentation says of codes and of tokens.
CodesAreSingleUse ==
    \A m \in Mails : Cardinality({t \in given : exchanged[t] = m}) <= 1
TokensAreSingleUse == \A t \in Tokens : uses[t] <= 1

\* Weaker than either of the two: a behaviour that violates it has bought two
\* tokens with one code and set two passwords with one token.
CodesOrTokensAreSingleUse == CodesAreSingleUse \/ TokensAreSingleUse

\* A password is set with a token only if its user typed a code that was mailed
\* to the address: through every interleaving of requests, mails and expiries.
\* (Invariant together with the types of the variables.)
PasswordNeedsMail ==
    /\ TypeOK
    /\ \A t \in Tokens : uses[t] > 0 => exchanged[t] # NoMail /\ mailed[exchanged[t]] > 0

=============================================================================
