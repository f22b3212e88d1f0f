------------------------------ MODULE Identity ------------------------------
(***************************************************************************)
(* Signing in: services/auth.py, services/owner_security.py and            *)
(* services/phone_auth.py, over the rows of models/identity.py.            *)
(*                                                                         *)
(* Every row belongs to one account (one email address or one phone        *)
(* number) and no operation touches rows of two, so the module follows one *)
(* account: a buyer by email, the owner, or a buyer by phone.  The status  *)
(* `disabled` is never assigned and is left out; a wrong password, code or *)
(* token changes nothing and is left out unless it is counted.             *)
(***************************************************************************)
EXTENDS Sessions

CONSTANTS
    RecoveryCode,   \* the recovery codes handed out at one enrolment
    MaxAttempts,    \* codes compared with one phone challenge: 5 in the code
    ResetBy,        \* bound: kinds of account whose password resets are followed
    MaxTokens,      \* bound: one-time tokens ever issued
    MaxChallenges,  \* bound: phone challenges ever issued
    MaxSecrets,     \* bound: enrolments ever started
    MaxStep         \* bound: time steps of the authenticator

ASSUME IdentityAssumption ==
    {MaxAttempts, MaxTokens, MaxChallenges, MaxSecrets, MaxStep} \subseteq Nat

VARIABLES
    account,     \* the User row and its kind
    tokens,      \* one_time_tokens in the order they were issued
    method,      \* the owner's MfaMethod and its unused MfaRecoveryCodes
    step,        \* the authenticator's current time step
    challenges,  \* phone_otp_challenges in the order they were issued
    spent,       \* history: proofs that have had an effect
    doubled      \* history: proofs that have had one more than once

sessionVars == <<rows, lapsed>>
mailVars    == <<account, tokens>>
ownerVars   == <<method, step>>
history     == <<spent, doubled>>
vars        == <<sessionVars, tx, mailVars, ownerVars, challenges, history>>

-----------------------------------------------------------------------------
User == [kind: {"buyer", "owner", "phone"},
         status: {"absent", "pending", "active"}, password: 0..MaxTokens]

\* A token is over once it is consumed or has expired: both are refused alike.
OneTimeToken == [purpose: {"verify_email", "reset_password", "mfa_login"},
                 over: BOOLEAN]

MfaMethod == [at: {"none", "pending", "enabled"}, secret: 0..MaxSecrets,
              last: -1..MaxStep + 1, unused: SUBSET RecoveryCode]

PhoneOtpChallenge ==
    [purpose: {"signup", "login"}, attempts: 0..MaxAttempts, cooling: BOOLEAN,
     delivered: BOOLEAN, consumed: BOOLEAN, expired: BOOLEAN]

\* The owner is provisioned by a command; buyers create their accounts.
Init ==
    /\ \E kind \in {"buyer", "owner", "phone"} :
         account = [kind |-> kind, password |-> 0,
                    status |-> IF kind = "owner" THEN "active" ELSE "absent"]
    /\ rows = <<>> /\ lapsed = {} /\ tx = [s \in Client |-> Idle]
    /\ tokens = <<>> /\ challenges = <<>>
    /\ method = [at |-> "none", secret |-> 0, last |-> -1, unused |-> {}]
    /\ step = 0
    /\ spent = {} /\ doubled = {}

Spent(proofs) ==
    /\ spent' = spent \cup proofs
    /\ doubled' = doubled \cup (proofs \cap spent)

\* Tokens, the authenticator row and challenges other transactions have locked.
HeldTokens(s) ==
    {tx[t].key : t \in {c \in Client \ {s} : tx[c].at \in {"mfa", "reset"}}}

MethodFree(s) == \A t \in Client \ {s} : tx[t].at \notin {"mfa", "reset_mfa"}

HeldChallenges(s) == {tx[t].key : t \in {c \in Client \ {s} : tx[c].at = "phone"}}

-----------------------------------------------------------------------------
(* One-time tokens.                                                         *)

Open(purpose) ==
    {k \in DOMAIN tokens : tokens[k].purpose = purpose /\ ~tokens[k].over}

Superseded(purpose) ==
    [k \in DOMAIN tokens |->
        [tokens[k] EXCEPT !.over = @ \/ k \in Open(purpose)]]

\* A new token takes the place of the open ones of its purpose.
TokenIssued(s, purpose) ==
    /\ Len(tokens) < MaxTokens
    /\ Open(purpose) \cap HeldTokens(s) = {}
    /\ tokens' = Append(Superseded(purpose), [purpose |-> purpose, over |-> FALSE])

\* register_buyer: an address that has an account already changes nothing.
RegisterBuyer(s) ==
    /\ tx[s] = Idle
    /\ account.kind = "buyer" /\ account.status = "absent"
    /\ account' = [account EXCEPT !.status = "pending"]
    /\ TokenIssued(s, "verify_email")
    /\ UNCHANGED <<sessionVars, tx, ownerVars, challenges, history>>

IssueEmailVerification(s) ==
    /\ tx[s] = Idle /\ UserFree(s)
    /\ account.status = "pending"
    /\ TokenIssued(s, "verify_email")
    /\ UNCHANGED <<sessionVars, tx, account, ownerVars, challenges, history>>

VerifyEmail(s, k) ==
    /\ tx[s] = Idle /\ UserFree(s)
    /\ k \in Open("verify_email")
    /\ account' = [account EXCEPT !.status = "active"]
    /\ tokens' = Superseded("verify_email")
    /\ Spent({<<"verify_email", k>>})
    /\ UNCHANGED <<sessionVars, tx, ownerVars, challenges>>

RequestPasswordReset(s) ==
    /\ tx[s] = Idle /\ UserFree(s)
    /\ account.kind \in ResetBy \ {"phone"} /\ account.status = "active"
    /\ TokenIssued(s, "reset_password")
    /\ UNCHANGED <<sessionVars, tx, account, ownerVars, challenges, history>>

\* reset_password locks the token and chooses the sessions to revoke; the
\* account's row is written when the transaction is flushed at its commit.
BeginResetPassword(s, k) ==
    /\ tx[s] = Idle
    /\ k \in Open("reset_password") /\ k \notin HeldTokens(s)
    /\ tx' = [tx EXCEPT ![s] = [Idle EXCEPT !.at = "reset", !.key = k,
                                            !.ids = Unrevoked(Row)]]
    /\ UNCHANGED <<sessionVars, mailVars, ownerVars, challenges, history>>

CommitResetPassword(s) ==
    /\ tx[s].at = "reset"
    /\ tx[s].ids \cap HeldRows(s) = {} /\ UserFree(s)
    /\ account' = [account EXCEPT !.password = @ + 1]
    /\ tokens' = Superseded("reset_password")
    /\ rows' = WithRevoked(tx[s].ids)
    /\ Spent({<<"reset_password", tx[s].key>>})
    /\ Finished(s)
    /\ UNCHANGED <<lapsed, ownerVars, challenges>>

TokenExpires(k) ==
    /\ ~tokens[k].over
    /\ tokens' = [tokens EXCEPT ![k].over = TRUE]
    /\ UNCHANGED <<sessionVars, tx, account, ownerVars, challenges, history>>

-----------------------------------------------------------------------------
(* login: with the password, under the lock of the account's row.           *)

PasswordAccepted(s) ==
    /\ tx[s] = Idle /\ UserFree(s)
    /\ account.kind # "phone" /\ account.status = "active"

MfaRequired == account.kind = "owner" /\ method.at = "enabled"

BeginLogin(s) ==
    /\ PasswordAccepted(s) /\ ~MfaRequired
    /\ tx' = [tx EXCEPT ![s] = [Idle EXCEPT !.at = "login", !.ids = Surplus]]
    /\ UNCHANGED <<sessionVars, mailVars, ownerVars, challenges, history>>

CommitLogin(s) ==
    /\ tx[s].at = "login"
    /\ SessionIssued(s, FALSE)
    /\ Finished(s)
    /\ UNCHANGED <<lapsed, mailVars, ownerVars, challenges, history>>

\* The owner with an authenticator gets a challenge instead of a session.
IssueMfaChallenge(s) ==
    /\ PasswordAccepted(s) /\ MfaRequired
    /\ TokenIssued(s, "mfa_login")
    /\ UNCHANGED <<sessionVars, tx, account, ownerVars, challenges, history>>

-----------------------------------------------------------------------------
(* The owner's authenticator: services/owner_security.py.                   *)

\* Faulty: a check that forgets the counter of the last accepted code.
MatchesWindowOnly(counter) == counter \in {step - 1, step, step + 1} \cap Nat

\* matching_totp_counter: one step either way, later than the last one used.
Matches(counter) ==
    /\ counter \in {step - 1, step, step + 1} \cap Nat
    /\ counter > method.last

StartEnrollment(s) ==
    /\ tx[s] = Idle /\ MethodFree(s)
    /\ account.kind = "owner" /\ method.at # "enabled"
    /\ method.secret < MaxSecrets
    /\ \E k \in Row : Current(k)
    /\ method' = [at |-> "pending", secret |-> method.secret + 1,
                  last |-> -1, unused |-> {}]
    /\ UNCHANGED <<sessionVars, tx, mailVars, step, challenges, history>>

\* The session the request came with is read again under a lock: it must not
\* be revoked by then, but it may have been replaced.
ConfirmEnrollment(s, k, counter) ==
    /\ tx[s] = Idle /\ MethodFree(s)
    /\ account.kind = "owner" /\ method.at = "pending"
    /\ counter \in {step - 1, step, step + 1} \cap Nat
    /\ ~rows[k].revoked /\ k \notin HeldRows(s)
    /\ method' = [method EXCEPT !.at = "enabled", !.last = counter,
                                !.unused = RecoveryCode]
    /\ rows' = [rows EXCEPT ![k].mfa = TRUE]
    /\ Spent({<<"totp", method.secret, counter>>})
    /\ UNCHANGED <<lapsed, tx, mailVars, step, challenges>>

\* complete_owner_mfa_login locks the challenge and the authenticator's row,
\* never the account's.
BeginMfaLogin(s, k, proof) ==
    /\ tx[s] = Idle /\ MethodFree(s)
    /\ k \in Open("mfa_login") /\ k \notin HeldTokens(s)
    /\ method.at = "enabled"
    /\ \/ proof[1] = "totp" /\ Matches(proof[3])
       \/ proof[1] = "recovery" /\ proof[3] \in method.unused
    /\ proof[2] = method.secret
    /\ tx' = [tx EXCEPT ![s] = [at |-> "mfa", row |-> 0, key |-> k,
                                ids |-> Surplus, proof |-> proof]]
    /\ UNCHANGED <<sessionVars, mailVars, ownerVars, challenges, history>>

CommitMfaLogin(s) ==
    LET proof == tx[s].proof
    IN  /\ tx[s].at = "mfa"
        /\ UserFree(s)
        /\ SessionIssued(s, TRUE)
        /\ tokens' = [tokens EXCEPT ![tx[s].key].over = TRUE]
        /\ method' = IF proof[1] = "totp"
                     THEN [method EXCEPT !.last = proof[3]]
                     ELSE [method EXCEPT !.unused = @ \ {proof[3]}]
        /\ Spent({proof, <<"mfa_login", tx[s].key>>})
        /\ Finished(s)
        /\ UNCHANGED <<lapsed, account, step, challenges>>

\* reset_owner_mfa, a command: no authenticator, no challenge, no session.
BeginResetMfa(s) ==
    /\ tx[s] = Idle /\ UserFree(s) /\ MethodFree(s)
    /\ account.kind = "owner"
    /\ Open("mfa_login") \cap HeldTokens(s) = {}
    /\ tx' = [tx EXCEPT ![s] = [Idle EXCEPT !.at = "reset_mfa", !.ids = Unrevoked(Row)]]
    /\ UNCHANGED <<sessionVars, mailVars, ownerVars, challenges, history>>

CommitResetMfa(s) ==
    /\ tx[s].at = "reset_mfa"
    /\ tx[s].ids \cap HeldRows(s) = {}
    /\ method' = [method EXCEPT !.at = "none", !.last = -1, !.unused = {}]
    /\ tokens' = Superseded("mfa_login")
    /\ rows' = WithRevoked(tx[s].ids)
    /\ Finished(s)
    /\ UNCHANGED <<lapsed, account, step, challenges, history>>

\* Time is followed when the current code has been used (bound).
Tick ==
    /\ step < MaxStep
    /\ method.last >= step
    /\ step' = step + 1
    /\ UNCHANGED <<sessionVars, tx, mailVars, method, challenges, history>>

-----------------------------------------------------------------------------
(* Phone codes: services/phone_auth.py.  `cooling` holds for the cooldown   *)
(* after the row was created; the code is sent outside any transaction.     *)

Recent == {k \in DOMAIN challenges :
             challenges[k].cooling /\ (challenges[k].delivered \/ ~challenges[k].consumed)}

StaleChallenges == {k \in DOMAIN challenges :
                      ~challenges[k].cooling /\ ~challenges[k].consumed}

ConsumedIn(S) ==
    [k \in DOMAIN challenges |-> [challenges[k] EXCEPT !.consumed = @ \/ k \in S]]

AskForCode(s, purpose) ==
    /\ tx[s] = Idle
    /\ account.kind = "phone"
    /\ Recent = {}
    /\ tx' = [tx EXCEPT ![s] = [Idle EXCEPT !.at = "ask", !.ids = StaleChallenges,
                                            !.proof = <<purpose>>]]
    /\ UNCHANGED <<sessionVars, mailVars, ownerVars, challenges, history>>

\* The unique index refuses a second unconsumed challenge for the number.
OpenChallenge(s) ==
    LET left == {k \in DOMAIN challenges :
                   ~challenges[k].consumed /\ k \notin tx[s].ids}
    IN  /\ tx[s].at = "ask"
        /\ HeldChallenges(s) = {}
        /\ Len(challenges) < MaxChallenges
        /\ \/ /\ left # {}
              /\ Finished(s)
              /\ UNCHANGED challenges
           \/ /\ left = {}
              /\ challenges' = Append(ConsumedIn(tx[s].ids),
                     [purpose |-> tx[s].proof[1], attempts |-> 0, cooling |-> TRUE,
                      delivered |-> FALSE, consumed |-> FALSE, expired |-> FALSE])
              /\ tx' = [tx EXCEPT ![s] = [Idle EXCEPT !.at = "send",
                                                      !.key = Len(challenges) + 1]]
        /\ UNCHANGED <<sessionVars, mailVars, ownerVars, history>>

\* The sender took the code; a row consumed meanwhile reports "ack_lost".
CodeSent(s) ==
    LET k == tx[s].key
    IN  /\ tx[s].at = "send"
        /\ challenges' = [challenges EXCEPT ![k].delivered = @ \/ ~challenges[k].consumed]
        /\ Finished(s)
        /\ UNCHANGED <<sessionVars, mailVars, ownerVars, history>>

CodeNotSent(s) ==
    /\ tx[s].at = "send"
    /\ challenges' = ConsumedIn({tx[s].key})
    /\ Finished(s)
    /\ UNCHANGED <<sessionVars, mailVars, ownerVars, history>>

\* Faulty: one attempt too many.
AttemptOrOneMore(c) ==
    ~c.consumed /\ c.delivered /\ ~c.expired /\ c.attempts <= MaxAttempts

AttemptLeft(c) ==
    ~c.consumed /\ c.delivered /\ ~c.expired /\ c.attempts < MaxAttempts

\* An attempt is counted and committed before the code is compared.
ReserveAttempt(s, k, verdict) ==
    LET c == challenges[k]
    IN  /\ tx[s] = Idle
        /\ k \notin HeldChallenges(s)
        /\ AttemptLeft(c)
        /\ challenges' = [challenges EXCEPT ![k].attempts = @ + 1]
        /\ tx' = [tx EXCEPT ![s] = [Idle EXCEPT !.at = verdict, !.key = k,
                                                !.proof = <<c.attempts + 1>>]]
        /\ UNCHANGED <<sessionVars, mailVars, ownerVars, history>>

\* The last wrong code closes the challenge.
RefuseCode(s) ==
    /\ tx[s].at = "wrong"
    /\ tx[s].key \notin HeldChallenges(s)
    /\ challenges' = IF tx[s].proof[1] >= MaxAttempts
                     THEN ConsumedIn({tx[s].key}) ELSE challenges
    /\ Finished(s)
    /\ UNCHANGED <<sessionVars, mailVars, ownerVars, history>>

\* Faulty: a code is accepted without looking again at the challenge it was sent for.
AdmitCodeAgain(s) ==
    LET c == challenges[tx[s].key]
    IN  /\ tx[s].at = "right" /\ UserFree(s)
        /\ account.status = "active" \/ c.purpose = "signup"
        /\ tx' = [tx EXCEPT ![s] = [@ EXCEPT !.at = "phone", !.ids = Surplus]]
        /\ UNCHANGED <<challenges, sessionVars, mailVars, ownerVars, history>>

\* The right code consumes the challenge unless another request did, then
\* takes the account's row; a login without an account ends there.
AdmitCode(s) ==
    LET c == challenges[tx[s].key]
    IN  /\ tx[s].at = "right"
        /\ tx[s].key \notin HeldChallenges(s)
        /\ \/ c.consumed /\ Finished(s) /\ UNCHANGED challenges
           \/ /\ ~c.consumed /\ UserFree(s)
              /\ account.status = "absent" /\ c.purpose = "login"
              /\ challenges' = ConsumedIn({tx[s].key})
              /\ Finished(s)
           \/ /\ ~c.consumed /\ UserFree(s)
              /\ account.status = "active" \/ c.purpose = "signup"
              /\ tx' = [tx EXCEPT ![s] = [@ EXCEPT !.at = "phone", !.ids = Surplus]]
              /\ UNCHANGED challenges
        /\ UNCHANGED <<sessionVars, mailVars, ownerVars, history>>

CommitPhoneLogin(s) ==
    /\ tx[s].at = "phone"
    /\ SessionIssued(s, FALSE)
    /\ account' = [account EXCEPT !.status = "active"]
    /\ challenges' = ConsumedIn({tx[s].key})
    /\ Spent({<<"phone", tx[s].key>>})
    /\ Finished(s)
    /\ UNCHANGED <<lapsed, tokens, ownerVars>>

CooldownEnds(k) ==
    /\ challenges[k].cooling
    /\ challenges' = [challenges EXCEPT ![k].cooling = FALSE]
    /\ UNCHANGED <<sessionVars, tx, mailVars, ownerVars, history>>

ChallengeExpires(k) ==
    /\ ~challenges[k].cooling /\ ~challenges[k].expired /\ ~challenges[k].consumed
    /\ challenges' = [challenges EXCEPT ![k].expired = TRUE]
    /\ UNCHANGED <<sessionVars, tx, mailVars, ownerVars, history>>

-----------------------------------------------------------------------------
Proof == {<<"totp", n, c>> : n \in 1..MaxSecrets, c \in 0..MaxStep + 1}
         \cup {<<"recovery", n, r>> : n \in 1..MaxSecrets, r \in RecoveryCode}

WithMail(s) ==
    \/ RegisterBuyer(s) \/ IssueEmailVerification(s) \/ RequestPasswordReset(s)
    \/ \E k \in DOMAIN tokens : VerifyEmail(s, k) \/ BeginResetPassword(s, k)
    \/ CommitResetPassword(s)

WithPassword(s) == BeginLogin(s) \/ CommitLogin(s) \/ IssueMfaChallenge(s)

WithAuthenticator(s) ==
    \/ StartEnrollment(s)
    \/ \E k \in Row, c \in 0..MaxStep + 1 : ConfirmEnrollment(s, k, c)
    \/ \E k \in DOMAIN tokens, p \in Proof : BeginMfaLogin(s, k, p)
    \/ CommitMfaLogin(s) \/ BeginResetMfa(s) \/ CommitResetMfa(s)

WithPhone(s) ==
    \/ \E purpose \in {"signup", "login"} : AskForCode(s, purpose)
    \/ OpenChallenge(s) \/ CodeSent(s) \/ CodeNotSent(s)
    \/ \E k \in DOMAIN challenges, verdict \in {"right", "wrong"} :
         ReserveAttempt(s, k, verdict)
    \/ RefuseCode(s) \/ AdmitCode(s) \/ CommitPhoneLogin(s)

TimePasses ==
    \/ \E k \in DOMAIN tokens : TokenExpires(k)
    \/ \E k \in DOMAIN challenges : CooldownEnds(k) \/ ChallengeExpires(k)
    \/ Tick
    \/ /\ \E k \in Row : FamilyLapses(k)
       /\ UNCHANGED <<mailVars, ownerVars, challenges, history>>

Next ==
    \/ \E s \in Client :
         \/ WithMail(s) \/ WithPassword(s) \/ WithAuthenticator(s) \/ WithPhone(s)
         \/ /\ Renewal(s) \/ Rollback(s)
            /\ UNCHANGED <<mailVars, ownerVars, challenges, history>>
    \/ TimePasses

Spec == Init /\ [][Next]_vars

-----------------------------------------------------------------------------
\* The rows keep their shape and the limits of their columns: codes compared
\* by overlapping requests never push attempt_count past its constraint.
IdentityTypeOK ==
    /\ rows \in Seq(RefreshSession) /\ Len(rows) <= MaxRows
    /\ account \in User
    /\ tokens \in Seq(OneTimeToken)
    /\ method \in MfaMethod
    /\ challenges \in Seq(PhoneOtpChallenge)

\* A one-time proof has one effect, whatever requests overlap: an emailed
\* token verifies or resets once, a sign-in challenge, an authenticator code,
\* a recovery code and a phone code each let in one session.
ProofUsedOnce == doubled = {}

\* Sign-ins and renewals that overlap never leave a buyer with more active
\* sessions than max_active_sessions_per_user: each sign-in counts them under
\* the lock of the account's row, which also holds up renewals.
SessionsBounded ==
    account.kind # "owner" => Cardinality({k \in Row : Current(k)}) <= MaxSessions

=============================================================================
