-------------------------- MODULE Identity_proofs --------------------------
(***************************************************************************)
(* Theorems about Identity and the Sessions it extends: a family of        *)
(* sessions is one line, every proof has one effect, a buyer's sessions    *)
(* stay within their limit, and the rows keep their columns' limits, for   *)
(* any number of overlapping requests, rows, tokens, codes and enrolments. *)
(***************************************************************************)
EXTENDS Identity, FiniteSetTheorems, SequenceTheorems, TLAPS

\* Where a request can stand between two of its commits, and what it holds.
At == {"idle", "rotate", "revoke", "reset", "login", "mfa", "reset_mfa",
       "ask", "send", "right", "wrong", "phone"}

Evidence == Proof \cup {<<>>, <<"signup">>, <<"login">>} \cup {<<n>> : n \in Nat}

Transaction == [at: At, row: Nat, key: Nat, ids: SUBSET Nat, proof: Evidence]

UserLock   == {"login", "phone", "reset_mfa"}
MethodLock == {"mfa", "reset_mfa"}
TokenLock  == {"mfa", "reset"}

RowsTyped == rows \in Seq(RefreshSession) /\ Len(rows) <= MaxRows

TxTyped == tx \in [Client -> Transaction]

\* Two requests never hold the same session row, token, authenticator or
\* account row.
Apart(a, b) ==
    /\ a.row # 0 => a.row # b.row
    /\ a.at \in TokenLock /\ b.at \in TokenLock => a.key # b.key
    /\ ~(a.at \in UserLock /\ b.at \in UserLock)
    /\ ~(a.at \in MethodLock /\ b.at \in MethodLock)

LocksApart == \A s, t \in Client : s # t => Apart(tx[s], tx[t])

\* A renewal holds the last row of its line, which nobody can revoke meanwhile.
RenewsHead ==
    \A s \in Client : tx[s].at = "rotate" =>
        /\ tx[s].row \in Row
        /\ rows[tx[s].row].replaced_by = 0
        /\ ~rows[tx[s].row].revoked

\* OneLineOfSessions without cardinalities, and the bounds of its links.
Lines ==
    /\ \A k \in Row : rows[k].family <= Len(rows) /\ rows[k].replaced_by <= Len(rows)
    /\ \A j, k \in Row :
         rows[j].replaced_by = k => k > j /\ rows[k].family = rows[j].family
    /\ \A k \in Row : \E h \in Row :
         rows[h].family = rows[k].family /\ rows[h].replaced_by = 0
    /\ \A h, k \in Row :
         /\ rows[h].family = rows[k].family
         /\ rows[h].replaced_by = 0 /\ rows[k].replaced_by = 0
         => h = k

SessionInv == RowsTyped /\ TxTyped /\ LocksApart /\ RenewsHead /\ Lines

\* A sign-in under the account's lock has chosen enough sessions to revoke.
Active == {k \in Row : Current(k)}

RoomMade ==
    account.kind # "owner" =>
        /\ \A s \in Client : tx[s].at \in {"login", "phone"} =>
             Cardinality(Active \ tx[s].ids) < MaxSessions
        /\ Cardinality(Active) <= MaxSessions

-----------------------------------------------------------------------------
Mailed == {"verify_email", "reset_password", "mfa_login"}

PurposeOf(at) == IF at = "reset" THEN "reset_password" ELSE "mfa_login"

\* A token that had its effect is over; one that a request holds had none.
MailSpent ==
    /\ \A p \in spent : p[1] \in Mailed =>
         p[2] \in DOMAIN tokens /\ tokens[p[2]].over
    /\ \A s \in Client : tx[s].at \in TokenLock =>
         /\ tx[s].key \in DOMAIN tokens
         /\ tokens[tx[s].key].purpose = PurposeOf(tx[s].at)
         /\ <<PurposeOf(tx[s].at), tx[s].key>> \notin spent

\* Codes used with the present secret are no newer than the last one noted,
\* recovery codes used are gone from the list, and a secret not yet confirmed
\* has none.  A code that is being taken is new.
CodesSpent ==
    /\ \A p \in spent : p[1] \in {"totp", "recovery"} =>
         /\ p[2] \in 0..method.secret
         /\ p[1] = "totp" => p[3] \in Nat
         /\ p[2] = method.secret =>
              /\ method.at # "pending"
              /\ p[1] = "totp" /\ method.at = "enabled" => p[3] <= method.last
              /\ p[1] = "recovery" => p[3] \notin method.unused
    /\ \A s \in Client : tx[s].at = "mfa" =>
         /\ method.at = "enabled"
         /\ tx[s].proof \in Proof
         /\ tx[s].proof[2] = method.secret
         /\ tx[s].proof[1] = "totp" => tx[s].proof[3] > method.last
         /\ tx[s].proof[1] = "recovery" => tx[s].proof[3] \in method.unused
    /\ method.at # "none" => account.kind = "owner"

\* A phone code that signed somebody in consumed its challenge.
PhoneSpent ==
    /\ \A p \in spent : p[1] = "phone" =>
         p[2] \in DOMAIN challenges /\ challenges[p[2]].consumed
    /\ \A s \in Client :
         /\ tx[s].at \in {"send", "right", "wrong", "phone"} =>
              tx[s].key \in DOMAIN challenges
         /\ tx[s].at = "ask" => tx[s].proof \in {<<"signup">>, <<"login">>}
         /\ tx[s].at = "wrong" => tx[s].proof \in {<<n>> : n \in Nat}
         /\ tx[s].at = "phone" => <<"phone", tx[s].key>> \notin spent

\* The password was changed once for every reset token that had its effect.
ResetKeys == {k \in DOMAIN tokens : <<"reset_password", k>> \in spent}

ResetsCounted ==
    /\ Len(tokens) <= MaxTokens
    /\ account.password = Cardinality(ResetKeys)

IdentityInv ==
    /\ SessionInv
    /\ IdentityTypeOK
    /\ RoomMade
    /\ MailSpent
    /\ CodesSpent
    /\ PhoneSpent
    /\ ResetsCounted
    /\ ProofUsedOnce

-----------------------------------------------------------------------------
(* Rows, and the requests that change them                                 *)

\* A function on an initial segment of the naturals is a sequence.
LEMMA SegmentIsSeq ==
    ASSUME NEW S, NEW n \in Nat, NEW f \in [1..n -> S]
    PROVE  f \in Seq(S) /\ Len(f) = n /\ DOMAIN f = 1..n
<1>1. f \in Seq(S)
  BY SeqDef
<1> QED
  BY <1>1, LenProperties

LEMMA Appended ==
    ASSUME NEW S, NEW seq \in Seq(S), NEW e \in S
    PROVE  /\ Append(seq, e) \in Seq(S)
           /\ Len(Append(seq, e)) = Len(seq) + 1
           /\ DOMAIN Append(seq, e) = 1..Len(seq) + 1
           /\ \A k \in 1..Len(seq) : Append(seq, e)[k] = seq[k]
           /\ Append(seq, e)[Len(seq) + 1] = e
  BY AppendProperties, LenProperties

LEMMA RowsAre ==
    ASSUME RowsTyped
    PROVE  /\ Len(rows) \in Nat /\ DOMAIN rows = Row /\ Row \subseteq Nat \ {0}
           /\ rows \in [Row -> RefreshSession]
           /\ \A k \in Row : /\ rows[k] \in RefreshSession
                             /\ rows[k].family \in Nat \ {0} /\ rows[k].replaced_by \in Nat
                             /\ rows[k].revoked \in BOOLEAN /\ rows[k].mfa \in BOOLEAN
<1>1. Len(rows) \in Nat /\ rows \in [1..Len(rows) -> RefreshSession] /\ DOMAIN rows = 1..Len(rows)
  BY LenProperties DEF RowsTyped
<1>2. MaxRows \in Nat
  BY SessionsAssumption
<1> QED
  BY <1>1, <1>2 DEF Row, RefreshSession

\* The rows after a step that adds none.
RowsKept(new) ==
    /\ new \in Seq(RefreshSession) /\ Len(new) = Len(rows)
    /\ \A k \in Row : /\ new[k].family = rows[k].family
                      /\ new[k].replaced_by = rows[k].replaced_by
                      /\ rows[k].revoked => new[k].revoked

LEMMA RevokedFields ==
    ASSUME RowsTyped, NEW S
    PROVE  /\ RowsKept(WithRevoked(S))
           /\ \A k \in Row : WithRevoked(S)[k].revoked <=> rows[k].revoked \/ k \in S
<1> DEFINE new(k) == [rows[k] EXCEPT !.revoked = @ \/ k \in S]
<1>1. ASSUME NEW k \in Row
      PROVE  /\ new(k) \in RefreshSession
             /\ new(k).family = rows[k].family /\ new(k).replaced_by = rows[k].replaced_by
             /\ new(k).revoked <=> rows[k].revoked \/ k \in S
  <2>1. rows[k] \in RefreshSession
    BY RowsAre
  <2>2. (rows[k].revoked \/ k \in S) \in BOOLEAN
    OBVIOUS
  <2> QED
    BY <2>1, <2>2 DEF RefreshSession
<1>2. WithRevoked(S) = [k \in Row |-> new(k)]
  BY DEF WithRevoked
<1> HIDE DEF new
<1>3. WithRevoked(S) \in [1..Len(rows) -> RefreshSession] /\ Len(rows) \in Nat
  BY <1>1, <1>2, RowsAre DEF Row
<1>4. WithRevoked(S) \in Seq(RefreshSession) /\ Len(WithRevoked(S)) = Len(rows)
  BY <1>3, SegmentIsSeq
<1> QED
  BY <1>1, <1>2, <1>4 DEF RowsKept

LEMMA MarkedFields ==
    ASSUME RowsTyped, NEW k \in Row
    PROVE  /\ RowsKept([rows EXCEPT ![k].mfa = TRUE])
           /\ \A j \in Row : [rows EXCEPT ![k].mfa = TRUE][j].revoked <=> rows[j].revoked
<1> DEFINE row == [rows[k] EXCEPT !.mfa = TRUE]
<1>1. rows[k] \in RefreshSession /\ rows \in Seq(RefreshSession) /\ k \in 1..Len(rows)
  BY RowsAre DEF RowsTyped, Row
<1>2. /\ row \in RefreshSession
      /\ row.family = rows[k].family /\ row.replaced_by = rows[k].replaced_by
      /\ row.revoked <=> rows[k].revoked
  BY <1>1 DEF RefreshSession
<1>3. [rows EXCEPT ![k].mfa = TRUE] = [rows EXCEPT ![k] = row]
  OBVIOUS
<1> HIDE DEF row
<1>4. /\ [rows EXCEPT ![k] = row] \in Seq(RefreshSession)
      /\ Len([rows EXCEPT ![k] = row]) = Len(rows)
      /\ \A j \in 1..Len(rows) : [rows EXCEPT ![k] = row][j] = IF j = k THEN row ELSE rows[j]
  BY <1>1, <1>2, ExceptSeq
<1> QED
  BY <1>2, <1>3, <1>4 DEF RowsKept, Row

\* The families and rows that a sign-in, a logout or a reset chooses.
LEMMA ChoicesAreRows ==
    ASSUME RowsTyped
    PROVE  /\ Surplus \subseteq Row /\ Unrevoked(Row) \subseteq Row
           /\ \A k \in Row : Unrevoked(Family(k)) \subseteq Row
           /\ Row \subseteq Nat
  BY RowsAre DEF Surplus, Unrevoked, Family

-----------------------------------------------------------------------------
(* Transactions                                                            *)

LEMMA IdleTyped ==
    /\ Idle \in Transaction
    /\ Idle.at = "idle" /\ Idle.row = 0 /\ Idle.key = 0 /\ Idle.ids = {} /\ Idle.proof = <<>>
  BY DEF Idle, Transaction, At, Evidence

\* A request that has nothing open begins.
LEMMA Begun ==
    ASSUME NEW at \in At, NEW row \in Nat, NEW key \in Nat, NEW ids \in SUBSET Nat,
           NEW proof \in Evidence
    PROVE  LET t == [at |-> at, row |-> row, key |-> key, ids |-> ids, proof |-> proof]
           IN  /\ t \in Transaction
               /\ t.at = at /\ t.row = row /\ t.key = key /\ t.ids = ids /\ t.proof = proof
  BY DEF Transaction

\* The transactions of the other requests stay.
Untouched(s) == \A t \in Client \ {s} : tx'[t] = tx[t]

\* What s holds after the step, nobody else held before.
Takes(s) == \A t \in Client \ {s} : Apart(tx'[s], tx[t]) /\ Apart(tx[t], tx'[s])

Goes(s) == tx' \in [Client -> Transaction] /\ Untouched(s) /\ Takes(s)

LEMMA Becomes ==
    ASSUME TxTyped, NEW s \in Client, NEW t \in Transaction, tx' = [tx EXCEPT ![s] = t]
    PROVE  tx' \in [Client -> Transaction] /\ tx'[s] = t /\ Untouched(s)
  BY DEF TxTyped, Untouched

LEMMA EndsFields ==
    ASSUME TxTyped, NEW s \in Client, Finished(s)
    PROVE  Goes(s) /\ tx'[s] = Idle
<1>1. tx' \in [Client -> Transaction] /\ tx'[s] = Idle /\ Untouched(s)
  BY IdleTyped, Becomes DEF Finished
<1> QED
  BY <1>1, IdleTyped DEF Goes, Takes, Apart, TokenLock, UserLock, MethodLock

LEMMA LocksStayApart ==
    ASSUME LocksApart, NEW s \in Client, Goes(s)
    PROVE  LocksApart'
<1> SUFFICES ASSUME NEW a \in Client, NEW b \in Client, a # b PROVE Apart(tx'[a], tx'[b])
  BY DEF LocksApart, Apart
<1>1. CASE a # s /\ b # s
  BY <1>1 DEF LocksApart, Goes, Untouched
<1>2. CASE a = s
  BY <1>2 DEF Goes, Takes, Untouched
<1>3. CASE b = s
  BY <1>3 DEF Goes, Takes, Untouched
<1> QED
  BY <1>1, <1>2, <1>3

\* A request opens a transaction, or goes on with it, under locks it may take.
LEMMA Opens ==
    ASSUME TxTyped, NEW s \in Client, NEW t \in Transaction, tx' = [tx EXCEPT ![s] = t],
           t.row # 0 => t.row \notin HeldRows(s),
           t.at \in TokenLock => t.key \notin HeldTokens(s),
           t.at \in UserLock => UserFree(s),
           t.at \in MethodLock => MethodFree(s)
    PROVE  Goes(s) /\ tx'[s] = t
<1>1. tx' \in [Client -> Transaction] /\ tx'[s] = t /\ Untouched(s)
  BY Becomes
<1>2. ASSUME NEW o \in Client \ {s}
      PROVE  Apart(t, tx[o]) /\ Apart(tx[o], t)
  BY DEF Apart, HeldRows, HeldTokens, UserFree, MethodFree, TokenLock, UserLock, MethodLock
<1> QED
  BY <1>1, <1>2 DEF Goes, Takes

-----------------------------------------------------------------------------
(* What a step does to the sessions                                        *)

Still == tx' = tx /\ rows' = rows /\ lapsed \subseteq lapsed'

\* Where a request gets that ends, begins, or goes on.
Moves(s) ==
    LET t == tx'[s]
    IN  \/ t.at \in {"idle", "rotate", "revoke", "login", "reset_mfa"}
        \/ t.at = "reset" /\ t.key \in Open("reset_password")
        \/ t.at = "mfa" /\ t.proof \in Proof /\ BeginMfaLogin(s, t.key, t.proof)
        \/ t.at = "ask" /\ t.proof \in {<<"signup">>, <<"login">>}
        \/ t.at = "send" /\ t.key = Len(challenges) + 1 /\ OpenChallenge(s)
        \/ t.at \in {"right", "wrong"} /\ t.key \in DOMAIN challenges
           /\ t.proof \in {<<n>> : n \in Nat}
        \/ t.at = "phone" /\ tx[s].at = "right" /\ t.key = tx[s].key
           /\ ~challenges[t.key].consumed

Asks(s) ==
    /\ Goes(s) /\ Moves(s) /\ rows' = rows /\ lapsed' = lapsed
    /\ tx'[s].at = "rotate" => tx'[s].row \in Row /\ Current(tx'[s].row)
    /\ tx'[s].at \in {"login", "phone"} => tx'[s].ids = Surplus

Revokes(s) ==
    /\ Goes(s) /\ tx'[s] = Idle /\ lapsed' = lapsed
    /\ \E S : S \cap HeldRows(s) = {} /\ rows' = WithRevoked(S)

Marks(s) ==
    /\ Goes(s) /\ tx'[s] = Idle /\ lapsed' = lapsed
    /\ \E k \in Row : rows' = [rows EXCEPT ![k].mfa = TRUE]

SignsIn(s) ==
    /\ Goes(s) /\ tx'[s] = Idle /\ lapsed' = lapsed
    /\ tx[s].at \in {"login", "mfa", "phone"}
    /\ \E mfa \in BOOLEAN : SessionIssued(s, mfa)

\* A transaction that is given up, or was only read for.
LEMMA EndIsAsk ==
    ASSUME TxTyped, NEW s \in Client, Finished(s), rows' = rows, lapsed' = lapsed
    PROVE  Asks(s)
  BY EndsFields, IdleTyped DEF Asks, Moves

LEMMA RenewalKinds ==
    ASSUME SessionInv, NEW s \in Client, Renewal(s) \/ Rollback(s)
    PROVE  \/ Asks(s) \/ Revokes(s)
           \/ CommitRotation(s) /\ Goes(s) /\ tx'[s] = Idle
<1>0. /\ RowsTyped /\ TxTyped /\ Row \subseteq Nat \ {0}
      /\ \A k \in Row : Unrevoked(Family(k)) \subseteq Nat
  BY RowsAre, ChoicesAreRows DEF SessionInv
<1>1. ASSUME NEW k \in Row, BeginRotation(s, k) PROVE Asks(s)
  <2> DEFINE t == [Idle EXCEPT !.at = "rotate", !.row = k]
  <2>1. t \in Transaction /\ t.at = "rotate" /\ t.row = k
    BY <1>0, IdleTyped DEF Transaction, At
  <2>2. tx' = [tx EXCEPT ![s] = t] /\ k \notin HeldRows(s)
    BY <1>1 DEF BeginRotation, Presented
  <2> HIDE DEF t
  <2>3. Goes(s) /\ tx'[s] = t
    BY <1>0, <2>1, <2>2, Opens DEF TokenLock, UserLock, MethodLock
  <2> QED
    BY <1>1, <2>1, <2>3 DEF Asks, Moves, BeginRotation
<1>2. ASSUME NEW k \in Row, ReuseDetected(s, k) PROVE Asks(s)
  <2> DEFINE t == [Idle EXCEPT !.at = "revoke", !.row = k, !.ids = Unrevoked(Family(k))]
  <2>1. t \in Transaction /\ t.at = "revoke" /\ t.row = k
    BY <1>0, IdleTyped DEF Transaction, At
  <2>2. tx' = [tx EXCEPT ![s] = t] /\ k \notin HeldRows(s)
    BY <1>2 DEF ReuseDetected, Presented
  <2> HIDE DEF t
  <2>3. Goes(s) /\ tx'[s] = t
    BY <1>0, <2>1, <2>2, Opens DEF TokenLock, UserLock, MethodLock
  <2> QED
    BY <1>2, <2>1, <2>3 DEF Asks, Moves, ReuseDetected
<1>3. ASSUME NEW k \in Row, ExpiredPresented(s, k) PROVE Revokes(s)
  <2>1. tx' = tx /\ tx[s] = Idle /\ k \notin HeldRows(s)
    BY <1>3 DEF ExpiredPresented, Presented
  <2>2. Goes(s) /\ tx'[s] = Idle
    BY <1>0, <2>1, IdleTyped DEF Goes, Untouched, Takes, Apart, TxTyped, TokenLock, UserLock,
                                 MethodLock
  <2>3. {k} \cap HeldRows(s) = {} /\ rows' = WithRevoked({k}) /\ lapsed' = lapsed
    BY <1>3, <2>1 DEF ExpiredPresented
  <2> QED
    BY <2>2, <2>3 DEF Revokes
<1>4. ASSUME NEW k \in Row, Logout(s, k) PROVE Asks(s)
  <2> DEFINE t == [Idle EXCEPT !.at = "revoke", !.ids = Unrevoked(Family(k))]
  <2>1. t \in Transaction /\ t.at = "revoke" /\ t.row = 0
    BY <1>0, IdleTyped DEF Transaction, At
  <2>2. tx' = [tx EXCEPT ![s] = t]
    BY <1>4 DEF Logout
  <2> HIDE DEF t
  <2>3. Goes(s) /\ tx'[s] = t
    BY <1>0, <2>1, <2>2, Opens DEF TokenLock, UserLock, MethodLock
  <2> QED
    BY <1>4, <2>1, <2>3 DEF Asks, Moves, Logout
<1>5. ASSUME CommitRotation(s) PROVE Goes(s) /\ tx'[s] = Idle
  BY <1>0, <1>5, EndsFields DEF CommitRotation
<1>6. ASSUME CommitRevoke(s) PROVE Revokes(s)
  BY <1>0, <1>6, EndsFields DEF CommitRevoke, Revokes
<1>7. ASSUME Rollback(s) PROVE Asks(s)
  BY <1>0, <1>7, EndIsAsk DEF Rollback
<1> QED
  BY <1>1, <1>2, <1>3, <1>4, <1>5, <1>6, <1>7 DEF Renewal

\* What the choices and keys of a request are made of.
LEMMA KeysAreNumbers ==
    ASSUME SessionInv, IdentityTypeOK
    PROVE  /\ RowsTyped /\ TxTyped /\ LocksApart
           /\ Surplus \in SUBSET Nat /\ Unrevoked(Row) \in SUBSET Nat
           /\ StaleChallenges \in SUBSET Nat
           /\ DOMAIN tokens = 1..Len(tokens) /\ Len(tokens) \in Nat
           /\ tokens \in [1..Len(tokens) -> OneTimeToken]
           /\ DOMAIN challenges = 1..Len(challenges) /\ Len(challenges) \in Nat
           /\ challenges \in [1..Len(challenges) -> PhoneOtpChallenge]
<1>1. RowsTyped /\ TxTyped /\ LocksApart
  BY DEF SessionInv
<1>2. Surplus \in SUBSET Nat /\ Unrevoked(Row) \in SUBSET Nat
  BY <1>1, ChoicesAreRows
<1>3. tokens \in Seq(OneTimeToken) /\ challenges \in Seq(PhoneOtpChallenge)
  BY DEF IdentityTypeOK
<1>4. /\ DOMAIN tokens = 1..Len(tokens) /\ Len(tokens) \in Nat
      /\ tokens \in [1..Len(tokens) -> OneTimeToken]
      /\ DOMAIN challenges = 1..Len(challenges) /\ Len(challenges) \in Nat
      /\ challenges \in [1..Len(challenges) -> PhoneOtpChallenge]
  BY <1>3, LenProperties
<1>5. StaleChallenges \in SUBSET Nat
  BY <1>4 DEF StaleChallenges
<1> QED
  BY <1>1, <1>2, <1>4, <1>5

LEMMA MailKinds ==
    ASSUME SessionInv, IdentityTypeOK, NEW s \in Client, WithMail(s)
    PROVE  Still \/ Asks(s) \/ Revokes(s)
<1>0. RowsTyped /\ TxTyped /\ Unrevoked(Row) \in SUBSET Nat /\ DOMAIN tokens \subseteq Nat
  BY KeysAreNumbers
<1>1. ASSUME RegisterBuyer(s) \/ IssueEmailVerification(s) \/ RequestPasswordReset(s)
      PROVE  Still
  BY <1>1 DEF RegisterBuyer, IssueEmailVerification, RequestPasswordReset, sessionVars, Still
<1>2. ASSUME NEW k \in DOMAIN tokens, VerifyEmail(s, k) PROVE Still
  BY <1>2 DEF VerifyEmail, sessionVars, Still
<1>3. ASSUME NEW k \in DOMAIN tokens, BeginResetPassword(s, k) PROVE Asks(s)
  <2> DEFINE t == [Idle EXCEPT !.at = "reset", !.key = k, !.ids = Unrevoked(Row)]
  <2>1. t \in Transaction /\ t.at = "reset" /\ t.row = 0 /\ t.key = k
    BY <1>0, IdleTyped DEF Transaction, At
  <2>2. tx' = [tx EXCEPT ![s] = t] /\ k \notin HeldTokens(s)
    BY <1>3 DEF BeginResetPassword
  <2> HIDE DEF t
  <2>3. Goes(s) /\ tx'[s] = t
    BY <1>0, <2>1, <2>2, Opens DEF UserLock, MethodLock
  <2> QED
    BY <1>3, <2>1, <2>3 DEF Asks, Moves, BeginResetPassword, sessionVars
<1>4. ASSUME CommitResetPassword(s) PROVE Revokes(s)
  BY <1>0, <1>4, EndsFields DEF CommitResetPassword, Revokes
<1> QED
  BY <1>1, <1>2, <1>3, <1>4 DEF WithMail

LEMMA PasswordKinds ==
    ASSUME SessionInv, IdentityTypeOK, NEW s \in Client, WithPassword(s)
    PROVE  Still \/ Asks(s) \/ SignsIn(s)
<1>0. RowsTyped /\ TxTyped /\ Surplus \in SUBSET Nat
  BY KeysAreNumbers
<1>1. ASSUME BeginLogin(s) PROVE Asks(s)
  <2> DEFINE t == [Idle EXCEPT !.at = "login", !.ids = Surplus]
  <2>1. t \in Transaction /\ t.at = "login" /\ t.row = 0 /\ t.ids = Surplus
    BY <1>0, IdleTyped DEF Transaction, At
  <2>2. tx' = [tx EXCEPT ![s] = t] /\ UserFree(s)
    BY <1>1 DEF BeginLogin, PasswordAccepted
  <2> HIDE DEF t
  <2>3. Goes(s) /\ tx'[s] = t
    BY <1>0, <2>1, <2>2, Opens DEF TokenLock, MethodLock
  <2> QED
    BY <1>1, <2>1, <2>3 DEF Asks, Moves, BeginLogin, sessionVars
<1>2. ASSUME CommitLogin(s) PROVE SignsIn(s)
  BY <1>0, <1>2, EndsFields DEF CommitLogin, SignsIn
<1>3. ASSUME IssueMfaChallenge(s) PROVE Still
  BY <1>3 DEF IssueMfaChallenge, sessionVars, Still
<1> QED
  BY <1>1, <1>2, <1>3 DEF WithPassword

LEMMA AuthenticatorKinds ==
    ASSUME SessionInv, IdentityTypeOK, NEW s \in Client, WithAuthenticator(s)
    PROVE  Still \/ Asks(s) \/ Revokes(s) \/ Marks(s) \/ SignsIn(s)
<1>0. /\ RowsTyped /\ TxTyped /\ Surplus \in SUBSET Nat /\ Unrevoked(Row) \in SUBSET Nat
      /\ DOMAIN tokens \subseteq Nat
  BY KeysAreNumbers
<1>1. ASSUME StartEnrollment(s) PROVE Still
  BY <1>1 DEF StartEnrollment, sessionVars, Still
<1>2. ASSUME NEW k \in Row, NEW c \in 0..MaxStep + 1, ConfirmEnrollment(s, k, c)
      PROVE  Marks(s)
  <2>1. tx' = tx /\ tx[s] = Idle
    BY <1>2 DEF ConfirmEnrollment
  <2>2. Goes(s) /\ tx'[s] = Idle
    BY <1>0, <2>1, IdleTyped DEF Goes, Untouched, Takes, Apart, TxTyped, TokenLock, UserLock,
                                 MethodLock
  <2> QED
    BY <1>2, <2>2 DEF Marks, ConfirmEnrollment
<1>3. ASSUME NEW k \in DOMAIN tokens, NEW p \in Proof, BeginMfaLogin(s, k, p)
      PROVE  Asks(s)
  <2> DEFINE t == [at |-> "mfa", row |-> 0, key |-> k, ids |-> Surplus, proof |-> p]
  <2>1. t \in Transaction /\ t.at = "mfa" /\ t.row = 0 /\ t.key = k /\ t.proof = p
    BY <1>0 DEF Transaction, At, Evidence
  <2>2. tx' = [tx EXCEPT ![s] = t] /\ k \notin HeldTokens(s) /\ MethodFree(s)
    BY <1>3 DEF BeginMfaLogin
  <2> HIDE DEF t
  <2>3. Goes(s) /\ tx'[s] = t
    BY <1>0, <2>1, <2>2, Opens DEF UserLock
  <2> QED
    <3>1. rows' = rows /\ lapsed' = lapsed
      BY <1>3 DEF BeginMfaLogin, sessionVars
    <3> QED
      BY <1>3, <2>1, <2>3, <3>1 DEF Asks, Moves
<1>4. ASSUME CommitMfaLogin(s) PROVE SignsIn(s)
  BY <1>0, <1>4, EndsFields DEF CommitMfaLogin, SignsIn
<1>5. ASSUME BeginResetMfa(s) PROVE Asks(s)
  <2> DEFINE t == [Idle EXCEPT !.at = "reset_mfa", !.ids = Unrevoked(Row)]
  <2>1. t \in Transaction /\ t.at = "reset_mfa" /\ t.row = 0
    BY <1>0, IdleTyped DEF Transaction, At
  <2>2. tx' = [tx EXCEPT ![s] = t] /\ UserFree(s) /\ MethodFree(s)
    BY <1>5 DEF BeginResetMfa
  <2> HIDE DEF t
  <2>3. Goes(s) /\ tx'[s] = t
    BY <1>0, <2>1, <2>2, Opens DEF TokenLock
  <2> QED
    BY <1>5, <2>1, <2>3 DEF Asks, Moves, BeginResetMfa, sessionVars
<1>6. ASSUME CommitResetMfa(s) PROVE Revokes(s)
  BY <1>0, <1>6, EndsFields DEF CommitResetMfa, Revokes
<1> QED
  BY <1>1, <1>2, <1>3, <1>4, <1>5, <1>6 DEF WithAuthenticator

LEMMA PhoneKinds ==
    ASSUME SessionInv, IdentityTypeOK, NEW s \in Client, WithPhone(s)
    PROVE  Asks(s) \/ SignsIn(s)
<1>0. /\ RowsTyped /\ TxTyped /\ LocksApart
      /\ Surplus \in SUBSET Nat /\ StaleChallenges \in SUBSET Nat
      /\ DOMAIN challenges = 1..Len(challenges) /\ Len(challenges) \in Nat
      /\ challenges \in [1..Len(challenges) -> PhoneOtpChallenge]
  BY KeysAreNumbers
<1>1. ASSUME NEW purpose \in {"signup", "login"}, AskForCode(s, purpose) PROVE Asks(s)
  <2> DEFINE t == [Idle EXCEPT !.at = "ask", !.ids = StaleChallenges, !.proof = <<purpose>>]
  <2>1. t \in Transaction /\ t.at = "ask" /\ t.row = 0 /\ t.proof = <<purpose>>
    BY <1>0, IdleTyped DEF Transaction, At, Evidence
  <2>2. tx' = [tx EXCEPT ![s] = t]
    BY <1>1 DEF AskForCode
  <2> HIDE DEF t
  <2>3. Goes(s) /\ tx'[s] = t
    BY <1>0, <2>1, <2>2, Opens DEF TokenLock, UserLock, MethodLock
  <2> QED
    BY <1>1, <2>1, <2>3 DEF Asks, Moves, AskForCode, sessionVars
<1>2. ASSUME OpenChallenge(s) PROVE Asks(s)
  <2> DEFINE k == Len(challenges) + 1
             t == [Idle EXCEPT !.at = "send", !.key = k]
  <2>1. k \in Nat
    BY <1>0
  <2>2. rows' = rows /\ lapsed' = lapsed /\ (tx' = [tx EXCEPT ![s] = t] \/ Finished(s))
    BY <1>2 DEF OpenChallenge, sessionVars
  <2> HIDE DEF k
  <2>3. t \in Transaction /\ t.at = "send" /\ t.row = 0 /\ t.key = k
    BY <2>1, IdleTyped DEF Transaction, At
  <2> HIDE DEF t
  <2>4. ASSUME tx' = [tx EXCEPT ![s] = t] PROVE Goes(s) /\ tx'[s] = t
    BY <1>0, <2>3, <2>4, Opens DEF TokenLock, UserLock, MethodLock
  <2> QED
    BY <1>0, <1>2, <2>2, <2>3, <2>4, EndIsAsk DEF Asks, Moves, k
<1>3. ASSUME CodeSent(s) \/ CodeNotSent(s) \/ RefuseCode(s) PROVE Asks(s)
  BY <1>0, <1>3, EndIsAsk DEF CodeSent, CodeNotSent, RefuseCode, sessionVars
<1>4. ASSUME NEW k \in DOMAIN challenges, NEW verdict \in {"right", "wrong"},
             ReserveAttempt(s, k, verdict)
      PROVE  Asks(s)
  <2> DEFINE n == challenges[k].attempts + 1
             t == [Idle EXCEPT !.at = verdict, !.key = k, !.proof = <<n>>]
  <2>1. n \in Nat /\ k \in Nat
    BY <1>0, IdentityAssumption DEF PhoneOtpChallenge
  <2> HIDE DEF n
  <2>2. t \in Transaction /\ t.at = verdict /\ t.row = 0 /\ t.key = k /\ t.proof = <<n>>
    BY <2>1, IdleTyped DEF Transaction, At, Evidence
  <2>3. tx' = [tx EXCEPT ![s] = t]
    BY <1>4 DEF ReserveAttempt, n
  <2> HIDE DEF t
  <2>4. Goes(s) /\ tx'[s] = t
    BY <1>0, <2>2, <2>3, Opens DEF TokenLock, UserLock, MethodLock
  <2> QED
    BY <1>4, <2>1, <2>2, <2>4 DEF Asks, Moves, ReserveAttempt, sessionVars
<1>5. ASSUME AdmitCode(s) PROVE Asks(s)
  <2> DEFINE t == [tx[s] EXCEPT !.at = "phone", !.ids = Surplus]
  <2>1. t \in Transaction /\ t.at = "phone" /\ t.row = tx[s].row /\ t.ids = Surplus
        /\ t.key = tx[s].key
    BY <1>0 DEF Transaction, At, TxTyped
  <2>2. \/ Finished(s)
        \/ /\ tx' = [tx EXCEPT ![s] = t] /\ UserFree(s)
           /\ tx[s].at = "right" /\ ~challenges[tx[s].key].consumed
    BY <1>5 DEF AdmitCode
  <2>3. rows' = rows /\ lapsed' = lapsed
    BY <1>5 DEF AdmitCode, sessionVars
  <2>4. tx[s].row # 0 => tx[s].row \notin HeldRows(s)
    BY <1>0 DEF LocksApart, Apart, HeldRows
  <2> HIDE DEF t
  <2>5. ASSUME tx' = [tx EXCEPT ![s] = t], UserFree(s) PROVE Goes(s) /\ tx'[s] = t
    BY <1>0, <2>1, <2>4, <2>5, Opens DEF TokenLock, MethodLock
  <2> QED
    BY <1>0, <2>1, <2>2, <2>3, <2>5, EndIsAsk DEF Asks, Moves
<1>6. ASSUME CommitPhoneLogin(s) PROVE SignsIn(s)
  BY <1>0, <1>6, EndsFields DEF CommitPhoneLogin, SignsIn
<1> QED
  BY <1>1, <1>2, <1>3, <1>4, <1>5, <1>6 DEF WithPhone

LEMMA TimeIsStill ==
    ASSUME TimePasses \/ UNCHANGED vars
    PROVE  Still
<1>1. ASSUME NEW k, TokenExpires(k) \/ CooldownEnds(k) \/ ChallengeExpires(k) PROVE Still
  BY <1>1 DEF TokenExpires, CooldownEnds, ChallengeExpires, sessionVars, Still
<1>2. ASSUME Tick \/ UNCHANGED vars PROVE Still
  BY <1>2 DEF Tick, sessionVars, vars, Still
<1>3. ASSUME NEW k, FamilyLapses(k) PROVE Still
  BY <1>3 DEF FamilyLapses, Still
<1> QED
  BY <1>1, <1>2, <1>3 DEF TimePasses

\* Every step is still for the sessions, or one request's step of one of the kinds.
Kinds(s) ==
    \/ Asks(s) \/ Revokes(s) \/ Marks(s) \/ SignsIn(s)
    \/ CommitRotation(s) /\ Goes(s) /\ tx'[s] = Idle

LEMMA StepKinds ==
    ASSUME SessionInv, IdentityTypeOK, [Next]_vars
    PROVE  Still \/ \E s \in Client : Kinds(s)
<1>1. ASSUME NEW s \in Client,
             WithMail(s) \/ WithPassword(s) \/ WithAuthenticator(s) \/ WithPhone(s)
      PROVE  Still \/ Kinds(s)
  BY <1>1, MailKinds, PasswordKinds, AuthenticatorKinds, PhoneKinds DEF Kinds
<1>2. ASSUME NEW s \in Client, Renewal(s) \/ Rollback(s) PROVE Kinds(s)
  BY <1>2, RenewalKinds DEF Kinds
<1> QED
  BY <1>1, <1>2, TimeIsStill DEF Next

-----------------------------------------------------------------------------
(* A family is one line                                                    *)

\* A sign-in revokes what it chose and adds the first row of a family.
LEMMA SignedInFields ==
    ASSUME RowsTyped, NEW s \in Client, SignsIn(s)
    PROVE  LET n == Len(rows)
           IN  /\ rows' \in Seq(RefreshSession) /\ Len(rows') = n + 1 /\ n + 1 <= MaxRows
               /\ \A k \in Row :
                    /\ rows'[k].family = rows[k].family
                    /\ rows'[k].replaced_by = rows[k].replaced_by
                    /\ rows'[k].revoked <=> rows[k].revoked \/ k \in tx[s].ids
               /\ rows'[n + 1].family = n + 1 /\ rows'[n + 1].replaced_by = 0
               /\ tx[s].ids \cap HeldRows(s) = {}
<1> DEFINE n == Len(rows)
           old == WithRevoked(tx[s].ids)
<1>1. PICK mfa \in BOOLEAN : SessionIssued(s, mfa)
  BY DEF SignsIn
<1> DEFINE row == [family |-> n + 1, replaced_by |-> 0, revoked |-> FALSE, mfa |-> mfa]
<1>2. n \in Nat /\ MaxRows \in Nat /\ n < MaxRows
  BY <1>1, RowsAre, SessionsAssumption DEF SessionIssued
<1>3. row \in RefreshSession /\ row.family = n + 1 /\ row.replaced_by = 0
  BY <1>2 DEF RefreshSession
<1>4. /\ old \in Seq(RefreshSession) /\ Len(old) = n
      /\ \A k \in Row : /\ old[k].family = rows[k].family
                        /\ old[k].replaced_by = rows[k].replaced_by
                        /\ old[k].revoked <=> rows[k].revoked \/ k \in tx[s].ids
  BY RevokedFields DEF RowsKept
<1>5. rows' = Append(old, row) /\ tx[s].ids \cap HeldRows(s) = {}
  BY <1>1 DEF SessionIssued
<1> HIDE DEF row, old
<1>6. /\ rows' \in Seq(RefreshSession) /\ Len(rows') = n + 1
      /\ \A k \in 1..n : rows'[k] = old[k]
      /\ rows'[n + 1] = row
  BY <1>3, <1>4, <1>5, Appended
<1> QED
  BY <1>2, <1>3, <1>4, <1>5, <1>6 DEF Row

\* A renewal links the row it holds to a new last row of the same family.
LEMMA RotatedFields ==
    ASSUME RowsTyped, NEW s \in Client, CommitRotation(s), tx[s].row \in Row
    PROVE  LET n == Len(rows)
               k == tx[s].row
           IN  /\ rows' \in Seq(RefreshSession) /\ Len(rows') = n + 1 /\ n + 1 <= MaxRows
               /\ \A j \in Row : /\ rows'[j].family = rows[j].family
                                 /\ rows'[j].replaced_by = IF j = k THEN n + 1
                                                           ELSE rows[j].replaced_by
                                 /\ rows'[j].revoked <=> rows[j].revoked
               /\ rows'[n + 1].family = rows[k].family /\ rows'[n + 1].replaced_by = 0
<1> DEFINE n == Len(rows)
<1>1. PICK k \in Row : k = tx[s].row
  OBVIOUS
<1> DEFINE link == [rows[k] EXCEPT !.replaced_by = n + 1]
           last == [rows[k] EXCEPT !.replaced_by = 0, !.revoked = FALSE]
           old  == [rows EXCEPT ![k] = link]
<1>2. n \in Nat /\ MaxRows \in Nat /\ n < MaxRows /\ rows[k] \in RefreshSession /\ k \in 1..n
  BY RowsAre, SessionsAssumption DEF CommitRotation, Row
<1>3. /\ link \in RefreshSession /\ link.family = rows[k].family
      /\ link.replaced_by = n + 1 /\ (link.revoked <=> rows[k].revoked)
  BY <1>2 DEF RefreshSession
<1>4. last \in RefreshSession /\ last.family = rows[k].family /\ last.replaced_by = 0
  <2> DEFINE half == [rows[k] EXCEPT !.replaced_by = 0]
  <2>1. half \in RefreshSession /\ half.family = rows[k].family /\ half.replaced_by = 0
    BY <1>2 DEF RefreshSession
  <2>2. last = [half EXCEPT !.revoked = FALSE]
    OBVIOUS
  <2> HIDE DEF half, last
  <2> QED
    BY <2>1, <2>2 DEF RefreshSession
<1>5. rows' = Append(old, last)
  BY <1>1 DEF CommitRotation
<1> HIDE DEF link, last
<1>6. /\ old \in Seq(RefreshSession) /\ Len(old) = n
      /\ \A j \in 1..n : old[j] = IF j = k THEN link ELSE rows[j]
  BY <1>2, <1>3, ExceptSeq DEF RowsTyped
<1> HIDE DEF old
<1>7. /\ rows' \in Seq(RefreshSession) /\ Len(rows') = n + 1
      /\ \A j \in 1..n : rows'[j] = old[j]
      /\ rows'[n + 1] = last
  BY <1>4, <1>5, <1>6, Appended
<1> QED
  BY <1>1, <1>2, <1>3, <1>4, <1>6, <1>7 DEF Row

\* A step that adds no row and takes no row from under a renewal.
LEMMA KeptRowsKeep ==
    ASSUME SessionInv, NEW s \in Client, Goes(s), RowsKept(rows'),
           \A t \in Client \ {s} : tx[t].at = "rotate" =>
               (rows'[tx[t].row].revoked => rows[tx[t].row].revoked),
           tx'[s].at = "rotate" =>
               tx'[s].row \in Row /\ rows'[tx'[s].row].replaced_by = 0 /\ ~rows'[tx'[s].row].revoked
    PROVE  SessionInv'
<1>1. RowsTyped' /\ Row' = Row /\ TxTyped'
  BY DEF SessionInv, RowsKept, RowsTyped, Row, Goes, TxTyped
<1>2. LocksApart'
  BY LocksStayApart DEF SessionInv
<1>3. RenewsHead'
  <2> SUFFICES ASSUME NEW t \in Client, tx'[t].at = "rotate"
               PROVE  /\ tx'[t].row \in Row /\ rows'[tx'[t].row].replaced_by = 0
                      /\ ~rows'[tx'[t].row].revoked
    BY <1>1 DEF RenewsHead
  <2> QED
    BY DEF SessionInv, RenewsHead, RowsKept, Goes, Untouched
<1>4. Lines'
  <2>1. Lines /\ Len(rows') = Len(rows)
    BY DEF SessionInv, RowsKept
  <2>2. \A k \in Row : /\ rows'[k].family = rows[k].family
                       /\ rows'[k].replaced_by = rows[k].replaced_by
    BY DEF RowsKept
  <2> QED
    BY <1>1, <2>1, <2>2 DEF Lines
<1> QED
  BY <1>1, <1>2, <1>3, <1>4 DEF SessionInv

LEMMA AsksKeep ==
    ASSUME SessionInv, NEW s \in Client, Asks(s)
    PROVE  SessionInv'
<1>1. Goes(s) /\ rows' = rows /\ RowsKept(rows')
  BY DEF Asks, RowsKept, SessionInv, RowsTyped
<1> QED
  BY <1>1, KeptRowsKeep DEF Asks, Current

LEMMA RevokesKeep ==
    ASSUME SessionInv, NEW s \in Client, Revokes(s)
    PROVE  SessionInv'
<1>1. PICK S : S \cap HeldRows(s) = {} /\ rows' = WithRevoked(S)
  BY DEF Revokes
<1>2. RowsKept(rows') /\ \A k \in Row : rows'[k].revoked <=> rows[k].revoked \/ k \in S
  BY <1>1, RevokedFields DEF SessionInv
<1>3. ASSUME NEW t \in Client \ {s}, tx[t].at = "rotate", rows'[tx[t].row].revoked
      PROVE  rows[tx[t].row].revoked
  BY <1>1, <1>2, <1>3 DEF SessionInv, RenewsHead, HeldRows
<1> QED
  BY <1>2, <1>3, KeptRowsKeep, IdleTyped DEF Revokes

LEMMA MarksKeep ==
    ASSUME SessionInv, NEW s \in Client, Marks(s)
    PROVE  SessionInv'
<1>1. RowsKept(rows') /\ \A k \in Row : rows'[k].revoked <=> rows[k].revoked
  BY MarkedFields DEF Marks, SessionInv
<1> QED
  BY <1>1, KeptRowsKeep, IdleTyped DEF Marks, SessionInv, RenewsHead

LEMMA SignsInKeeps ==
    ASSUME SessionInv, NEW s \in Client, SignsIn(s)
    PROVE  SessionInv'
<1> DEFINE n == Len(rows)
<1>1. /\ rows' \in Seq(RefreshSession) /\ Len(rows') = n + 1 /\ n + 1 <= MaxRows
      /\ \A k \in Row : /\ rows'[k].family = rows[k].family
                        /\ rows'[k].replaced_by = rows[k].replaced_by
                        /\ rows'[k].revoked <=> rows[k].revoked \/ k \in tx[s].ids
      /\ rows'[n + 1].family = n + 1 /\ rows'[n + 1].replaced_by = 0
      /\ tx[s].ids \cap HeldRows(s) = {}
  BY SignedInFields DEF SessionInv
<1>2. /\ n \in Nat
      /\ \A k \in Row : rows[k].family \in Nat \ {0} /\ rows[k].replaced_by \in Nat
  BY RowsAre DEF SessionInv
<1>3. Row = 1..n /\ Row' = 1..n + 1 /\ n + 1 \notin Row /\ Row' = Row \cup {n + 1}
  BY <1>1, <1>2 DEF Row
<1>4. RowsTyped' /\ TxTyped'
  BY <1>1 DEF RowsTyped, TxTyped, SignsIn, Goes
<1>5. LocksApart'
  BY LocksStayApart DEF SessionInv, SignsIn
<1>6. RenewsHead'
  <2> SUFFICES ASSUME NEW t \in Client, tx'[t].at = "rotate"
               PROVE  /\ tx'[t].row \in Row' /\ rows'[tx'[t].row].replaced_by = 0
                      /\ ~rows'[tx'[t].row].revoked
    BY DEF RenewsHead
  <2>1. t # s /\ tx'[t] = tx[t]
    BY IdleTyped DEF SignsIn, Goes, Untouched
  <2>2. tx[t].row \in Row /\ rows[tx[t].row].replaced_by = 0 /\ ~rows[tx[t].row].revoked
    BY <2>1 DEF SessionInv, RenewsHead
  <2>3. tx[t].row \notin tx[s].ids
    BY <1>1, <2>1 DEF HeldRows
  <2> QED
    BY <1>1, <1>3, <2>1, <2>2, <2>3
<1>7. Lines'
  <2> DEFINE m == n + 1
  <2>1. Lines
    BY DEF SessionInv
  <2>2. \A k \in Row : rows'[k].family <= n /\ rows'[k].replaced_by <= n /\ k <= n
    BY <1>1, <1>3, <2>1 DEF Lines
  <2>3. m \in Nat /\ m > n /\ m > 0
    BY <1>2
  <2>4. Len(rows') = m /\ rows'[m].family = m /\ rows'[m].replaced_by = 0
    BY <1>1
  <2> HIDE DEF m
  <2>5. Row' = Row \cup {m} /\ Row \subseteq Nat \ {0} /\ n \in Nat
    BY <1>2, <1>3 DEF m
  <2>6. \A k \in Row : rows'[k].family \in Nat /\ rows'[k].replaced_by \in Nat
    BY <1>1, <1>2
  <2>7. \A k \in Row' : rows'[k].family <= m /\ rows'[k].replaced_by <= m
    BY <1>2, <2>2, <2>3, <2>4, <2>5, <2>6
  <2>8. ASSUME NEW j \in Row', NEW k \in Row', rows'[j].replaced_by = k
        PROVE  k > j /\ rows'[k].family = rows'[j].family
    <3>1. j # m /\ k # m
      <4>1. k # 0
        BY <2>3, <2>5
      <4> QED
        BY <2>2, <2>3, <2>4, <2>5, <2>6, <2>8, <4>1
    <3> QED
      BY <1>1, <2>1, <2>5, <2>8, <3>1 DEF Lines
  <2>9. ASSUME NEW k \in Row'
        PROVE  \E h \in Row' : rows'[h].family = rows'[k].family /\ rows'[h].replaced_by = 0
    BY <1>1, <2>1, <2>4, <2>5 DEF Lines
  <2>10. ASSUME NEW h \in Row', NEW k \in Row', rows'[h].family = rows'[k].family,
                rows'[h].replaced_by = 0, rows'[k].replaced_by = 0
         PROVE  h = k
    BY <1>1, <2>1, <2>2, <2>3, <2>4, <2>5, <2>6, <2>10 DEF Lines
  <2> QED
    BY <2>4, <2>7, <2>8, <2>9, <2>10 DEF Lines
<1> QED
  BY <1>4, <1>5, <1>6, <1>7 DEF SessionInv

LEMMA RotationKeeps ==
    ASSUME SessionInv, NEW s \in Client, CommitRotation(s), Goes(s), tx'[s] = Idle
    PROVE  SessionInv'
<1> DEFINE m == Len(rows) + 1
<1>1. PICK k \in Row : k = tx[s].row /\ rows[k].replaced_by = 0
  BY DEF SessionInv, RenewsHead, CommitRotation
<1>2. /\ rows' \in Seq(RefreshSession) /\ Len(rows') = m /\ m <= MaxRows
      /\ \A j \in Row : /\ rows'[j].family = rows[j].family
                        /\ rows'[j].replaced_by = IF j = k THEN m ELSE rows[j].replaced_by
                        /\ rows'[j].revoked <=> rows[j].revoked
      /\ rows'[m].family = rows[k].family /\ rows'[m].replaced_by = 0
  BY <1>1, RotatedFields DEF SessionInv
<1>3. /\ m \in Nat /\ Row' = Row \cup {m} /\ Row \subseteq Nat \ {0}
      /\ \A j \in Row : j < m
      /\ \A j \in Row : rows[j].family \in Nat \ {0} /\ rows[j].replaced_by \in Nat
  <2>1. /\ Len(rows) \in Nat
        /\ \A j \in Row : rows[j].family \in Nat \ {0} /\ rows[j].replaced_by \in Nat
    BY RowsAre DEF SessionInv
  <2>2. Row = 1..Len(rows) /\ Row' = 1..m
    BY <1>2 DEF Row
  <2> QED
    BY <2>1, <2>2
<1>4. Lines /\ LocksApart
  BY DEF SessionInv
<1>5. \A j \in Row : rows[j].family < m /\ rows[j].replaced_by < m
  BY <1>3, <1>4, RowsAre DEF Lines, SessionInv
<1> HIDE DEF m
<1>6. RowsTyped' /\ TxTyped' /\ LocksApart'
  BY <1>2, LocksStayApart DEF RowsTyped, TxTyped, Goes, SessionInv
<1>7. RenewsHead'
  <2> SUFFICES ASSUME NEW t \in Client, tx'[t].at = "rotate"
               PROVE  /\ tx'[t].row \in Row' /\ rows'[tx'[t].row].replaced_by = 0
                      /\ ~rows'[tx'[t].row].revoked
    BY DEF RenewsHead
  <2>1. t # s /\ tx'[t] = tx[t]
    BY IdleTyped DEF Goes, Untouched
  <2>2. tx[t].row \in Row /\ rows[tx[t].row].replaced_by = 0 /\ ~rows[tx[t].row].revoked
    BY <2>1 DEF SessionInv, RenewsHead
  <2>3. tx[t].row # k
    BY <1>1, <1>3, <1>4, <2>1 DEF LocksApart, Apart
  <2> QED
    BY <1>2, <1>3, <2>1, <2>2, <2>3
<1>8. Lines'
  <2>1. \A j \in Row' : rows'[j].family <= m /\ rows'[j].replaced_by <= m
    BY <1>2, <1>3, <1>5
  <2>2. ASSUME NEW i \in Row', NEW j \in Row', rows'[i].replaced_by = j
        PROVE  j > i /\ rows'[j].family = rows'[i].family
    <3>1. i \in Row
      BY <1>2, <1>3, <2>2
    <3>2. CASE i = k
      BY <1>2, <1>3, <2>2, <3>1, <3>2
    <3>3. CASE i # k
      <4>1. rows[i].replaced_by = j /\ j # m
        BY <1>2, <1>5, <2>2, <3>1, <3>3
      <4> QED
        BY <1>2, <1>3, <1>4, <3>1, <4>1 DEF Lines
    <3> QED
      BY <3>2, <3>3
  <2>3. ASSUME NEW j \in Row'
        PROVE  \E h \in Row' : rows'[h].family = rows'[j].family /\ rows'[h].replaced_by = 0
    <3>1. PICK h \in Row :
             rows[h].family = rows'[j].family /\ rows[h].replaced_by = 0
      <4>1. CASE j = m
        BY <1>1, <1>2, <4>1
      <4>2. CASE j \in Row
        BY <1>2, <1>4, <4>2 DEF Lines
      <4> QED
        BY <1>3, <4>1, <4>2
    <3>2. CASE h = k
      BY <1>2, <1>3, <3>1, <3>2
    <3>3. CASE h # k
      BY <1>2, <1>3, <3>1, <3>3
    <3> QED
      BY <3>2, <3>3
  <2>4. ASSUME NEW h \in Row', NEW j \in Row', rows'[h].family = rows'[j].family,
               rows'[h].replaced_by = 0, rows'[j].replaced_by = 0
        PROVE  h = j
    <3>1. h # k /\ j # k
      BY <1>2, <1>3, <2>4
    <3>2. \A i \in Row : i # k /\ rows'[i].replaced_by = 0 => rows[i].family # rows[k].family
      BY <1>1, <1>2, <1>4 DEF Lines
    <3> QED
      BY <1>2, <1>3, <1>4, <2>4, <3>1, <3>2 DEF Lines
  <2> QED
    BY <1>2, <2>1, <2>2, <2>3, <2>4 DEF Lines
<1> QED
  BY <1>6, <1>7, <1>8 DEF SessionInv

LEMMA StillKeeps ==
    ASSUME SessionInv, Still
    PROVE  SessionInv'
  BY DEF SessionInv, Still, RowsTyped, TxTyped, LocksApart, RenewsHead, Lines, Row, Apart

LEMMA SessionsKeep ==
    ASSUME SessionInv, IdentityTypeOK, [Next]_vars
    PROVE  SessionInv'
<1>1. ASSUME NEW s \in Client, Kinds(s) PROVE SessionInv'
  BY <1>1, AsksKeep, RevokesKeep, MarksKeep, SignsInKeeps, RotationKeeps DEF Kinds
<1> QED
  BY <1>1, StepKinds, StillKeeps

\* The line of a family in the words of the property.
LEMMA LinesAreOne ==
    ASSUME SessionInv
    PROVE  OneLineOfSessions
<1>1. RowsTyped /\ Lines
  BY DEF SessionInv
<1>2. ASSUME NEW f \in {rows[k].family : k \in Row}
      PROVE  Cardinality({k \in Row : rows[k].family = f /\ rows[k].replaced_by = 0}) = 1
  <2> DEFINE heads == {k \in Row : rows[k].family = f /\ rows[k].replaced_by = 0}
  <2>1. PICK h \in Row : rows[h].family = f /\ rows[h].replaced_by = 0
    BY <1>1 DEF Lines
  <2>2. heads = {h}
    BY <1>1, <2>1 DEF Lines
  <2> QED
    BY <2>2, FS_Singleton
<1> QED
  BY <1>1, <1>2 DEF OneLineOfSessions, Lines

-----------------------------------------------------------------------------
(* A buyer's sessions stay within their limit                              *)

\* A set of numbers that is not empty has a least one: no segment 0..m with m
\* in the set is smallest otherwise.
LEMMA LeastNumber ==
    ASSUME NEW S, S \subseteq Nat, S # {}
    PROVE  \E m \in S : \A k \in S : m <= k
<1> DEFINE Below == {0..m : m \in S}
<1>1. Below \subseteq FiniteSubsetsOf(Nat) /\ Below # {}
  <2>1. \A m \in S : IsFiniteSet(0..m) /\ 0..m \in SUBSET Nat
    BY FS_Interval
  <2> QED
    BY <2>1 DEF FiniteSubsetsOf
<1>2. \E x \in Below : \A y \in Below : ~(<<y, x>> \in StrictSubsetOrdering(Nat))
  <2> HIDE DEF Below
  <2> QED
    BY <1>1, FS_StrictSubsetOrderingWellFounded, WFMin
<1>3. PICK m \in S : \A y \in Below : ~(<<y, 0..m>> \in StrictSubsetOrdering(Nat))
  BY <1>2
<1>4. ASSUME NEW k \in S, k < m PROVE FALSE
  <2>1. 0..k \subseteq 0..m /\ m \in 0..m /\ m \notin 0..k
    BY <1>4
  <2>2. <<0..k, 0..m>> \in StrictSubsetOrdering(Nat)
    BY <2>1 DEF StrictSubsetOrdering
  <2> QED
    BY <1>3, <2>2
<1> QED
  BY <1>4

LEMMA SomeRows ==
    ASSUME RowsTyped, NEW B, B \subseteq Row, NEW A, A \subseteq B
    PROVE  /\ IsFiniteSet(A) /\ Cardinality(A) \in Nat /\ Cardinality(B) \in Nat
           /\ Cardinality(A) <= Cardinality(B)
<1>1. IsFiniteSet(Row)
  BY RowsAre, FS_Interval DEF Row
<1>2. IsFiniteSet(B) /\ IsFiniteSet(A)
  BY <1>1, FS_Subset
<1> QED
  BY <1>2, FS_Subset, FS_CardinalityType

\* The sessions that a sign-in revokes leave room for the one it adds.
LEMMA SurplusMakesRoom ==
    ASSUME RowsTyped, Cardinality(Active) <= MaxSessions
    PROVE  Cardinality(Active \ Surplus) < MaxSessions
<1> DEFINE n == Cardinality(Active)
           older(k) == Cardinality({j \in Active : j < k})
<1>1. /\ Active \subseteq Row /\ Row \subseteq Nat /\ IsFiniteSet(Active) /\ n \in Nat
      /\ MaxSessions \in Nat \ {0}
  BY RowsAre, SomeRows, SessionsAssumption DEF Active
<1>2. Cardinality(Active \ Surplus) \in Nat /\ Cardinality(Active \ Surplus) <= n
  BY <1>1, SomeRows
<1>3. CASE n < MaxSessions
  BY <1>1, <1>2, <1>3
<1>4. CASE n = MaxSessions
  <2>1. Active # {}
    BY <1>1, <1>4, FS_EmptySet
  <2>2. PICK k \in Active : \A j \in Active : k <= j
    BY <1>1, <2>1, LeastNumber
  <2>3. {j \in Active : j < k} = {}
    <3>1. \A j \in Active : j \in Nat /\ k \in Nat /\ k <= j
      BY <1>1, <2>2
    <3>2. \A j \in Active : ~(j < k)
      BY <3>1
    <3> QED
      BY <3>2
  <2>4. older(k) = 0
    BY <2>3, FS_EmptySet
  <2>5. older(k) < 1 + n - MaxSessions
    BY <1>1, <1>4, <2>4
  <2>6. k \in Unrevoked(Family(k))
    BY <1>1, <2>2 DEF Active, Current, Unrevoked, Family
  <2>7. Surplus = UNION {Unrevoked(Family(j)) :
                           j \in {i \in Active : older(i) < 1 + n - MaxSessions}}
    BY DEF Surplus, Active
  <2>8. k \in Surplus
    BY <2>2, <2>5, <2>6, <2>7
  <2>9. Active \ Surplus \subseteq Active \ {k} /\ Active \ {k} \subseteq Row
    BY <1>1, <2>8
  <2>10. Cardinality(Active \ Surplus) <= Cardinality(Active \ {k})
    BY <2>9, SomeRows
  <2>11. Cardinality(Active \ {k}) = n - 1
    BY <1>1, <2>2, FS_RemoveElement
  <2> QED
    BY <1>1, <1>2, <1>4, <2>10, <2>11
<1> QED
  BY <1>1, <1>3, <1>4

\* A step that makes no session active.
LEMMA FewerKeepRoom ==
    ASSUME SessionInv, RoomMade, account'.kind = account.kind,
           Active' \subseteq Active,
           \A t \in Client : tx'[t].at \in {"login", "phone"} =>
               \/ tx'[t] = tx[t]
               \/ tx'[t].ids = Surplus /\ Active' = Active
    PROVE  RoomMade'
<1> SUFFICES ASSUME account.kind # "owner"
             PROVE  /\ \A t \in Client : tx'[t].at \in {"login", "phone"} =>
                         Cardinality(Active' \ tx'[t].ids) < MaxSessions
                    /\ Cardinality(Active') <= MaxSessions
  BY DEF RoomMade
<1>1. RowsTyped /\ Active \subseteq Row /\ MaxSessions \in Nat
  BY SessionsAssumption DEF SessionInv, Active
<1>2. Cardinality(Active) <= MaxSessions
  BY DEF RoomMade
<1>3. Cardinality(Active') <= MaxSessions
  BY <1>1, <1>2, SomeRows
<1>4. ASSUME NEW t \in Client, tx'[t].at \in {"login", "phone"}
      PROVE  Cardinality(Active' \ tx'[t].ids) < MaxSessions
  <2>1. CASE tx'[t] = tx[t]
    <3>1. Cardinality(Active \ tx[t].ids) < MaxSessions
      BY <1>4, <2>1 DEF RoomMade
    <3>2. Active' \ tx[t].ids \subseteq Active \ tx[t].ids /\ Active \ tx[t].ids \subseteq Row
      BY <1>1
    <3>3. /\ Cardinality(Active' \ tx[t].ids) \in Nat /\ Cardinality(Active \ tx[t].ids) \in Nat
          /\ Cardinality(Active' \ tx[t].ids) <= Cardinality(Active \ tx[t].ids)
      BY <1>1, <3>2, SomeRows
    <3> QED
      BY <1>1, <2>1, <3>1, <3>3
  <2>2. CASE tx'[t].ids = Surplus /\ Active' = Active
    BY <1>1, <1>2, <2>2, SurplusMakesRoom
  <2> QED
    BY <1>4, <2>1, <2>2
<1> QED
  BY <1>3, <1>4

\* A step that adds one row, while no other sign-in is under way.
LEMMA OneMoreKeepsRoom ==
    ASSUME SessionInv, account'.kind = account.kind,
           NEW S, S \subseteq Row, NEW m, Active' \subseteq S \cup {m},
           account.kind # "owner" => Cardinality(S) < MaxSessions,
           \A t \in Client : tx'[t].at \notin {"login", "phone"}
    PROVE  RoomMade'
<1> SUFFICES ASSUME account.kind # "owner" PROVE Cardinality(Active') <= MaxSessions
  BY DEF RoomMade
<1>1. IsFiniteSet(S) /\ Cardinality(S) \in Nat /\ MaxSessions \in Nat
  BY SomeRows, SessionsAssumption DEF SessionInv
<1>2. IsFiniteSet(S \cup {m}) /\ Cardinality(S \cup {m}) \in Nat
      /\ Cardinality(S \cup {m}) <= Cardinality(S) + 1
  <2>1. /\ IsFiniteSet(S \cup {m})
        /\ Cardinality(S \cup {m}) = IF m \in S THEN Cardinality(S) ELSE Cardinality(S) + 1
    BY <1>1, FS_AddElement
  <2> QED
    BY <1>1, <2>1
<1>3. Cardinality(Active') \in Nat /\ Cardinality(Active') <= Cardinality(S \cup {m})
  BY <1>2, FS_Subset, FS_CardinalityType
<1> QED
  BY <1>1, <1>2, <1>3

LEMMA SignInKeepsRoom ==
    ASSUME SessionInv, RoomMade, account'.kind = account.kind,
           \A t \in Client : tx[t].at = "mfa" => account.kind = "owner",
           NEW s \in Client, SignsIn(s)
    PROVE  RoomMade'
<1> DEFINE m == Len(rows) + 1
<1>1. /\ Len(rows') = m
      /\ \A k \in Row : /\ rows'[k].family = rows[k].family
                        /\ rows'[k].replaced_by = rows[k].replaced_by
                        /\ rows'[k].revoked <=> rows[k].revoked \/ k \in tx[s].ids
  BY SignedInFields DEF SessionInv
<1>2. Row' = Row \cup {m} /\ m \in Nat
  BY <1>1, RowsAre DEF Row, SessionInv
<1>3. Active' \subseteq (Active \ tx[s].ids) \cup {m}
  BY <1>1, <1>2 DEF Active, Current, SignsIn
<1>4. \A t \in Client : tx'[t].at \notin {"login", "phone"} \/ tx[s].at = "mfa"
  BY IdleTyped DEF SignsIn, Goes, Untouched, SessionInv, LocksApart, Apart, UserLock
<1>5. account.kind # "owner" => Cardinality(Active \ tx[s].ids) < MaxSessions
  BY DEF RoomMade, SignsIn
<1>6. CASE account.kind = "owner"
  BY <1>6 DEF RoomMade
<1>7. CASE account.kind # "owner"
  <2>1. \A t \in Client : tx'[t].at \notin {"login", "phone"}
    BY <1>4, <1>7
  <2>2. Active \ tx[s].ids \subseteq Row
    BY DEF Active
  <2> HIDE DEF m
  <2> QED
    BY <1>3, <1>5, <2>1, <2>2, OneMoreKeepsRoom
<1> QED
  BY <1>6, <1>7

LEMMA RotationKeepsRoom ==
    ASSUME SessionInv, RoomMade, account'.kind = account.kind,
           NEW s \in Client, CommitRotation(s), Goes(s), tx'[s] = Idle
    PROVE  RoomMade'
<1> DEFINE m == Len(rows) + 1
<1>1. PICK k \in Row : k = tx[s].row /\ rows[k].replaced_by = 0 /\ ~rows[k].revoked
  BY DEF SessionInv, RenewsHead, CommitRotation
<1>2. /\ Len(rows') = m
      /\ \A j \in Row : /\ rows'[j].family = rows[j].family
                        /\ rows'[j].replaced_by = IF j = k THEN m ELSE rows[j].replaced_by
                        /\ rows'[j].revoked <=> rows[j].revoked
      /\ rows'[m].family = rows[k].family
  BY <1>1, RotatedFields DEF SessionInv
<1>3. Row' = Row \cup {m} /\ m \in Nat /\ m # 0 /\ lapsed' = lapsed
  BY <1>2, RowsAre DEF Row, SessionInv, CommitRotation
<1>4. \A t \in Client : tx'[t].at \notin {"login", "phone"}
  BY IdleTyped DEF Goes, Untouched, CommitRotation, UserFree
<1> HIDE DEF m
<1>5. RowsTyped /\ Active \subseteq Row /\ IsFiniteSet(Active) /\ MaxSessions \in Nat
  BY SomeRows, SessionsAssumption DEF SessionInv, Active
<1>6. CASE k \in Active
  <2>1. Active' \subseteq (Active \ {k}) \cup {m}
    BY <1>2, <1>3 DEF Active, Current
  <2>2. account.kind # "owner" => Cardinality(Active) <= MaxSessions
    BY DEF RoomMade
  <2>3. Cardinality(Active \ {k}) = Cardinality(Active) - 1 /\ Cardinality(Active) \in Nat
    BY <1>5, <1>6, FS_RemoveElement, FS_CardinalityType
  <2>4. account.kind # "owner" => Cardinality(Active \ {k}) < MaxSessions
    BY <1>5, <2>2, <2>3
  <2>5. Active \ {k} \subseteq Row
    BY <1>5
  <2> QED
    BY <1>4, <2>1, <2>4, <2>5, OneMoreKeepsRoom
<1>7. CASE k \notin Active
  <2>1. rows[k].family \in lapsed
    BY <1>1, <1>7 DEF Active, Current
  <2>2. Active' \subseteq Active
    BY <1>1, <1>2, <1>3, <2>1 DEF Active, Current
  <2> QED
    BY <1>4, <2>2, FewerKeepRoom
<1> QED
  BY <1>6, <1>7

LEMMA RoomKeeps ==
    ASSUME SessionInv, IdentityTypeOK, RoomMade, account'.kind = account.kind,
           \A t \in Client : tx[t].at = "mfa" => account.kind = "owner", [Next]_vars
    PROVE  RoomMade'
<1>1. ASSUME Still PROVE RoomMade'
  <2>1. Active' \subseteq Active /\ tx' = tx
    BY <1>1 DEF Still, Active, Current, Row
  <2> QED
    BY <2>1, FewerKeepRoom
<1>2. ASSUME NEW s \in Client, Asks(s) PROVE RoomMade'
  <2>1. Active' = Active
    BY <1>2 DEF Asks, Active, Current, Row
  <2>2. \A t \in Client : tx'[t] = tx[t] \/ t = s
    BY <1>2 DEF Asks, Goes, Untouched
  <2> QED
    BY <1>2, <2>1, <2>2, FewerKeepRoom DEF Asks
<1>3. ASSUME NEW s \in Client, Revokes(s) \/ Marks(s) PROVE RoomMade'
  <2>1. RowsKept(rows') /\ lapsed' = lapsed /\ Row' = Row
    <3>1. RowsTyped
      BY DEF SessionInv
    <3>2. ASSUME Revokes(s) PROVE RowsKept(rows') /\ lapsed' = lapsed
      BY <3>1, <3>2, RevokedFields DEF Revokes
    <3>3. ASSUME Marks(s) PROVE RowsKept(rows') /\ lapsed' = lapsed
      BY <3>1, <3>3, MarkedFields DEF Marks
    <3>4. RowsKept(rows') /\ lapsed' = lapsed
      BY <1>3, <3>2, <3>3
    <3> QED
      BY <3>4 DEF RowsKept, Row
  <2>2. Active' \subseteq Active
    BY <2>1 DEF RowsKept, Active, Current
  <2>3. \A t \in Client : tx'[t] = tx[t] \/ tx'[t] = Idle
    BY <1>3 DEF Revokes, Marks, Goes, Untouched
  <2> QED
    BY <2>2, <2>3, IdleTyped, FewerKeepRoom
<1> QED
  BY <1>1, <1>2, <1>3, StepKinds, SignInKeepsRoom, RotationKeepsRoom DEF Kinds

-----------------------------------------------------------------------------
(* Tokens and challenges after a step                                      *)

\* Tokens are added, keep their purpose, and once over stay over.
TokensKept(new) ==
    /\ new \in Seq(OneTimeToken) /\ Len(new) <= MaxTokens
    /\ DOMAIN tokens \subseteq DOMAIN new
    /\ \A k \in DOMAIN tokens : /\ new[k].purpose = tokens[k].purpose
                                /\ tokens[k].over => new[k].over

LEMMA SupersededFields ==
    ASSUME SessionInv, IdentityTypeOK, NEW purpose
    PROVE  /\ Superseded(purpose) \in Seq(OneTimeToken)
           /\ Len(Superseded(purpose)) = Len(tokens)
           /\ DOMAIN Superseded(purpose) = DOMAIN tokens
           /\ \A k \in DOMAIN tokens :
                /\ Superseded(purpose)[k].purpose = tokens[k].purpose
                /\ Superseded(purpose)[k].over <=> tokens[k].over \/ tokens[k].purpose = purpose
<1> DEFINE n == Len(tokens)
           new(k) == [tokens[k] EXCEPT !.over = @ \/ k \in Open(purpose)]
<1>1. n \in Nat /\ DOMAIN tokens = 1..n /\ tokens \in [1..n -> OneTimeToken]
  BY KeysAreNumbers
<1>2. ASSUME NEW k \in 1..n
      PROVE  /\ new(k) \in OneTimeToken /\ new(k).purpose = tokens[k].purpose
             /\ new(k).over <=> tokens[k].over \/ tokens[k].purpose = purpose
  <2>1. tokens[k] \in OneTimeToken /\ tokens[k].over \in BOOLEAN
    BY <1>1 DEF OneTimeToken
  <2>2. (tokens[k].over \/ k \in Open(purpose)) \in BOOLEAN
    OBVIOUS
  <2>3. /\ new(k) \in OneTimeToken /\ new(k).purpose = tokens[k].purpose
        /\ new(k).over <=> tokens[k].over \/ k \in Open(purpose)
    BY <2>1, <2>2 DEF OneTimeToken
  <2>4. k \in Open(purpose) <=> tokens[k].purpose = purpose /\ ~tokens[k].over
    BY <1>1 DEF Open
  <2> QED
    BY <2>3, <2>4
<1>3. Superseded(purpose) = [k \in 1..n |-> new(k)]
  BY <1>1 DEF Superseded
<1> HIDE DEF new, n
<1>4. Superseded(purpose) \in [1..n -> OneTimeToken]
  BY <1>2, <1>3
<1>5. /\ Superseded(purpose) \in Seq(OneTimeToken) /\ Len(Superseded(purpose)) = n
      /\ DOMAIN Superseded(purpose) = 1..n
  BY <1>1, <1>4, SegmentIsSeq
<1> QED
  BY <1>1, <1>2, <1>3, <1>5 DEF n

LEMMA SupersededKept ==
    ASSUME SessionInv, IdentityTypeOK, Len(tokens) <= MaxTokens, NEW purpose
    PROVE  TokensKept(Superseded(purpose))
  BY SupersededFields DEF TokensKept

LEMMA IssuedKept ==
    ASSUME SessionInv, IdentityTypeOK, NEW s, NEW purpose \in Mailed, TokenIssued(s, purpose)
    PROVE  TokensKept(tokens')
<1> DEFINE old == Superseded(purpose)
           token == [purpose |-> purpose, over |-> FALSE]
<1>1. /\ old \in Seq(OneTimeToken) /\ Len(old) = Len(tokens) /\ DOMAIN tokens = 1..Len(tokens)
      /\ \A k \in DOMAIN tokens : old[k].purpose = tokens[k].purpose
                                  /\ (tokens[k].over => old[k].over)
  BY SupersededFields, KeysAreNumbers
<1>2. token \in OneTimeToken
  BY DEF OneTimeToken, Mailed
<1>3. tokens' = Append(old, token) /\ Len(tokens) < MaxTokens
  BY DEF TokenIssued
<1>4. Len(tokens) \in Nat /\ MaxTokens \in Nat
  BY KeysAreNumbers, IdentityAssumption
<1> HIDE DEF old, token
<1>5. /\ tokens' \in Seq(OneTimeToken) /\ Len(tokens') = Len(old) + 1
      /\ DOMAIN tokens' = 1..Len(old) + 1
      /\ \A k \in 1..Len(old) : tokens'[k] = old[k]
  BY <1>1, <1>2, <1>3, Appended
<1> QED
  BY <1>1, <1>3, <1>4, <1>5 DEF TokensKept

LEMMA OverKept ==
    ASSUME SessionInv, IdentityTypeOK, Len(tokens) <= MaxTokens, NEW k \in DOMAIN tokens
    PROVE  /\ TokensKept([tokens EXCEPT ![k].over = TRUE])
           /\ [tokens EXCEPT ![k].over = TRUE][k].over
<1> DEFINE token == [tokens[k] EXCEPT !.over = TRUE]
           new == [tokens EXCEPT ![k] = token]
<1>1. /\ tokens \in Seq(OneTimeToken) /\ k \in 1..Len(tokens) /\ tokens[k] \in OneTimeToken
      /\ DOMAIN tokens = 1..Len(tokens) /\ Len(tokens) \in Nat
  BY KeysAreNumbers DEF IdentityTypeOK
<1>2. token \in OneTimeToken /\ token.purpose = tokens[k].purpose /\ token.over
  BY <1>1 DEF OneTimeToken
<1>3. [tokens EXCEPT ![k].over = TRUE] = new
  OBVIOUS
<1> HIDE DEF token
<1>4. /\ new \in Seq(OneTimeToken) /\ Len(new) = Len(tokens)
      /\ \A j \in 1..Len(tokens) : new[j] = IF j = k THEN token ELSE tokens[j]
  BY <1>1, <1>2, ExceptSeq
<1>5. DOMAIN new = 1..Len(tokens)
  BY <1>1
<1> HIDE DEF new
<1> QED
  BY <1>1, <1>2, <1>3, <1>4, <1>5 DEF TokensKept

LEMMA SameTokensKept ==
    ASSUME IdentityTypeOK, Len(tokens) <= MaxTokens, tokens' = tokens
    PROVE  TokensKept(tokens')
  BY DEF TokensKept, IdentityTypeOK

LEMMA TokensStep ==
    ASSUME SessionInv, IdentityTypeOK, Len(tokens) <= MaxTokens, MailSpent, [Next]_vars
    PROVE  TokensKept(tokens')
<1>1. ASSUME NEW s \in Client, WithMail(s) PROVE TokensKept(tokens')
  <2>1. ASSUME RegisterBuyer(s) \/ IssueEmailVerification(s) PROVE TokensKept(tokens')
    BY <2>1, IssuedKept DEF RegisterBuyer, IssueEmailVerification, Mailed
  <2>2. ASSUME RequestPasswordReset(s) PROVE TokensKept(tokens')
    BY <2>2, IssuedKept DEF RequestPasswordReset, Mailed
  <2>3. ASSUME NEW k \in DOMAIN tokens, VerifyEmail(s, k) PROVE TokensKept(tokens')
    BY <2>3, SupersededKept DEF VerifyEmail
  <2>4. ASSUME NEW k \in DOMAIN tokens, BeginResetPassword(s, k) PROVE TokensKept(tokens')
    BY <2>4, SameTokensKept DEF BeginResetPassword, mailVars
  <2>5. ASSUME CommitResetPassword(s) PROVE TokensKept(tokens')
    BY <2>5, SupersededKept DEF CommitResetPassword
  <2> QED
    BY <1>1, <2>1, <2>2, <2>3, <2>4, <2>5 DEF WithMail
<1>2. ASSUME NEW s \in Client, WithPassword(s) PROVE TokensKept(tokens')
  <2>1. ASSUME BeginLogin(s) \/ CommitLogin(s) PROVE TokensKept(tokens')
    BY <2>1, SameTokensKept DEF BeginLogin, CommitLogin, mailVars
  <2>2. ASSUME IssueMfaChallenge(s) PROVE TokensKept(tokens')
    BY <2>2, IssuedKept DEF IssueMfaChallenge, Mailed
  <2> QED
    BY <1>2, <2>1, <2>2 DEF WithPassword
<1>3. ASSUME NEW s \in Client, WithAuthenticator(s) PROVE TokensKept(tokens')
  <2>1. ASSUME \/ StartEnrollment(s) \/ BeginResetMfa(s)
               \/ \E k \in Row, c \in 0..MaxStep + 1 : ConfirmEnrollment(s, k, c)
               \/ \E k \in DOMAIN tokens, p \in Proof : BeginMfaLogin(s, k, p)
        PROVE  TokensKept(tokens')
    BY <2>1, SameTokensKept DEF StartEnrollment, BeginResetMfa, ConfirmEnrollment, BeginMfaLogin,
                                mailVars
  <2>2. ASSUME CommitMfaLogin(s) PROVE TokensKept(tokens')
    <3>1. tx[s].key \in DOMAIN tokens /\ tokens' = [tokens EXCEPT ![tx[s].key].over = TRUE]
      BY <2>2 DEF CommitMfaLogin, MailSpent, TokenLock
    <3> QED
      BY <3>1, OverKept
  <2>3. ASSUME CommitResetMfa(s) PROVE TokensKept(tokens')
    BY <2>3, SupersededKept DEF CommitResetMfa
  <2> QED
    BY <1>3, <2>1, <2>2, <2>3 DEF WithAuthenticator
<1>4. ASSUME NEW s \in Client, WithPhone(s) PROVE TokensKept(tokens')
  BY <1>4, SameTokensKept DEF WithPhone, AskForCode, OpenChallenge, CodeSent, CodeNotSent,
     ReserveAttempt, RefuseCode, AdmitCode, CommitPhoneLogin, mailVars
<1>5. ASSUME TimePasses PROVE TokensKept(tokens')
  <2>1. ASSUME NEW k \in DOMAIN tokens, TokenExpires(k) PROVE TokensKept(tokens')
    BY <2>1, OverKept DEF TokenExpires
  <2>2. ASSUME ~\E k \in DOMAIN tokens : TokenExpires(k) PROVE tokens' = tokens
    BY <1>5, <2>2 DEF TimePasses, CooldownEnds, ChallengeExpires, Tick, mailVars
  <2> QED
    BY <2>1, <2>2, SameTokensKept
<1>6. ASSUME UNCHANGED mailVars PROVE TokensKept(tokens')
  BY <1>6, SameTokensKept DEF mailVars
<1> QED
  BY <1>1, <1>2, <1>3, <1>4, <1>5, <1>6 DEF Next, vars

\* Challenges are added, and once consumed stay consumed.
ChallengesKept(new) ==
    /\ new \in Seq(PhoneOtpChallenge)
    /\ DOMAIN challenges \subseteq DOMAIN new
    /\ \A k \in DOMAIN challenges : challenges[k].consumed => new[k].consumed

LEMMA ConsumedFields ==
    ASSUME SessionInv, IdentityTypeOK, NEW S
    PROVE  /\ ChallengesKept(ConsumedIn(S))
           /\ Len(ConsumedIn(S)) = Len(challenges)
           /\ DOMAIN ConsumedIn(S) = DOMAIN challenges
           /\ \A k \in DOMAIN challenges \cap S : ConsumedIn(S)[k].consumed
<1> DEFINE n == Len(challenges)
           new(k) == [challenges[k] EXCEPT !.consumed = @ \/ k \in S]
<1>1. n \in Nat /\ DOMAIN challenges = 1..n /\ challenges \in [1..n -> PhoneOtpChallenge]
  BY KeysAreNumbers
<1>2. ASSUME NEW k \in 1..n
      PROVE  /\ new(k) \in PhoneOtpChallenge
             /\ new(k).consumed <=> challenges[k].consumed \/ k \in S
  <2>1. challenges[k] \in PhoneOtpChallenge /\ (challenges[k].consumed \/ k \in S) \in BOOLEAN
    BY <1>1
  <2> QED
    BY <2>1 DEF PhoneOtpChallenge
<1>3. ConsumedIn(S) = [k \in 1..n |-> new(k)]
  BY <1>1 DEF ConsumedIn
<1> HIDE DEF new, n
<1>4. ConsumedIn(S) \in [1..n -> PhoneOtpChallenge]
  BY <1>2, <1>3
<1>5. /\ ConsumedIn(S) \in Seq(PhoneOtpChallenge) /\ Len(ConsumedIn(S)) = n
      /\ DOMAIN ConsumedIn(S) = 1..n
  BY <1>1, <1>4, SegmentIsSeq
<1> QED
  BY <1>1, <1>2, <1>3, <1>5 DEF ChallengesKept, n

\* One challenge is written, and not opened again.
LEMMA WrittenKept ==
    ASSUME SessionInv, IdentityTypeOK, NEW k \in DOMAIN challenges,
           NEW row \in PhoneOtpChallenge, challenges[k].consumed => row.consumed
    PROVE  ChallengesKept([challenges EXCEPT ![k] = row])
<1>1. /\ challenges \in Seq(PhoneOtpChallenge) /\ k \in 1..Len(challenges)
      /\ DOMAIN challenges = 1..Len(challenges)
  BY KeysAreNumbers DEF IdentityTypeOK
<1>2. /\ [challenges EXCEPT ![k] = row] \in Seq(PhoneOtpChallenge)
      /\ \A j \in 1..Len(challenges) :
           [challenges EXCEPT ![k] = row][j] = IF j = k THEN row ELSE challenges[j]
  BY <1>1, ExceptSeq
<1>3. DOMAIN [challenges EXCEPT ![k] = row] = DOMAIN challenges
  OBVIOUS
<1> QED
  BY <1>1, <1>2, <1>3 DEF ChallengesKept

LEMMA SameChallengesKept ==
    ASSUME IdentityTypeOK, challenges' = challenges
    PROVE  ChallengesKept(challenges')
  BY DEF ChallengesKept, IdentityTypeOK

LEMMA OpenedKept ==
    ASSUME SessionInv, IdentityTypeOK, PhoneSpent, NEW s \in Client, OpenChallenge(s)
    PROVE  ChallengesKept(challenges')
<1> DEFINE old == ConsumedIn(tx[s].ids)
           row == [purpose |-> tx[s].proof[1], attempts |-> 0, cooling |-> TRUE,
                   delivered |-> FALSE, consumed |-> FALSE, expired |-> FALSE]
<1>1. ASSUME challenges' = Append(old, row) PROVE ChallengesKept(challenges')
  <2>1. /\ ChallengesKept(old) /\ Len(old) = Len(challenges) /\ DOMAIN old = DOMAIN challenges
        /\ DOMAIN challenges = 1..Len(challenges) /\ Len(challenges) \in Nat
    BY ConsumedFields, KeysAreNumbers
  <2>2. tx[s].proof \in {<<"signup">>, <<"login">>}
    BY DEF PhoneSpent, OpenChallenge
  <2>3. tx[s].proof[1] \in {"signup", "login"}
    BY <2>2
  <2>4. row \in PhoneOtpChallenge
    BY <2>3, IdentityAssumption DEF PhoneOtpChallenge
  <2> HIDE DEF old, row
  <2>5. /\ challenges' \in Seq(PhoneOtpChallenge) /\ DOMAIN challenges' = 1..Len(old) + 1
        /\ \A k \in 1..Len(old) : challenges'[k] = old[k]
    BY <1>1, <2>1, <2>4, Appended DEF ChallengesKept
  <2> QED
    BY <2>1, <2>5 DEF ChallengesKept
<1>2. challenges' = challenges \/ challenges' = Append(old, row)
  BY DEF OpenChallenge
<1> QED
  BY <1>1, <1>2, SameChallengesKept

LEMMA PhoneChallengesStep ==
    ASSUME SessionInv, IdentityTypeOK, PhoneSpent, NEW s \in Client, WithPhone(s)
    PROVE  ChallengesKept(challenges')
<1>1. ASSUME NEW purpose \in {"signup", "login"}, AskForCode(s, purpose)
      PROVE  ChallengesKept(challenges')
  BY <1>1, SameChallengesKept DEF AskForCode
<1>2. ASSUME CodeSent(s) PROVE ChallengesKept(challenges')
  <2>1. PICK k \in DOMAIN challenges : k = tx[s].key
    BY <1>2 DEF PhoneSpent, CodeSent
  <2>2. challenges[k] \in PhoneOtpChallenge
    BY KeysAreNumbers
  <2> DEFINE sent == challenges[k].delivered \/ ~challenges[k].consumed
             row == [challenges[k] EXCEPT !.delivered = sent]
  <2>3. challenges' = [challenges EXCEPT ![k] = row]
    BY <1>2, <2>1 DEF CodeSent
  <2>4. sent \in BOOLEAN
    OBVIOUS
  <2> HIDE DEF sent
  <2>5. row \in PhoneOtpChallenge /\ row.consumed = challenges[k].consumed
    BY <2>2, <2>4 DEF PhoneOtpChallenge
  <2> QED
    BY <2>3, <2>5, WrittenKept
<1>3. ASSUME CodeNotSent(s) PROVE ChallengesKept(challenges')
  BY <1>3, ConsumedFields DEF CodeNotSent
<1>4. ASSUME NEW k \in DOMAIN challenges, NEW verdict \in {"right", "wrong"},
             ReserveAttempt(s, k, verdict)
      PROVE  ChallengesKept(challenges')
  <2> DEFINE n == challenges[k].attempts + 1
             row == [challenges[k] EXCEPT !.attempts = n]
  <2>1. challenges[k] \in PhoneOtpChallenge
    BY KeysAreNumbers
  <2>2. n \in 0..MaxAttempts
    BY <1>4, <2>1, IdentityAssumption DEF ReserveAttempt, AttemptLeft, PhoneOtpChallenge
  <2>3. challenges' = [challenges EXCEPT ![k] = row]
    BY <1>4 DEF ReserveAttempt
  <2> HIDE DEF n
  <2>4. row \in PhoneOtpChallenge /\ row.consumed = challenges[k].consumed
    BY <2>1, <2>2 DEF PhoneOtpChallenge
  <2> QED
    BY <2>3, <2>4, WrittenKept
<1>5. ASSUME RefuseCode(s) PROVE ChallengesKept(challenges')
  BY <1>5, ConsumedFields, SameChallengesKept DEF RefuseCode
<1>6. ASSUME AdmitCode(s) PROVE ChallengesKept(challenges')
  BY <1>6, ConsumedFields, SameChallengesKept DEF AdmitCode
<1>7. ASSUME CommitPhoneLogin(s) PROVE ChallengesKept(challenges')
  BY <1>7, ConsumedFields DEF CommitPhoneLogin
<1> QED
  BY <1>1, <1>2, <1>3, <1>4, <1>5, <1>6, <1>7, OpenedKept DEF WithPhone

LEMMA ChallengesStep ==
    ASSUME SessionInv, IdentityTypeOK, PhoneSpent, [Next]_vars
    PROVE  ChallengesKept(challenges')
<1>1. ASSUME NEW s \in Client, WithMail(s) \/ WithPassword(s) \/ WithAuthenticator(s)
      PROVE  challenges' = challenges
  BY <1>1 DEF WithMail, RegisterBuyer, IssueEmailVerification, RequestPasswordReset, VerifyEmail,
     BeginResetPassword, CommitResetPassword, WithPassword, BeginLogin, CommitLogin,
     IssueMfaChallenge, WithAuthenticator, StartEnrollment, ConfirmEnrollment, BeginMfaLogin,
     CommitMfaLogin, BeginResetMfa, CommitResetMfa
<1>2. ASSUME TimePasses PROVE ChallengesKept(challenges')
  <2>1. ASSUME NEW k \in DOMAIN challenges, CooldownEnds(k) PROVE ChallengesKept(challenges')
    <3> DEFINE row == [challenges[k] EXCEPT !.cooling = FALSE]
    <3>1. challenges[k] \in PhoneOtpChallenge
      BY KeysAreNumbers
    <3>2. row \in PhoneOtpChallenge /\ row.consumed = challenges[k].consumed
      BY <3>1 DEF PhoneOtpChallenge
    <3>3. challenges' = [challenges EXCEPT ![k] = row]
      BY <2>1 DEF CooldownEnds
    <3> QED
      BY <3>2, <3>3, WrittenKept
  <2>2. ASSUME NEW k \in DOMAIN challenges, ChallengeExpires(k) PROVE ChallengesKept(challenges')
    <3> DEFINE row == [challenges[k] EXCEPT !.expired = TRUE]
    <3>1. challenges[k] \in PhoneOtpChallenge
      BY KeysAreNumbers
    <3>2. row \in PhoneOtpChallenge /\ row.consumed = challenges[k].consumed
      BY <3>1 DEF PhoneOtpChallenge
    <3>3. challenges' = [challenges EXCEPT ![k] = row]
      BY <2>2 DEF ChallengeExpires
    <3> QED
      BY <3>2, <3>3, WrittenKept
  <2>3. ASSUME ~\E k \in DOMAIN challenges : CooldownEnds(k) \/ ChallengeExpires(k)
        PROVE  challenges' = challenges
    BY <1>2, <2>3 DEF TimePasses, TokenExpires, Tick
  <2> QED
    BY <2>1, <2>2, <2>3, SameChallengesKept
<1>3. ASSUME UNCHANGED challenges PROVE ChallengesKept(challenges')
  BY <1>3, SameChallengesKept
<1> QED
  BY <1>1, <1>2, <1>3, PhoneChallengesStep DEF Next, vars

-----------------------------------------------------------------------------
(* A proof has one effect                                                  *)

Unspent == spent' = spent /\ doubled' = doubled

LEMMA SpentStep ==
    ASSUME [Next]_vars
    PROVE  \/ Unspent
           \/ \E s \in Client :
                \/ \E k \in DOMAIN tokens : VerifyEmail(s, k)
                \/ CommitResetPassword(s)
                \/ \E k \in Row, c \in 0..MaxStep + 1 : ConfirmEnrollment(s, k, c)
                \/ CommitMfaLogin(s)
                \/ CommitPhoneLogin(s)
<1>1. ASSUME NEW s \in Client, WithMail(s)
      PROVE  Unspent \/ CommitResetPassword(s) \/ \E k \in DOMAIN tokens : VerifyEmail(s, k)
  BY <1>1 DEF WithMail, RegisterBuyer, IssueEmailVerification, RequestPasswordReset,
     BeginResetPassword, history, Unspent
<1>2. ASSUME NEW s \in Client, WithPassword(s) PROVE Unspent
  BY <1>2 DEF WithPassword, BeginLogin, CommitLogin, IssueMfaChallenge, history, Unspent
<1>3. ASSUME NEW s \in Client, WithAuthenticator(s)
      PROVE  \/ Unspent \/ CommitMfaLogin(s)
             \/ \E k \in Row, c \in 0..MaxStep + 1 : ConfirmEnrollment(s, k, c)
  BY <1>3 DEF WithAuthenticator, StartEnrollment, BeginMfaLogin, BeginResetMfa, CommitResetMfa,
     history, Unspent
<1>4. ASSUME NEW s \in Client, WithPhone(s) PROVE Unspent \/ CommitPhoneLogin(s)
  BY <1>4 DEF WithPhone, AskForCode, OpenChallenge, CodeSent, CodeNotSent, ReserveAttempt,
     RefuseCode, AdmitCode, history, Unspent
<1>5. ASSUME TimePasses \/ UNCHANGED history PROVE Unspent
  BY <1>5 DEF TimePasses, TokenExpires, CooldownEnds, ChallengeExpires, Tick, history, Unspent
<1> QED
  BY <1>1, <1>2, <1>3, <1>4, <1>5 DEF Next, vars

\* Who is where after a step: as before, idle, or one step on.
LEMMA EveryoneMoves ==
    ASSUME SessionInv, IdentityTypeOK, [Next]_vars, NEW t \in Client
    PROVE  tx'[t] = tx[t] \/ tx'[t] = Idle \/ Moves(t)
<1>1. ASSUME NEW s \in Client, Kinds(s) PROVE tx'[t] = tx[t] \/ tx'[t] = Idle \/ Moves(t)
  BY <1>1 DEF Kinds, Asks, Revokes, Marks, SignsIn, Goes, Untouched
<1> QED
  BY <1>1, StepKinds DEF Still

\* The proofs in N take effect for the first time.
LEMMA FirstUse ==
    ASSUME NEW N, Spent(N), N \cap spent = {}
    PROVE  spent' = spent \cup N /\ doubled' = doubled
  BY DEF Spent

-----------------------------------------------------------------------------
(* Mailed tokens                                                           *)

LEMMA MailKeeps ==
    ASSUME MailSpent, TokensKept(tokens'), NEW N, spent' = spent \cup N,
           \A p \in N : p[1] \in Mailed => p[2] \in DOMAIN tokens /\ tokens'[p[2]].over,
           \A t \in Client : tx'[t].at \in TokenLock =>
               \/ /\ tx'[t] = tx[t]
                  /\ <<PurposeOf(tx[t].at), tx[t].key>> \notin N
               \/ /\ tx'[t].key \in Open(PurposeOf(tx'[t].at))
                  /\ N = {}
    PROVE  MailSpent'
<1>1. ASSUME NEW p \in spent', p[1] \in Mailed
      PROVE  p[2] \in DOMAIN tokens' /\ tokens'[p[2]].over
  BY <1>1 DEF MailSpent, TokensKept
<1>2. ASSUME NEW t \in Client, tx'[t].at \in TokenLock
      PROVE  /\ tx'[t].key \in DOMAIN tokens'
             /\ tokens'[tx'[t].key].purpose = PurposeOf(tx'[t].at)
             /\ <<PurposeOf(tx'[t].at), tx'[t].key>> \notin spent'
  <2>1. CASE tx'[t] = tx[t] /\ <<PurposeOf(tx[t].at), tx[t].key>> \notin N
    BY <1>2, <2>1 DEF MailSpent, TokensKept
  <2>2. CASE tx'[t].key \in Open(PurposeOf(tx'[t].at)) /\ N = {}
    <3> DEFINE p == <<PurposeOf(tx'[t].at), tx'[t].key>>
    <3>1. p[1] \in Mailed /\ p[2] = tx'[t].key
      BY DEF PurposeOf, Mailed
    <3>2. /\ p[2] \in DOMAIN tokens /\ ~tokens[p[2]].over
          /\ tokens[p[2]].purpose = PurposeOf(tx'[t].at)
      BY <2>2, <3>1 DEF Open
    <3>3. p \notin spent'
      BY <2>2, <3>1, <3>2 DEF MailSpent
    <3> QED
      BY <3>1, <3>2, <3>3 DEF TokensKept
  <2> QED
    BY <1>2, <2>1, <2>2
<1> QED
  BY <1>1, <1>2 DEF MailSpent

LEMMA MailUnspentKeeps ==
    ASSUME SessionInv, IdentityTypeOK, MailSpent, TokensKept(tokens'), Unspent, [Next]_vars
    PROVE  MailSpent'
<1>1. ASSUME NEW t \in Client, tx'[t].at \in TokenLock
      PROVE  tx'[t] = tx[t] \/ tx'[t].key \in Open(PurposeOf(tx'[t].at))
  <2>1. CASE Moves(t)
    BY <1>1, <2>1 DEF Moves, TokenLock, BeginMfaLogin, PurposeOf
  <2> QED
    BY <1>1, <2>1, EveryoneMoves, IdleTyped DEF TokenLock
<1>2. spent' = spent \cup {}
  BY DEF Unspent
<1> QED
  BY <1>1, <1>2, MailKeeps

\* A proof of one kind is none of another.
LEMMA KindsDiffer ==
    /\ \A k : <<"verify_email", k>>[1] = "verify_email" /\ <<"verify_email", k>>[2] = k
    /\ \A k : <<"reset_password", k>>[1] = "reset_password" /\ <<"reset_password", k>>[2] = k
    /\ \A k : <<"mfa_login", k>>[1] = "mfa_login" /\ <<"mfa_login", k>>[2] = k
    /\ \A k : <<"phone", k>>[1] = "phone" /\ <<"phone", k>>[2] = k
    /\ \A p \in Proof : /\ p[1] \in {"totp", "recovery"} /\ p[2] \in 1..MaxSecrets
                        /\ p[1] = "totp" => p[3] \in 0..MaxStep + 1
                        /\ p[1] = "recovery" => p[3] \in RecoveryCode
<1>1. ASSUME NEW p \in Proof
      PROVE  /\ p[1] \in {"totp", "recovery"} /\ p[2] \in 1..MaxSecrets
             /\ p[1] = "totp" => p[3] \in 0..MaxStep + 1
             /\ p[1] = "recovery" => p[3] \in RecoveryCode
  <2>1. CASE \E n \in 1..MaxSecrets, c \in 0..MaxStep + 1 : p = <<"totp", n, c>>
    BY <2>1
  <2>2. CASE \E n \in 1..MaxSecrets, r \in RecoveryCode : p = <<"recovery", n, r>>
    BY <2>2
  <2> QED
    BY <2>1, <2>2 DEF Proof
<1> QED
  BY <1>1

\* What happens at the steps that spend something, for the tokens.
LEMMA VerifySpends ==
    ASSUME SessionInv, IdentityTypeOK, MailSpent, TokensKept(tokens'),
           NEW s \in Client, NEW k \in DOMAIN tokens, VerifyEmail(s, k)
    PROVE  MailSpent' /\ doubled' = doubled /\ spent' = spent \cup {<<"verify_email", k>>}
<1> DEFINE N == {<<"verify_email", k>>}
<1>1. <<"verify_email", k>> \notin spent
  BY KindsDiffer DEF VerifyEmail, Open, MailSpent, Mailed
<1>2. spent' = spent \cup N /\ doubled' = doubled
  BY <1>1, FirstUse DEF VerifyEmail
<1>3. tokens'[k].over
  BY SupersededFields DEF VerifyEmail, Open
<1>4. \A p \in N : p[2] \in DOMAIN tokens /\ tokens'[p[2]].over
  BY <1>3
<1>5. \A t \in Client : tx'[t] = tx[t] /\ <<PurposeOf(tx[t].at), tx[t].key>> \notin N
  BY DEF VerifyEmail, PurposeOf
<1> HIDE DEF N
<1>6. MailSpent'
  BY <1>2, <1>4, <1>5, MailKeeps
<1> QED
  BY <1>2, <1>6 DEF N

LEMMA ResetSpends ==
    ASSUME SessionInv, IdentityTypeOK, MailSpent, TokensKept(tokens'),
           NEW s \in Client, CommitResetPassword(s)
    PROVE  /\ MailSpent' /\ doubled' = doubled
           /\ spent' = spent \cup {<<"reset_password", tx[s].key>>}
           /\ tx[s].key \in DOMAIN tokens /\ <<"reset_password", tx[s].key>> \notin spent
<1> DEFINE k == tx[s].key
           N == {<<"reset_password", k>>}
<1>1. /\ k \in DOMAIN tokens /\ <<"reset_password", k>> \notin spent
      /\ tokens[k].purpose = "reset_password"
  BY DEF MailSpent, CommitResetPassword, PurposeOf, TokenLock
<1>2. spent' = spent \cup N /\ doubled' = doubled
  BY <1>1, FirstUse DEF CommitResetPassword
<1>3. tokens'[k].over
  BY <1>1, SupersededFields DEF CommitResetPassword
<1>4. \A t \in Client : tx'[t] = IF t = s THEN Idle ELSE tx[t]
  BY DEF CommitResetPassword, Finished, SessionInv, TxTyped
<1>5. \A t \in Client \ {s} : tx[t].at \in TokenLock => tx[t].key # k
  BY DEF SessionInv, LocksApart, Apart, CommitResetPassword, TokenLock
<1>6. \A t \in Client \ {s} : tx[t].at \in TokenLock =>
         <<PurposeOf(tx[t].at), tx[t].key>> \notin N
  BY <1>5
<1>7. \A p \in N : p[2] \in DOMAIN tokens /\ tokens'[p[2]].over
  BY <1>1, <1>3
<1> HIDE DEF N
<1>8. \A t \in Client : tx'[t].at \in TokenLock =>
         tx'[t] = tx[t] /\ <<PurposeOf(tx[t].at), tx[t].key>> \notin N
  BY <1>4, <1>6, IdleTyped DEF TokenLock
<1>9. MailSpent'
  BY <1>2, <1>7, <1>8, MailKeeps
<1> QED
  BY <1>1, <1>2, <1>9 DEF N

\* Codes and phone challenges are no tokens.
LEMMA OthersSpend ==
    ASSUME SessionInv, MailSpent, TokensKept(tokens'), NEW N, spent' = spent \cup N,
           \A p \in N : p[1] \notin Mailed,
           \A t \in Client : tx'[t] = tx[t] \/ tx'[t] = Idle
    PROVE  MailSpent'
<1>1. \A t \in Client : <<PurposeOf(tx[t].at), tx[t].key>> \notin N
  BY DEF PurposeOf, Mailed
<1> QED
  BY <1>1, MailKeeps, IdleTyped DEF TokenLock

LEMMA MfaLoginSpends ==
    ASSUME SessionInv, IdentityTypeOK, MailSpent, CodesSpent, TokensKept(tokens'),
           Len(tokens) <= MaxTokens, NEW s \in Client, CommitMfaLogin(s)
    PROVE  /\ MailSpent' /\ doubled' = doubled
           /\ spent' = spent \cup {tx[s].proof, <<"mfa_login", tx[s].key>>}
<1> DEFINE k == tx[s].key
           N == {tx[s].proof, <<"mfa_login", k>>}
<1>1. k \in DOMAIN tokens /\ <<"mfa_login", k>> \notin spent
  BY DEF MailSpent, CommitMfaLogin, PurposeOf, TokenLock
<1>2. tx[s].proof \in Proof /\ tx[s].proof \notin spent
  <2>1. /\ tx[s].proof \in Proof /\ tx[s].proof[2] = method.secret /\ method.at = "enabled"
        /\ tx[s].proof[1] = "totp" => tx[s].proof[3] > method.last
        /\ tx[s].proof[1] = "recovery" => tx[s].proof[3] \in method.unused
    BY DEF CodesSpent, CommitMfaLogin
  <2>2. tx[s].proof[1] \in {"totp", "recovery"}
    BY <2>1, KindsDiffer
  <2>3. method.last \in Int /\ (tx[s].proof[1] = "totp" => tx[s].proof[3] \in Int)
    BY <2>1, KindsDiffer, IdentityAssumption DEF IdentityTypeOK, MfaMethod
  <2> QED
    BY <2>1, <2>2, <2>3 DEF CodesSpent
<1>3. spent' = spent \cup N /\ doubled' = doubled
  BY <1>1, <1>2, FirstUse DEF CommitMfaLogin
<1>4. tokens'[k].over
  BY <1>1, OverKept DEF CommitMfaLogin
<1>5. \A t \in Client : tx'[t] = IF t = s THEN Idle ELSE tx[t]
  BY DEF CommitMfaLogin, Finished, SessionInv, TxTyped
<1>6. \A t \in Client \ {s} : tx[t].at \in TokenLock => tx[t].key # k
  BY DEF SessionInv, LocksApart, Apart, CommitMfaLogin, TokenLock
<1>7. \A t \in Client \ {s} : tx[t].at \in TokenLock =>
         <<PurposeOf(tx[t].at), tx[t].key>> \notin N
  <2> SUFFICES ASSUME NEW t \in Client \ {s}, tx[t].at \in TokenLock,
                      <<PurposeOf(tx[t].at), tx[t].key>> = tx[s].proof
               PROVE  FALSE
    BY <1>6
  <2> QED
    BY <1>2, KindsDiffer DEF PurposeOf
<1>8. \A p \in N : p[1] \in Mailed => p[2] \in DOMAIN tokens /\ tokens'[p[2]].over
  BY <1>1, <1>2, <1>4, KindsDiffer DEF Mailed
<1> HIDE DEF N
<1>9. \A t \in Client : tx'[t].at \in TokenLock =>
         tx'[t] = tx[t] /\ <<PurposeOf(tx[t].at), tx[t].key>> \notin N
  BY <1>5, <1>7, IdleTyped DEF TokenLock
<1>10. MailSpent'
  BY <1>3, <1>8, <1>9, MailKeeps
<1> QED
  BY <1>3, <1>10 DEF N

-----------------------------------------------------------------------------
(* The account's row                                                       *)

LEMMA AccountStep ==
    ASSUME [Next]_vars
    PROVE  \/ account' = account
           \/ \E s \in Client :
                \/ RegisterBuyer(s) \/ CommitResetPassword(s) \/ CommitPhoneLogin(s)
                \/ \E k \in DOMAIN tokens : VerifyEmail(s, k)
<1>1. ASSUME NEW s \in Client, WithMail(s)
      PROVE  \/ account' = account \/ RegisterBuyer(s) \/ CommitResetPassword(s)
             \/ \E k \in DOMAIN tokens : VerifyEmail(s, k)
  BY <1>1 DEF WithMail, IssueEmailVerification, RequestPasswordReset, BeginResetPassword, mailVars
<1>2. ASSUME NEW s \in Client, WithPassword(s) PROVE account' = account
  BY <1>2 DEF WithPassword, BeginLogin, CommitLogin, IssueMfaChallenge, mailVars
<1>3. ASSUME NEW s \in Client, WithAuthenticator(s) PROVE account' = account
  BY <1>3 DEF WithAuthenticator, StartEnrollment, ConfirmEnrollment, BeginMfaLogin,
     CommitMfaLogin, BeginResetMfa, CommitResetMfa, mailVars
<1>4. ASSUME NEW s \in Client, WithPhone(s) PROVE account' = account \/ CommitPhoneLogin(s)
  BY <1>4 DEF WithPhone, AskForCode, OpenChallenge, CodeSent, CodeNotSent, ReserveAttempt,
     RefuseCode, AdmitCode, mailVars
<1>5. ASSUME TimePasses \/ UNCHANGED mailVars PROVE account' = account
  BY <1>5 DEF TimePasses, TokenExpires, CooldownEnds, ChallengeExpires, Tick, mailVars
<1> QED
  BY <1>1, <1>2, <1>3, <1>4, <1>5 DEF Next, vars

\* The status moves, the password counts up, the kind is settled for good.
LEMMA AccountFields ==
    ASSUME IdentityTypeOK, [Next]_vars
    PROVE  /\ account'.kind = account.kind
           /\ \/ account' \in User /\ account'.password = account.password
              \/ \E s \in Client : CommitResetPassword(s)
<1>1. account \in User
  BY DEF IdentityTypeOK
<1>2. ASSUME NEW status \in {"pending", "active"},
             account' = [account EXCEPT !.status = status]
      PROVE  account' \in User /\ account'.kind = account.kind
             /\ account'.password = account.password
  BY <1>1, <1>2 DEF User
<1>3. ASSUME NEW s \in Client,
             \/ RegisterBuyer(s) \/ CommitPhoneLogin(s)
             \/ \E k \in DOMAIN tokens : VerifyEmail(s, k)
      PROVE  \E status \in {"pending", "active"} :
                account' = [account EXCEPT !.status = status]
  BY <1>3 DEF RegisterBuyer, CommitPhoneLogin, VerifyEmail
<1>4. ASSUME NEW s \in Client, CommitResetPassword(s) PROVE account'.kind = account.kind
  <2>1. account' = [account EXCEPT !.password = @ + 1]
    BY <1>4 DEF CommitResetPassword
  <2> QED
    BY <1>1, <2>1 DEF User
<1> QED
  BY <1>1, <1>2, <1>3, <1>4, AccountStep

-----------------------------------------------------------------------------
(* Codes of the authenticator                                              *)

Codes == {"totp", "recovery"}

\* The steps that write the authenticator's row.
LEMMA MethodStep ==
    ASSUME [Next]_vars
    PROVE  \/ method' = method
           \/ \E s \in Client :
                \/ StartEnrollment(s) \/ CommitMfaLogin(s) \/ CommitResetMfa(s)
                \/ \E k \in Row, c \in 0..MaxStep + 1 : ConfirmEnrollment(s, k, c)
<1>1. ASSUME NEW s \in Client, WithMail(s) \/ WithPassword(s) PROVE method' = method
  BY <1>1 DEF WithMail, WithPassword, RegisterBuyer, IssueEmailVerification,
     RequestPasswordReset, VerifyEmail, BeginResetPassword, CommitResetPassword, BeginLogin,
     CommitLogin, IssueMfaChallenge, ownerVars
<1>2. ASSUME NEW s \in Client, WithAuthenticator(s)
      PROVE  \/ method' = method
             \/ StartEnrollment(s) \/ CommitMfaLogin(s) \/ CommitResetMfa(s)
             \/ \E k \in Row, c \in 0..MaxStep + 1 : ConfirmEnrollment(s, k, c)
  BY <1>2 DEF WithAuthenticator, BeginMfaLogin, BeginResetMfa, ownerVars
<1>3. ASSUME NEW s \in Client, WithPhone(s) PROVE method' = method
  BY <1>3 DEF WithPhone, AskForCode, OpenChallenge, CodeSent, CodeNotSent, ReserveAttempt,
     RefuseCode, AdmitCode, CommitPhoneLogin, ownerVars
<1>4. ASSUME TimePasses \/ UNCHANGED ownerVars PROVE method' = method
  BY <1>4 DEF TimePasses, TokenExpires, CooldownEnds, ChallengeExpires, Tick, ownerVars
<1> QED
  BY <1>1, <1>2, <1>3, <1>4 DEF Next, vars

LEMMA CodesUnspentKeep ==
    ASSUME SessionInv, IdentityTypeOK, CodesSpent, method' = method,
           account'.kind = account.kind, [Next]_vars,
           \A p \in spent' : p \in spent \/ p[1] \notin Codes
    PROVE  CodesSpent'
<1>1. ASSUME NEW p \in spent', p[1] \in Codes
      PROVE  /\ p[2] \in 0..method'.secret
             /\ p[1] = "totp" => p[3] \in Nat
             /\ p[2] = method'.secret =>
                  /\ method'.at # "pending"
                  /\ p[1] = "totp" /\ method'.at = "enabled" => p[3] <= method'.last
                  /\ p[1] = "recovery" => p[3] \notin method'.unused
  <2>1. p \in spent
    BY <1>1
  <2> QED
    BY <1>1, <2>1 DEF CodesSpent, Codes
<1>2. ASSUME NEW t \in Client, tx'[t].at = "mfa"
      PROVE  /\ method'.at = "enabled"
             /\ tx'[t].proof \in Proof
             /\ tx'[t].proof[2] = method'.secret
             /\ tx'[t].proof[1] = "totp" => tx'[t].proof[3] > method'.last
             /\ tx'[t].proof[1] = "recovery" => tx'[t].proof[3] \in method'.unused
  <2>1. CASE tx'[t] = tx[t]
    BY <1>2, <2>1 DEF CodesSpent
  <2>2. CASE Moves(t)
    <3>1. tx'[t].proof \in Proof /\ BeginMfaLogin(t, tx'[t].key, tx'[t].proof)
      BY <1>2, <2>2 DEF Moves
    <3>2. /\ method.at = "enabled" /\ tx'[t].proof[2] = method.secret
          /\ \/ tx'[t].proof[1] = "totp" /\ tx'[t].proof[3] > method.last
             \/ tx'[t].proof[1] = "recovery" /\ tx'[t].proof[3] \in method.unused
      BY <3>1 DEF BeginMfaLogin, Matches
    <3> QED
      BY <3>1, <3>2
  <2> QED
    BY <1>2, <2>1, <2>2, EveryoneMoves, IdleTyped
<1> QED
  BY <1>1, <1>2 DEF CodesSpent, Codes

LEMMA NobodyHoldsMethod ==
    ASSUME NEW s \in Client, tx[s] = Idle, MethodFree(s)
    PROVE  \A t \in Client : tx[t].at # "mfa"
  BY IdleTyped DEF MethodFree

LEMMA StartKeepsCodes ==
    ASSUME IdentityTypeOK, CodesSpent, NEW s \in Client, StartEnrollment(s)
    PROVE  CodesSpent' /\ method' \in MfaMethod
<1>1. method \in MfaMethod /\ method.secret \in Nat /\ method.secret < MaxSecrets
      /\ MaxSecrets \in Nat /\ MaxStep \in Nat
  BY IdentityAssumption DEF IdentityTypeOK, MfaMethod, StartEnrollment
<1>2. method' = [at |-> "pending", secret |-> method.secret + 1, last |-> -1, unused |-> {}]
  BY DEF StartEnrollment
<1>3. /\ method'.at = "pending" /\ method'.secret = method.secret + 1
      /\ method'.unused = {} /\ method' \in MfaMethod
  BY <1>1, <1>2 DEF MfaMethod
<1>4. tx' = tx /\ spent' = spent /\ account' = account /\ account.kind = "owner"
      /\ \A t \in Client : tx[t].at # "mfa"
  BY NobodyHoldsMethod DEF StartEnrollment, mailVars, history
<1>5. \A p \in spent : p[1] \in Codes =>
         /\ p[2] \in 0..method'.secret /\ p[2] # method'.secret
         /\ p[1] = "totp" => p[3] \in Nat
  BY <1>1, <1>3 DEF CodesSpent, Codes
<1> QED
  BY <1>3, <1>4, <1>5 DEF CodesSpent, Codes

LEMMA ConfirmKeepsCodes ==
    ASSUME IdentityTypeOK, CodesSpent, NEW s \in Client, NEW k \in Row,
           NEW c \in 0..MaxStep + 1, ConfirmEnrollment(s, k, c)
    PROVE  /\ CodesSpent' /\ method' \in MfaMethod
           /\ spent' = spent \cup {<<"totp", method.secret, c>>} /\ doubled' = doubled
<1> DEFINE used == <<"totp", method.secret, c>>
           half == [method EXCEPT !.at = "enabled"]
           most == [half EXCEPT !.last = c]
<1>1. method \in MfaMethod /\ method.secret \in Nat /\ MaxStep \in Nat /\ c \in Nat
      /\ method.secret \in 0..MaxSecrets
  BY IdentityAssumption DEF IdentityTypeOK, MfaMethod
<1>2. half \in MfaMethod /\ half.at = "enabled" /\ half.secret = method.secret
  BY <1>1 DEF MfaMethod
<1>3. c \in -1..MaxStep + 1
  BY <1>1
<1>4. method' = [most EXCEPT !.unused = RecoveryCode]
  BY <1>1 DEF ConfirmEnrollment, MfaMethod
<1> HIDE DEF half
<1>5. /\ most \in MfaMethod /\ most.at = "enabled" /\ most.secret = method.secret
      /\ most.last = c
  BY <1>2, <1>3 DEF MfaMethod
<1> HIDE DEF most
<1>6. /\ method' \in MfaMethod /\ method'.at = "enabled" /\ method'.secret = method.secret
      /\ method'.last = c
  BY <1>4, <1>5 DEF MfaMethod
<1>7. \A p \in spent : p[1] \in Codes =>
         /\ p[2] \in 0..method.secret /\ p[2] # method.secret
         /\ p[1] = "totp" => p[3] \in Nat
  BY DEF CodesSpent, Codes, ConfirmEnrollment
<1>8. used \notin spent /\ used[1] = "totp" /\ used[2] = method.secret /\ used[3] = c
  BY <1>7 DEF Codes
<1>9. spent' = spent \cup {used} /\ doubled' = doubled
  BY <1>8, FirstUse DEF ConfirmEnrollment
<1>10. tx' = tx /\ account' = account /\ account.kind = "owner"
       /\ \A t \in Client : tx[t].at # "mfa"
  BY NobodyHoldsMethod DEF ConfirmEnrollment, mailVars
<1> HIDE DEF used
<1>11. ASSUME NEW p \in spent', p[1] \in Codes
       PROVE  /\ p[2] \in 0..method'.secret
              /\ p[1] = "totp" => p[3] \in Nat
              /\ p[2] = method'.secret => p = used
  BY <1>1, <1>6, <1>7, <1>8, <1>9, <1>11
<1>12. CodesSpent'
  BY <1>1, <1>6, <1>8, <1>10, <1>11 DEF CodesSpent, Codes
<1> QED
  BY <1>6, <1>9, <1>12 DEF used

LEMMA LoginKeepsCodes ==
    ASSUME SessionInv, IdentityTypeOK, CodesSpent, NEW s \in Client, CommitMfaLogin(s),
           spent' = spent \cup {tx[s].proof, <<"mfa_login", tx[s].key>>}
    PROVE  CodesSpent' /\ method' \in MfaMethod
<1>1. PICK proof \in Proof : proof = tx[s].proof
  BY DEF CodesSpent, CommitMfaLogin
<1>2. /\ method.at = "enabled" /\ proof[2] = method.secret
      /\ proof[1] = "totp" => proof[3] > method.last
      /\ proof[1] = "recovery" => proof[3] \in method.unused
      /\ account.kind = "owner"
  BY <1>1 DEF CodesSpent, CommitMfaLogin
<1>3. method \in MfaMethod /\ method.secret \in 0..MaxSecrets /\ method.last \in Int
      /\ MaxStep \in Nat /\ method.unused \subseteq RecoveryCode
  BY IdentityAssumption DEF IdentityTypeOK, MfaMethod
<1>4. /\ proof[1] \in Codes
      /\ proof[1] = "totp" => proof[3] \in 0..MaxStep + 1
  BY KindsDiffer DEF Codes
<1>5. method' = IF proof[1] = "totp" THEN [method EXCEPT !.last = proof[3]]
                ELSE [method EXCEPT !.unused = @ \ {proof[3]}]
  BY <1>1 DEF CommitMfaLogin
<1>6. ASSUME proof[1] = "totp"
      PROVE  /\ method' \in MfaMethod /\ method'.at = "enabled"
             /\ method'.secret = method.secret /\ method'.last = proof[3]
             /\ method'.unused = method.unused
  <2>1. proof[3] \in -1..MaxStep + 1 /\ method' = [method EXCEPT !.last = proof[3]]
    BY <1>3, <1>4, <1>5, <1>6
  <2> QED
    BY <1>2, <1>3, <2>1 DEF MfaMethod
<1>7. ASSUME proof[1] # "totp"
      PROVE  /\ method' \in MfaMethod /\ method'.at = "enabled"
             /\ method'.secret = method.secret /\ method'.last = method.last
             /\ method'.unused = method.unused \ {proof[3]}
  <2> DEFINE left == method.unused \ {proof[3]}
  <2>1. left \subseteq RecoveryCode
    BY <1>3
  <2>2. method' = [method EXCEPT !.unused = left]
    BY <1>5, <1>7
  <2> HIDE DEF left
  <2>3. /\ method' \in MfaMethod /\ method'.at = "enabled"
        /\ method'.secret = method.secret /\ method'.last = method.last
        /\ method'.unused = left
    BY <1>2, <1>3, <2>1, <2>2 DEF MfaMethod
  <2> QED
    BY <2>3 DEF left
<1>8. ASSUME NEW p \in spent', p[1] \in Codes PROVE p \in spent \/ p = proof
  BY <1>1, <1>8, KindsDiffer DEF Codes
<1>9. ASSUME NEW p \in spent', p[1] \in Codes
      PROVE  /\ p[2] \in 0..method'.secret
             /\ p[1] = "totp" => p[3] \in Nat
             /\ p[2] = method'.secret =>
                  /\ method'.at # "pending"
                  /\ p[1] = "totp" /\ method'.at = "enabled" => p[3] <= method'.last
                  /\ p[1] = "recovery" => p[3] \notin method'.unused
  <2>1. CASE p = proof
    BY <1>2, <1>3, <1>4, <1>6, <1>7, <2>1, <1>9 DEF Codes
  <2>2. CASE p \in spent
    <3>1. /\ p[2] \in 0..method.secret
          /\ p[1] = "totp" => p[3] \in Nat
          /\ p[2] = method.secret =>
               /\ p[1] = "totp" => p[3] <= method.last
               /\ p[1] = "recovery" => p[3] \notin method.unused
      BY <1>2, <1>9, <2>2 DEF CodesSpent, Codes
    <3> QED
      BY <1>2, <1>3, <1>4, <1>6, <1>7, <3>1
  <2> QED
    BY <1>8, <1>9, <2>1, <2>2
<1>10. \A t \in Client : tx'[t].at # "mfa"
  <2>1. \A t \in Client : tx'[t] = IF t = s THEN Idle ELSE tx[t]
    BY DEF CommitMfaLogin, Finished, SessionInv, TxTyped
  <2>2. \A t \in Client \ {s} : tx[t].at # "mfa"
    BY DEF SessionInv, LocksApart, Apart, MethodLock, CommitMfaLogin
  <2> QED
    BY <2>1, <2>2, IdleTyped
<1>11. account' = account
  BY DEF CommitMfaLogin
<1> QED
  BY <1>2, <1>6, <1>7, <1>9, <1>10, <1>11 DEF CodesSpent, Codes

LEMMA ResetKeepsCodes ==
    ASSUME SessionInv, IdentityTypeOK, CodesSpent, NEW s \in Client, CommitResetMfa(s)
    PROVE  CodesSpent' /\ method' \in MfaMethod
<1> DEFINE half == [method EXCEPT !.at = "none"]
           most == [half EXCEPT !.last = -1]
<1>1. method \in MfaMethod /\ -1 \in -1..MaxStep + 1
  BY IdentityAssumption DEF IdentityTypeOK
<1>2. half \in MfaMethod /\ half.at = "none" /\ half.secret = method.secret
  BY <1>1 DEF MfaMethod
<1>3. method' = [most EXCEPT !.unused = {}]
  BY <1>1 DEF CommitResetMfa, MfaMethod
<1> HIDE DEF half
<1>4. most \in MfaMethod /\ most.at = "none" /\ most.secret = method.secret
  BY <1>1, <1>2 DEF MfaMethod
<1> HIDE DEF most
<1>5. /\ method' \in MfaMethod /\ method'.at = "none" /\ method'.secret = method.secret
      /\ method'.unused = {}
  BY <1>3, <1>4 DEF MfaMethod
<1>6. \A t \in Client : tx'[t].at # "mfa"
  <2>1. \A t \in Client : tx'[t] = IF t = s THEN Idle ELSE tx[t]
    BY DEF CommitResetMfa, Finished, SessionInv, TxTyped
  <2>2. \A t \in Client \ {s} : tx[t].at # "mfa"
    BY DEF SessionInv, LocksApart, Apart, MethodLock, CommitResetMfa
  <2> QED
    BY <2>1, <2>2, IdleTyped
<1>7. spent' = spent
  BY DEF CommitResetMfa, history
<1> QED
  BY <1>5, <1>6, <1>7 DEF CodesSpent

-----------------------------------------------------------------------------
(* Phone codes                                                             *)

LEMMA PhoneKeeps ==
    ASSUME SessionInv, IdentityTypeOK, PhoneSpent, ChallengesKept(challenges'), [Next]_vars,
           NEW N, spent' = spent \cup N,
           \A p \in N : p[1] = "phone" =>
               p[2] \in DOMAIN challenges' /\ challenges'[p[2]].consumed,
           \A t \in Client : tx'[t].at = "phone" => <<"phone", tx'[t].key>> \notin N
    PROVE  PhoneSpent'
<1>1. ASSUME NEW p \in spent', p[1] = "phone"
      PROVE  p[2] \in DOMAIN challenges' /\ challenges'[p[2]].consumed
  BY <1>1 DEF PhoneSpent, ChallengesKept
<1>2. ASSUME NEW t \in Client
      PROVE  /\ tx'[t].at \in {"send", "right", "wrong", "phone"} =>
                  tx'[t].key \in DOMAIN challenges'
             /\ tx'[t].at = "ask" => tx'[t].proof \in {<<"signup">>, <<"login">>}
             /\ tx'[t].at = "wrong" => tx'[t].proof \in {<<n>> : n \in Nat}
             /\ tx'[t].at = "phone" => <<"phone", tx'[t].key>> \notin spent'
  <2>1. CASE tx'[t] = tx[t]
    BY <2>1 DEF PhoneSpent, ChallengesKept
  <2>2. CASE tx'[t] = Idle
    BY <2>2, IdleTyped
  <2>3. CASE Moves(t)
    <3>1. ASSUME tx'[t].at = "send" PROVE tx'[t].key \in DOMAIN challenges'
      <4> DEFINE row == [purpose |-> tx[t].proof[1], attempts |-> 0, cooling |-> TRUE,
                         delivered |-> FALSE, consumed |-> FALSE, expired |-> FALSE]
      <4>1. tx'[t].key = Len(challenges) + 1 /\ OpenChallenge(t)
        BY <2>3, <3>1 DEF Moves
      <4>2. tx' # [tx EXCEPT ![t] = Idle]
        BY <3>1, IdleTyped DEF SessionInv, TxTyped
      <4>3. challenges' = Append(ConsumedIn(tx[t].ids), row)
        BY <4>1, <4>2 DEF OpenChallenge, Finished
      <4>4. /\ ConsumedIn(tx[t].ids) \in Seq(PhoneOtpChallenge)
            /\ Len(ConsumedIn(tx[t].ids)) = Len(challenges) /\ Len(challenges) \in Nat
        BY ConsumedFields, KeysAreNumbers DEF ChallengesKept
      <4> HIDE DEF row
      <4>5. Len(challenges') = Len(challenges) + 1
        BY <4>3, <4>4
      <4>6. DOMAIN challenges' = 1..Len(challenges')
        BY LenProperties DEF ChallengesKept
      <4> QED
        BY <4>1, <4>4, <4>5, <4>6
    <3>2. tx'[t].at \in {"right", "wrong"} => /\ tx'[t].key \in DOMAIN challenges'
                                              /\ tx'[t].proof \in {<<n>> : n \in Nat}
      BY <2>3 DEF Moves, ChallengesKept
    <3>3. ASSUME tx'[t].at = "phone"
          PROVE  tx'[t].key \in DOMAIN challenges' /\ <<"phone", tx'[t].key>> \notin spent'
      <4>1. tx'[t].key \in DOMAIN challenges /\ ~challenges[tx'[t].key].consumed
        BY <2>3, <3>3 DEF Moves, PhoneSpent
      <4>2. <<"phone", tx'[t].key>> \notin spent
        BY <4>1, KindsDiffer DEF PhoneSpent
      <4> QED
        BY <3>3, <4>1, <4>2 DEF ChallengesKept
    <3>4. tx'[t].at = "ask" => tx'[t].proof \in {<<"signup">>, <<"login">>}
      BY <2>3 DEF Moves
    <3> QED
      BY <3>1, <3>2, <3>3, <3>4
  <2> QED
    BY <2>1, <2>2, <2>3, EveryoneMoves
<1> QED
  BY <1>1, <1>2 DEF PhoneSpent

LEMMA PhoneSpends ==
    ASSUME SessionInv, IdentityTypeOK, PhoneSpent, ChallengesKept(challenges'), [Next]_vars,
           NEW s \in Client, CommitPhoneLogin(s)
    PROVE  /\ PhoneSpent' /\ doubled' = doubled
           /\ spent' = spent \cup {<<"phone", tx[s].key>>}
<1> DEFINE k == tx[s].key
           N == {<<"phone", k>>}
<1>1. k \in DOMAIN challenges /\ <<"phone", k>> \notin spent
  BY DEF PhoneSpent, CommitPhoneLogin
<1>2. spent' = spent \cup N /\ doubled' = doubled
  BY <1>1, FirstUse DEF CommitPhoneLogin
<1>3. challenges'[k].consumed
  BY <1>1, ConsumedFields DEF CommitPhoneLogin
<1>4. \A t \in Client : tx'[t] = IF t = s THEN Idle ELSE tx[t]
  BY DEF CommitPhoneLogin, Finished, SessionInv, TxTyped
<1>5. \A t \in Client : tx'[t].at # "phone"
  BY <1>4, IdleTyped DEF SessionInv, LocksApart, Apart, CommitPhoneLogin, UserLock
<1>6. \A p \in N : p[2] \in DOMAIN challenges' /\ challenges'[p[2]].consumed
  BY <1>1, <1>3 DEF ChallengesKept
<1> HIDE DEF N
<1>7. PhoneSpent'
  BY <1>2, <1>5, <1>6, PhoneKeeps
<1> QED
  BY <1>2, <1>7 DEF N

-----------------------------------------------------------------------------
(* Password resets                                                         *)

LEMMA SegmentCounted ==
    ASSUME NEW n \in Nat
    PROVE  IsFiniteSet(1..n) /\ Cardinality(1..n) = n
<1>1. 1 \in Int /\ n \in Int
  OBVIOUS
<1>2. IsFiniteSet(1..n) /\ Cardinality(1..n) = IF 1 > n THEN 0 ELSE n - 1 + 1
  BY <1>1, FS_Interval, Zenon
<1> QED
  BY <1>2

LEMMA ResetKeysBounded ==
    ASSUME SessionInv, IdentityTypeOK, Len(tokens) <= MaxTokens
    PROVE  /\ IsFiniteSet(ResetKeys) /\ Cardinality(ResetKeys) \in Nat
           /\ \A S : S \subseteq DOMAIN tokens =>
                IsFiniteSet(S) /\ Cardinality(S) \in 0..MaxTokens
<1>1. DOMAIN tokens = 1..Len(tokens) /\ Len(tokens) \in Nat /\ MaxTokens \in Nat
  BY KeysAreNumbers, IdentityAssumption
<1>2. IsFiniteSet(1..Len(tokens)) /\ Cardinality(1..Len(tokens)) = Len(tokens)
  BY <1>1, SegmentCounted
<1>3. ASSUME NEW S, S \subseteq DOMAIN tokens
      PROVE  IsFiniteSet(S) /\ Cardinality(S) \in 0..MaxTokens
  <2>1. IsFiniteSet(S) /\ Cardinality(S) <= Len(tokens)
    BY <1>1, <1>2, <1>3, FS_Subset
  <2>2. Cardinality(S) \in Nat
    BY <2>1, FS_CardinalityType
  <2> QED
    BY <1>1, <2>1, <2>2
<1>4. ResetKeys \subseteq DOMAIN tokens
  BY DEF ResetKeys
<1> QED
  BY <1>1, <1>3, <1>4

LEMMA ResetsKeep ==
    ASSUME SessionInv, IdentityTypeOK, MailSpent, ResetsCounted, TokensKept(tokens'),
           NEW N, spent' = spent \cup N, \A k : <<"reset_password", k>> \notin N,
           account'.password = account.password
    PROVE  ResetsCounted'
<1>1. ASSUME NEW k PROVE k \in ResetKeys' <=> k \in ResetKeys
  <2>1. <<"reset_password", k>> \in spent' <=> <<"reset_password", k>> \in spent
    OBVIOUS
  <2>2. <<"reset_password", k>> \in spent => k \in DOMAIN tokens
    BY KindsDiffer DEF MailSpent, Mailed
  <2> QED
    BY <2>1, <2>2 DEF ResetKeys, TokensKept
<1>2. ResetKeys' = ResetKeys
  BY <1>1
<1> QED
  BY <1>2 DEF ResetsCounted, TokensKept

LEMMA ResetCounts ==
    ASSUME SessionInv, IdentityTypeOK, MailSpent, ResetsCounted, TokensKept(tokens'),
           NEW s \in Client, CommitResetPassword(s)
    PROVE  ResetsCounted' /\ account' \in User
<1>1. PICK k : k = tx[s].key
  OBVIOUS
<1>2. /\ spent' = spent \cup {<<"reset_password", k>>}
      /\ k \in DOMAIN tokens /\ <<"reset_password", k>> \notin spent
  BY <1>1, ResetSpends
<1>3. DOMAIN tokens' = DOMAIN tokens
  BY SupersededFields DEF CommitResetPassword
<1>4. ResetKeys' = ResetKeys \cup {k} /\ k \notin ResetKeys
  <2>1. ASSUME NEW j PROVE j \in ResetKeys' <=> j \in ResetKeys \cup {k}
    <3>1. <<"reset_password", j>> = <<"reset_password", k>> <=> j = k
      OBVIOUS
    <3> QED
      BY <1>2, <1>3, <3>1 DEF ResetKeys
  <2>2. ResetKeys' = ResetKeys \cup {k}
    BY <2>1
  <2> QED
    BY <1>2, <2>2 DEF ResetKeys
<1>5. ResetKeys \cup {k} \subseteq DOMAIN tokens
  BY <1>2 DEF ResetKeys
<1>6. Cardinality(ResetKeys \cup {k}) \in 0..MaxTokens
  BY <1>5, ResetKeysBounded DEF ResetsCounted
<1>7. Cardinality(ResetKeys \cup {k}) = Cardinality(ResetKeys) + 1
  <2>1. IsFiniteSet(ResetKeys)
    BY ResetKeysBounded DEF ResetsCounted
  <2> QED
    BY <1>4, <2>1, FS_AddElement
<1>8. account' = [account EXCEPT !.password = @ + 1] /\ account \in User
  BY DEF CommitResetPassword, IdentityTypeOK
<1> DEFINE n == account.password + 1
<1>9. n = Cardinality(ResetKeys') /\ n \in 0..MaxTokens
  BY <1>4, <1>6, <1>7 DEF ResetsCounted
<1>10. account' = [account EXCEPT !.password = n]
  BY <1>8
<1> HIDE DEF n
<1>11. account' \in User /\ account'.password = n
  BY <1>8, <1>9, <1>10 DEF User
<1> QED
  BY <1>9, <1>11 DEF ResetsCounted, TokensKept

-----------------------------------------------------------------------------
(* The invariant                                                           *)

LEMMA InitInv ==
    ASSUME Init
    PROVE  IdentityInv
<1>1. /\ rows = <<>> /\ lapsed = {} /\ tx = [s \in Client |-> Idle]
      /\ tokens = <<>> /\ challenges = <<>> /\ spent = {} /\ doubled = {}
      /\ method = [at |-> "none", secret |-> 0, last |-> -1, unused |-> {}]
      /\ account.password = 0
  BY DEF Init
<1>2. {MaxAttempts, MaxTokens, MaxChallenges, MaxSecrets, MaxStep} \subseteq Nat
      /\ MaxRows \in Nat /\ MaxSessions \in Nat
  BY IdentityAssumption, SessionsAssumption
<1>3. account \in User
  <2>1. PICK kind \in {"buyer", "owner", "phone"} :
          account = [kind |-> kind, password |-> 0,
                     status |-> IF kind = "owner" THEN "active" ELSE "absent"]
    BY DEF Init
  <2> QED
    BY <1>2, <2>1 DEF User
<1>4. \A t \in Client : tx[t] = Idle
  BY <1>1
<1>5. /\ Len(rows) = 0 /\ Row = {} /\ rows \in Seq(RefreshSession)
      /\ tokens \in Seq(OneTimeToken) /\ challenges \in Seq(PhoneOtpChallenge)
      /\ Len(tokens) = 0 /\ DOMAIN tokens = {}
  BY <1>1 DEF Row
<1>6. SessionInv
  <2>1. RowsTyped /\ TxTyped
    BY <1>1, <1>2, <1>5, IdleTyped DEF RowsTyped, TxTyped
  <2>2. LocksApart /\ RenewsHead
    BY <1>4, IdleTyped DEF LocksApart, Apart, RenewsHead, TokenLock, UserLock, MethodLock
  <2>3. Lines
    BY <1>5 DEF Lines
  <2> QED
    BY <2>1, <2>2, <2>3 DEF SessionInv
<1>7. IdentityTypeOK
  <2>1. method \in MfaMethod
    BY <1>1, <1>2 DEF MfaMethod
  <2> QED
    BY <1>2, <1>3, <1>5, <2>1 DEF IdentityTypeOK
<1>8. RoomMade
  <2>1. Active = {}
    BY <1>5 DEF Active
  <2>2. Cardinality(Active) = 0
    BY <2>1, FS_EmptySet
  <2> QED
    BY <1>2, <1>4, <2>2, IdleTyped DEF RoomMade
<1>9. MailSpent /\ PhoneSpent
  BY <1>1, <1>4, IdleTyped DEF MailSpent, PhoneSpent, TokenLock
<1>10. CodesSpent
  <2>1. method.at = "none"
    BY <1>1
  <2> QED
    BY <1>1, <1>4, <2>1, IdleTyped DEF CodesSpent
<1>11. ResetsCounted
  <2>1. ResetKeys = {}
    BY <1>5 DEF ResetKeys
  <2>2. Cardinality(ResetKeys) = 0
    BY <2>1, FS_EmptySet
  <2> QED
    BY <1>1, <1>2, <1>5, <2>2 DEF ResetsCounted
<1>12. ProofUsedOnce
  BY <1>1 DEF ProofUsedOnce
<1> QED
  BY <1>6, <1>7, <1>8, <1>9, <1>10, <1>11, <1>12 DEF IdentityInv

\* What spent is after a step: what it was and the proofs N, all new.
LEMMA ProofsStep ==
    ASSUME IdentityInv, [Next]_vars, TokensKept(tokens'), ChallengesKept(challenges')
    PROVE  MailSpent' /\ CodesSpent' /\ PhoneSpent' /\ ResetsCounted' /\ doubled' = doubled
           /\ account' \in User /\ method' \in MfaMethod
<1> USE DEF IdentityInv
<1>1. account'.kind = account.kind
  BY AccountFields
<1>2. ASSUME Unspent
      PROVE  MailSpent' /\ PhoneSpent' /\ doubled' = doubled /\ spent' = spent
  <2>1. spent' = spent \cup {} /\ spent' = spent /\ doubled' = doubled
    BY <1>2 DEF Unspent
  <2>2. MailSpent'
    BY <1>2, MailUnspentKeeps
  <2> DEFINE N == {}
  <2>3. spent' = spent \cup N /\ (\A p : p \notin N)
    BY <2>1
  <2> HIDE DEF N
  <2>4. PhoneSpent'
    BY <2>3, PhoneKeeps
  <2> QED
    BY <2>1, <2>2, <2>4
<1>3. ASSUME NEW s \in Client, NEW k \in DOMAIN tokens, VerifyEmail(s, k)
      PROVE  /\ MailSpent' /\ PhoneSpent' /\ doubled' = doubled
             /\ \E N : /\ spent' = spent \cup N
                       /\ \A p \in N : p[1] = "verify_email"
  <2> DEFINE N == {<<"verify_email", k>>}
  <2>1. MailSpent' /\ doubled' = doubled /\ spent' = spent \cup N
    BY <1>3, VerifySpends
  <2>2. \A p \in N : p[1] = "verify_email"
    OBVIOUS
  <2>3. \A t \in Client : <<"phone", tx'[t].key>> \notin N
    OBVIOUS
  <2> HIDE DEF N
  <2>4. PhoneSpent'
    BY <2>1, <2>2, <2>3, PhoneKeeps
  <2> QED
    BY <2>1, <2>2, <2>4
<1>4. ASSUME NEW s \in Client, CommitResetPassword(s)
      PROVE  /\ MailSpent' /\ PhoneSpent' /\ doubled' = doubled
             /\ \E N : /\ spent' = spent \cup N
                       /\ \A p \in N : p[1] = "reset_password"
  <2> DEFINE N == {<<"reset_password", tx[s].key>>}
  <2>1. MailSpent' /\ doubled' = doubled /\ spent' = spent \cup N
    BY <1>4, ResetSpends
  <2>2. \A p \in N : p[1] = "reset_password"
    OBVIOUS
  <2>3. \A t \in Client : <<"phone", tx'[t].key>> \notin N
    OBVIOUS
  <2> HIDE DEF N
  <2>4. PhoneSpent'
    BY <2>1, <2>2, <2>3, PhoneKeeps
  <2> QED
    BY <2>1, <2>2, <2>4
<1>5. ASSUME NEW s \in Client, NEW k \in Row, NEW c \in 0..MaxStep + 1,
             ConfirmEnrollment(s, k, c)
      PROVE  /\ MailSpent' /\ PhoneSpent' /\ doubled' = doubled
             /\ \E N : /\ spent' = spent \cup N
                       /\ \A p \in N : p[1] = "totp"
  <2> DEFINE N == {<<"totp", method.secret, c>>}
  <2>1. doubled' = doubled /\ spent' = spent \cup N
    BY <1>5, ConfirmKeepsCodes
  <2>2. \A p \in N : p[1] = "totp"
    OBVIOUS
  <2>3. \A t \in Client : <<"phone", tx'[t].key>> \notin N
    OBVIOUS
  <2>4. \A t \in Client : tx'[t] = tx[t]
    BY <1>5 DEF ConfirmEnrollment
  <2> HIDE DEF N
  <2>5. PhoneSpent'
    BY <2>1, <2>2, <2>3, PhoneKeeps
  <2>6. MailSpent'
    BY <2>1, <2>2, <2>4, OthersSpend DEF Mailed
  <2> QED
    BY <2>1, <2>2, <2>5, <2>6
<1>6. ASSUME NEW s \in Client, CommitMfaLogin(s)
      PROVE  /\ MailSpent' /\ PhoneSpent' /\ doubled' = doubled
             /\ \E N : /\ spent' = spent \cup N
                       /\ \A p \in N : p[1] \in {"totp", "recovery", "mfa_login"}
  <2> DEFINE N == {tx[s].proof, <<"mfa_login", tx[s].key>>}
  <2>1. MailSpent' /\ doubled' = doubled /\ spent' = spent \cup N
    BY <1>6, MfaLoginSpends DEF ResetsCounted
  <2>2. tx[s].proof[1] \in {"totp", "recovery"}
    BY <1>6, KindsDiffer DEF CodesSpent, CommitMfaLogin
  <2>3. \A p \in N : p[1] \in {"totp", "recovery", "mfa_login"}
    BY <2>2
  <2> HIDE DEF N
  <2>4. \A t \in Client : <<"phone", tx'[t].key>> \notin N
    BY <2>3, KindsDiffer
  <2>5. PhoneSpent'
    BY <2>1, <2>3, <2>4, PhoneKeeps
  <2> QED
    BY <2>1, <2>3, <2>5
<1>7. ASSUME NEW s \in Client, CommitPhoneLogin(s)
      PROVE  /\ MailSpent' /\ PhoneSpent' /\ doubled' = doubled
             /\ \E N : /\ spent' = spent \cup N
                       /\ \A p \in N : p[1] = "phone"
  <2> DEFINE N == {<<"phone", tx[s].key>>}
  <2>1. PhoneSpent' /\ doubled' = doubled /\ spent' = spent \cup N
    BY <1>7, PhoneSpends
  <2>2. \A p \in N : p[1] = "phone"
    OBVIOUS
  <2>3. \A t \in Client : tx'[t] = tx[t] \/ tx'[t] = Idle
    BY <1>7 DEF CommitPhoneLogin, Finished, SessionInv, TxTyped
  <2> HIDE DEF N
  <2>4. MailSpent'
    BY <2>1, <2>2, <2>3, OthersSpend DEF Mailed
  <2> QED
    BY <2>1, <2>2, <2>4
<1>8. /\ MailSpent' /\ PhoneSpent' /\ doubled' = doubled
      /\ \/ \E N : /\ spent' = spent \cup N
                   /\ \A p \in N : p[1] \notin {"reset_password", "totp", "recovery"}
         \/ \E s \in Client : CommitResetPassword(s) \/ CommitMfaLogin(s)
         \/ \E s \in Client, k \in Row, c \in 0..MaxStep + 1 : ConfirmEnrollment(s, k, c)
  <2> DEFINE Others == \E N : /\ spent' = spent \cup N
                            /\ \A p \in N : p[1] \notin {"reset_password", "totp", "recovery"}
  <2>1. Unspent => MailSpent' /\ PhoneSpent' /\ doubled' = doubled /\ Others
    <3> SUFFICES ASSUME Unspent
                 PROVE  MailSpent' /\ PhoneSpent' /\ doubled' = doubled /\ Others
      OBVIOUS
    <3> DEFINE N == {}
    <3>1. spent' = spent \cup N /\ \A p \in N : p[1] = "none"
      BY <1>2
    <3> HIDE DEF N
    <3>2. Others
      BY <3>1
    <3> QED
      BY <1>2, <3>2
  <2>2. ASSUME NEW s \in Client, NEW k \in DOMAIN tokens, VerifyEmail(s, k)
        PROVE  MailSpent' /\ PhoneSpent' /\ doubled' = doubled /\ Others
    <3>1. PICK N : spent' = spent \cup N /\ \A p \in N : p[1] = "verify_email"
      BY <1>3, <2>2
    <3>2. Others
      BY <3>1
    <3> QED
      BY <1>3, <2>2, <3>2
  <2>3. ASSUME NEW s \in Client, CommitPhoneLogin(s)
        PROVE  MailSpent' /\ PhoneSpent' /\ doubled' = doubled /\ Others
    <3>1. PICK N : spent' = spent \cup N /\ \A p \in N : p[1] = "phone"
      BY <1>7, <2>3
    <3>2. Others
      BY <3>1
    <3> QED
      BY <1>7, <2>3, <3>2
  <2> HIDE DEF Others
  <2>4. /\ MailSpent' /\ PhoneSpent' /\ doubled' = doubled
        /\ \/ Others
           \/ \E s \in Client : CommitResetPassword(s) \/ CommitMfaLogin(s)
           \/ \E s \in Client, k \in Row, c \in 0..MaxStep + 1 : ConfirmEnrollment(s, k, c)
    BY <1>4, <1>5, <1>6, <2>1, <2>2, <2>3, SpentStep
  <2> QED
    BY <2>4 DEF Others
<1>9. ResetsCounted' /\ account' \in User
  <2>1. ASSUME NEW s \in Client, CommitResetPassword(s)
        PROVE  ResetsCounted' /\ account' \in User
    BY <2>1, ResetCounts
  <2>2. ASSUME ~\E s \in Client : CommitResetPassword(s)
        PROVE  ResetsCounted' /\ account' \in User
    <3>1. account' \in User /\ account'.password = account.password
      BY <2>2, AccountFields
    <3>2. \E N : spent' = spent \cup N /\ \A p \in N : p[1] # "reset_password"
      BY <1>5, <1>6, <1>8, <2>2
    <3>3. PICK N : spent' = spent \cup N /\ \A p \in N : p[1] # "reset_password"
      BY <3>2
    <3>4. \A k : <<"reset_password", k>> \notin N
      BY <3>3, KindsDiffer
    <3> QED
      BY <3>1, <3>3, <3>4, ResetsKeep
  <2> QED
    BY <2>1, <2>2
<1>10. CodesSpent' /\ method' \in MfaMethod
  <2>1. ASSUME NEW s \in Client, StartEnrollment(s) \/ CommitResetMfa(s)
        PROVE  CodesSpent' /\ method' \in MfaMethod
    BY <2>1, StartKeepsCodes, ResetKeepsCodes
  <2>2. ASSUME NEW s \in Client, CommitMfaLogin(s) PROVE CodesSpent' /\ method' \in MfaMethod
    BY <2>2, MfaLoginSpends, LoginKeepsCodes DEF ResetsCounted
  <2>3. ASSUME NEW s \in Client, NEW k \in Row, NEW c \in 0..MaxStep + 1,
               ConfirmEnrollment(s, k, c)
        PROVE  CodesSpent' /\ method' \in MfaMethod
    BY <2>3, ConfirmKeepsCodes
  <2>4. ASSUME method' = method,
               ~\E s \in Client : CommitMfaLogin(s),
               ~\E s \in Client, k \in Row, c \in 0..MaxStep + 1 : ConfirmEnrollment(s, k, c)
        PROVE  CodesSpent' /\ method' \in MfaMethod
    <3>1. \E N : spent' = spent \cup N /\ \A p \in N : p[1] \notin Codes
      BY <1>4, <1>8, <2>4 DEF Codes
    <3>2. \A p \in spent' : p \in spent \/ p[1] \notin Codes
      BY <3>1
    <3> QED
      BY <1>1, <2>4, <3>2, CodesUnspentKeep DEF IdentityTypeOK
  <2> QED
    BY <2>1, <2>2, <2>3, <2>4, MethodStep
<1> QED
  BY <1>8, <1>9, <1>10

LEMMA InvStep ==
    ASSUME IdentityInv, [Next]_vars
    PROVE  IdentityInv'
<1>1. SessionInv'
  BY SessionsKeep DEF IdentityInv
<1>2. TokensKept(tokens') /\ ChallengesKept(challenges')
  BY TokensStep, ChallengesStep DEF IdentityInv, ResetsCounted
<1>3. /\ MailSpent' /\ CodesSpent' /\ PhoneSpent' /\ ResetsCounted' /\ doubled' = doubled
      /\ account' \in User /\ method' \in MfaMethod
  BY <1>2, ProofsStep
<1>4. RoomMade'
  <2>1. account'.kind = account.kind
    BY AccountFields DEF IdentityInv
  <2>2. \A t \in Client : tx[t].at = "mfa" => account.kind = "owner"
    BY DEF IdentityInv, CodesSpent
  <2> QED
    BY <2>1, <2>2, RoomKeeps DEF IdentityInv
<1>5. IdentityTypeOK'
  BY <1>1, <1>2, <1>3 DEF IdentityTypeOK, SessionInv, RowsTyped, TokensKept, ChallengesKept
<1>6. ProofUsedOnce'
  BY <1>3 DEF IdentityInv, ProofUsedOnce
<1> QED
  BY <1>1, <1>3, <1>4, <1>5, <1>6 DEF IdentityInv

\* The invariant behind the theorems below: what requests hold stays apart,
\* each family of sessions is one line, room was made before a session is added,
\* and a proof that had its effect left a mark in the rows that refuses it.
THEOREM Invariant == Spec => []IdentityInv
<1>1. Init => IdentityInv
  BY InitInv
<1>2. IdentityInv /\ [Next]_vars => IdentityInv'
  BY InvStep
<1> QED
  BY <1>1, <1>2, PTL DEF Spec

\* The rows keep their shape and the limits of their columns: overlapping
\* guesses of a phone code never push attempt_count past its constraint.
THEOREM TypeCorrect == Spec => []IdentityTypeOK
<1>1. IdentityInv => IdentityTypeOK
  BY DEF IdentityInv
<1> QED
  BY <1>1, Invariant, PTL

\* Two renewals of one refresh token never both succeed: a family of sessions
\* is one line of rows with exactly one that nothing replaced.
THEOREM OneLine == Spec => []OneLineOfSessions
<1>1. IdentityInv => OneLineOfSessions
  BY LinesAreOne DEF IdentityInv
<1> QED
  BY <1>1, Invariant, PTL

\* An emailed token, a sign-in challenge, an authenticator or recovery code and
\* a phone code each have their effect once, whatever requests overlap or fail.
THEOREM ProofsUsedOnce == Spec => []ProofUsedOnce
<1>1. IdentityInv => ProofUsedOnce
  BY DEF IdentityInv
<1> QED
  BY <1>1, Invariant, PTL

\* However sign-ins and renewals overlap, a buyer has at most
\* max_active_sessions_per_user active sessions.
THEOREM BuyersBounded == Spec => []SessionsBounded
<1>1. IdentityInv => SessionsBounded
  BY DEF IdentityInv, RoomMade, Active, SessionsBounded
<1> QED
  BY <1>1, Invariant, PTL

=============================================================================
