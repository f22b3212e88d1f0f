------------------------------ MODULE Sessions ------------------------------
(***************************************************************************)
(* Refresh sessions of one account: services/auth.py and the               *)
(* RefreshSession rows of models/identity.py.  A sign-in starts a family   *)
(* of rows; each renewal replaces the newest row of its family.            *)
(*                                                                         *)
(* The database runs at READ COMMITTED.  A row read FOR UPDATE stays       *)
(* locked until its transaction ends, and an UPDATE picks its rows from    *)
(* what was committed when the statement began, then waits for those that  *)
(* another transaction has locked.  `tx[s].ids` is that choice of rows.    *)
(* Inserting a row for the account waits while another transaction has     *)
(* the account's own row locked FOR UPDATE (its foreign key).              *)
(***************************************************************************)
EXTENDS Integers, Sequences, FiniteSets

CONSTANTS
    Client,       \* requests the API serves at the same time
    MaxSessions,  \* max_active_sessions_per_user
    MaxRows       \* bound: session rows ever inserted

ASSUME SessionsAssumption == MaxSessions \in Nat \ {0} /\ MaxRows \in Nat

VARIABLES
    rows,    \* refresh_sessions in the order of their creation
    lapsed,  \* families whose expires_at has passed: a family shares one
    tx       \* the transaction each request has open

-----------------------------------------------------------------------------
Row == 1..Len(rows)

\* replaced_by_id and rotated_at are set together: 0 stands for neither.
RefreshSession ==
    [family: 1..MaxRows, replaced_by: 0..MaxRows, revoked: BOOLEAN, mfa: BOOLEAN]

Idle == [at |-> "idle", row |-> 0, key |-> 0, ids |-> {}, proof |-> <<>>]

Finished(s) == tx' = [tx EXCEPT ![s] = Idle]

\* Rows and the account's own row that a transaction other than s has locked.
HeldRows(s) == {tx[t].row : t \in Client \ {s}}

\* Faulty: without the lock two sign-ins count the same sessions.
UserNeverLocked(s) == TRUE

UserFree(s) == \A t \in Client \ {s} : tx[t].at \notin {"login", "phone", "reset_mfa"}

Family(k) == {j \in Row : rows[j].family = rows[k].family}

Unrevoked(S) == {k \in S : ~rows[k].revoked}

\* What authenticate_access_principal asks of the row behind an access token.
Current(k) ==
    /\ rows[k].replaced_by = 0
    /\ ~rows[k].revoked
    /\ rows[k].family \notin lapsed

WithRevoked(S) ==
    [k \in Row |-> [rows[k] EXCEPT !.revoked = @ \/ k \in S]]

\* The rows a sign-in revokes to make room for the session it adds: those of
\* the oldest active families beyond the limit.
Surplus ==
    LET open  == {k \in Row : Current(k)}
        older(k) == Cardinality({j \in open : j < k})
    IN  UNION {Unrevoked(Family(k)) :
                 k \in {j \in open : older(j) < 1 + Cardinality(open) - MaxSessions}}

\* issue_session_for_user: the rows chosen are revoked, a new family begins.
SessionIssued(s, mfa) ==
    /\ Len(rows) < MaxRows
    /\ tx[s].ids \cap HeldRows(s) = {}
    /\ rows' = Append(WithRevoked(tx[s].ids),
                      [family |-> Len(rows) + 1, replaced_by |-> 0,
                       revoked |-> FALSE, mfa |-> mfa])

-----------------------------------------------------------------------------
(* Renewal: rotate_refresh_token.  A browser may present any token it was   *)
(* ever given, two of its tabs the same one.                                *)

Presented(s, k) ==
    /\ tx[s] = Idle
    /\ k \notin HeldRows(s)

\* Faulty: a row read without FOR UPDATE: another request may be replacing it.
BeginRotationUnlocked(s, k) ==
    /\ tx[s] = Idle
    /\ Current(k)
    /\ tx' = [tx EXCEPT ![s] = [Idle EXCEPT !.at = "rotate", !.row = k]]
    /\ UNCHANGED <<rows, lapsed>>

\* The row is read and locked; the replacement is inserted later.
BeginRotation(s, k) ==
    /\ Presented(s, k)
    /\ Current(k)
    /\ tx' = [tx EXCEPT ![s] = [Idle EXCEPT !.at = "rotate", !.row = k]]
    /\ UNCHANGED <<rows, lapsed>>

CommitRotation(s) ==
    LET k == tx[s].row
    IN  /\ tx[s].at = "rotate"
        /\ UserFree(s)
        /\ Len(rows) < MaxRows
        /\ rows' = Append([rows EXCEPT ![k].replaced_by = Len(rows) + 1],
                          [rows[k] EXCEPT !.replaced_by = 0, !.revoked = FALSE])
        /\ Finished(s)
        /\ UNCHANGED lapsed

\* A token that was already replaced ends its family.  (Where no row is left
\* to revoke, here and in Logout, the request changes nothing.)
ReuseDetected(s, k) ==
    /\ Presented(s, k)
    /\ rows[k].replaced_by # 0
    /\ Unrevoked(Family(k)) # {}
    /\ tx' = [tx EXCEPT ![s] = [Idle EXCEPT !.at = "revoke", !.row = k,
                                            !.ids = Unrevoked(Family(k))]]
    /\ UNCHANGED <<rows, lapsed>>

\* An expired row is marked revoked the first time it is presented.
ExpiredPresented(s, k) ==
    /\ Presented(s, k)
    /\ rows[k].replaced_by = 0
    /\ ~rows[k].revoked
    /\ rows[k].family \in lapsed
    /\ rows' = WithRevoked({k})
    /\ UNCHANGED <<lapsed, tx>>

\* logout: the row is read without a lock and its family revoked, whether the
\* row was replaced, revoked or has expired.
Logout(s, k) ==
    /\ tx[s] = Idle
    /\ Unrevoked(Family(k)) # {}
    /\ tx' = [tx EXCEPT ![s] = [Idle EXCEPT !.at = "revoke",
                                            !.ids = Unrevoked(Family(k))]]
    /\ UNCHANGED <<rows, lapsed>>

\* _revoke_family reaches the rows it chose and the transaction commits.
CommitRevoke(s) ==
    /\ tx[s].at = "revoke"
    /\ tx[s].ids \cap HeldRows(s) = {}
    /\ rows' = WithRevoked(tx[s].ids)
    /\ Finished(s)
    /\ UNCHANGED lapsed

\* expires_at passes; a replacement inherits it from the row it replaces.  It
\* makes a difference to families that are not revoked already.
FamilyLapses(k) ==
    /\ rows[k].replaced_by = 0 /\ ~rows[k].revoked
    /\ rows[k].family \notin lapsed
    /\ lapsed' = lapsed \cup {rows[k].family}
    /\ UNCHANGED <<rows, tx>>

-----------------------------------------------------------------------------
Renewal(s) ==
    \/ \E k \in Row :
         \/ BeginRotation(s, k)
         \/ ReuseDetected(s, k)
         \/ ExpiredPresented(s, k)
         \/ Logout(s, k)
    \/ CommitRotation(s)
    \/ CommitRevoke(s)

\* The request fails between two of its commits: an error, a disconnect, a
\* deadlock the database breaks, a restart.  What it had not committed is gone.
Rollback(s) ==
    /\ tx[s] # Idle
    /\ Finished(s)
    /\ UNCHANGED <<rows, lapsed>>

-----------------------------------------------------------------------------
\* Two renewals of one token never both succeed: however the requests of a
\* browser's tabs overlap, a family is one line of rows, each replaced by the
\* next, with exactly one row that nothing replaced.
OneLineOfSessions ==
    /\ \A f \in {rows[k].family : k \in Row} :
         Cardinality({k \in Row : rows[k].family = f /\ rows[k].replaced_by = 0}) = 1
    /\ \A j, k \in Row :
         rows[j].replaced_by = k => k > j /\ rows[k].family = rows[j].family

=============================================================================
