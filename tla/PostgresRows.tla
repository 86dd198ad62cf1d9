----------------------------- MODULE PostgresRows -----------------------------
(***************************************************************************)
(* The Postgres store (src/core/storage/postgres.ts): rows that are never  *)
(* expired but soft-deleted by cleanup and purged later, transitions that  *)
(* log in the same database transaction, a refund scan by state, and the   *)
(* table of seen transactions. Every SQL transaction is one step: the      *)
(* UPDATE of a transition locks its row and looks at the state again. What *)
(* may happen besides is that it fails, and that its answer is lost.       *)
(***************************************************************************)
EXTENDS AuditTrail

CONSTANTS
    Row,            \* challengeIds
    NoRow,
    RowTTL,         \* recordTTLSeconds
    DeliveredRowTTL,\* deliveredTTLSeconds
    MaxRowAudit     \* bound on the audit rows of a challenge

ASSUME RowAssumption ==
    /\ NoRow \notin Row
    /\ RowTTL \in Nat \ {0} /\ DeliveredRowTTL \in Nat \ {0} /\ MaxRowAudit \in Nat

VARIABLES
    rows,       \* the challenges table
    history,    \* the audit table; its rows are never deleted
    seenRow,    \* the row of one transfer in the seen_txs table
    claim       \* what the call that paid a challenge knows of its markUsed

pgVars == <<rows, history, seenRow, claim>>

ChallengeRow ==
    [there     : BOOLEAN,                   \* created and not purged
     state     : RecordState,
     grant     : BOOLEAN,                   \* access_grant IS NOT NULL
     age       : 0..RowTTL,                 \* since created_at
     delivered : 0..DeliveredRowTTL,        \* since delivered_at
     deleted   : BOOLEAN]                   \* deleted_at IS NOT NULL

PgTypeOK ==
    /\ rows \in [Row -> ChallengeRow]
    /\ history \in [Row -> Seq(Entry)]
    /\ seenRow \in Row \cup {NoRow}
    /\ claim \in [Row -> {"none", "asked", "won", "lost"}]

NoChallengeRow == [there |-> FALSE, state |-> "PENDING", grant |-> FALSE,
                   age |-> 0, delivered |-> 0, deleted |-> FALSE]

\* createSchema: empty tables.
PgInit ==
    /\ rows = [c \in Row |-> NoChallengeRow]
    /\ history = [c \in Row |-> << >>]
    /\ seenRow = NoRow
    /\ claim = [c \in Row |-> "none"]

Visible(c) == rows[c].there /\ ~ rows[c].deleted

\* findPendingForRefund, of rows whose payer is known and whose paid_at is old
\* enough.
PgPendingForRefund ==
    {c \in Row : Visible(c) /\ rows[c].state = "PAID" /\ ~ rows[c].grant}

-----------------------------------------------------------------------------
PgCreate(c) ==
    /\ history[c] = << >>
    /\ rows' = [rows EXCEPT ![c] = [NoChallengeRow EXCEPT !.there = TRUE]]
    /\ history' = [history EXCEPT ![c] = <<[from |-> "none", to |-> "PENDING"]>>]
    /\ UNCHANGED <<seenRow, claim>>

\* Who asks for a transition: a roll back follows a lost claim, a grant one that
\* was won; PAID -> PAID stores the grant and DELIVERED follows it.
MayAsk(c, from, to) ==
    /\ to = "PENDING" => claim[c] = "lost"
    /\ from = "PAID" /\ to = "PAID" => claim[c] = "won"
    /\ to = "DELIVERED" => rows[c].grant

\* The UPDATE of a transition, of a visible row in the state it names.
UpdateRow(c, from, to) ==
    /\ Visible(c) /\ rows[c].state = from
    /\ MayAsk(c, from, to)
    /\ Len(history[c]) < MaxRowAudit
    /\ rows' = [rows EXCEPT ![c].state = to,
                            ![c].grant = @ \/ (from = "PAID" /\ to = "PAID")]
    /\ claim' = [claim EXCEPT ![c] = IF from = "PENDING" /\ to = "PAID" THEN "asked"
                                     ELSE IF to = "PENDING" THEN "none" ELSE @]

\* Mutated form of PgTransition: the audit row is a transaction of its own, which
\* may fail.
LogSeparately(c, from, to) ==
    /\ UpdateRow(c, from, to)
    /\ \/ history' = [history EXCEPT ![c] = Append(@, [from |-> from, to |-> to])]
       \/ UNCHANGED history
    /\ UNCHANGED seenRow

\* transition: the update and its audit row are committed together.
PgTransition(c, from, to) ==
    /\ UpdateRow(c, from, to)
    /\ history' = [history EXCEPT ![c] = Append(@, [from |-> from, to |-> to])]
    /\ UNCHANGED seenRow

\* Mutated form of PgMarkUsed: only a conflict counts as a lost claim, an error
\* is let through.
PgMarkErrorWins(c) ==
    /\ claim[c] = "asked"
    /\ \/ seenRow = NoRow /\ seenRow' = c /\ claim' = [claim EXCEPT ![c] = "won"]
       \/ seenRow # NoRow /\ UNCHANGED seenRow /\ claim' = [claim EXCEPT ![c] = "lost"]
       \/ UNCHANGED seenRow /\ claim' = [claim EXCEPT ![c] = "won"]
    /\ UNCHANGED <<rows, history>>

\* markUsed by the call that paid c: INSERT ... ON CONFLICT DO NOTHING. Any error,
\* also one that comes after the row was written, counts as a lost claim.
PgMarkUsed(c) ==
    /\ claim[c] = "asked"
    /\ \/ seenRow = NoRow /\ seenRow' = c /\ claim' = [claim EXCEPT ![c] = "won"]
       \/ seenRow = NoRow /\ seenRow' = c /\ claim' = [claim EXCEPT ![c] = "lost"]
       \/ UNCHANGED seenRow /\ claim' = [claim EXCEPT ![c] = "lost"]
    /\ UNCHANGED <<rows, history>>

-----------------------------------------------------------------------------
\* Mutated form of Outdated: the parentheses around the first alternative are
\* left out, and with them the look at the state.
OutdatedByDeliveredTTL(c) == rows[c].age >= DeliveredRowTTL

\* The condition of cleanup. Its second alternative holds of unserved payments too.
Outdated(c) ==
    \/ rows[c].state = "DELIVERED" /\ rows[c].delivered >= DeliveredRowTTL
    \/ rows[c].state # "DELIVERED" /\ rows[c].age >= RowTTL

\* cleanup without an argument: every outdated row is soft-deleted at once.
Cleanup ==
    /\ \E c \in Row : Visible(c) /\ Outdated(c)
    /\ rows' = [c \in Row |-> [rows[c] EXCEPT !.deleted =
                                  @ \/ (rows[c].there /\ Outdated(c))]]
    /\ UNCHANGED <<history, seenRow, claim>>

\* cleanup(olderThan) and purgeDeleted: soft-deleted rows leave the table, their
\* history does not.
PurgeDeleted ==
    /\ \E gone \in SUBSET {c \in Row : rows[c].there /\ rows[c].deleted} :
          /\ gone # {}
          /\ rows' = [c \in Row |-> IF c \in gone THEN [rows[c] EXCEPT !.there = FALSE]
                                    ELSE rows[c]]
    /\ UNCHANGED <<history, seenRow, claim>>

RowsAge ==
    /\ \E c \in Row : rows[c].there
    /\ rows' = [c \in Row |->
          IF ~ rows[c].there THEN rows[c]
          ELSE [rows[c] EXCEPT
                  !.age = IF @ < RowTTL THEN @ + 1 ELSE @,
                  !.delivered = IF rows[c].state = "DELIVERED" /\ @ < DeliveredRowTTL
                                THEN @ + 1 ELSE @]]
    /\ UNCHANGED <<history, seenRow, claim>>

PgNext ==
    \/ \E c \in Row : PgCreate(c) \/ PgMarkUsed(c)
    \/ \E c \in Row, step \in Asked : PgTransition(c, step[1], step[2])
    \/ Cleanup \/ PurgeDeleted \/ RowsAge

PgSpec == PgInit /\ [][PgNext]_pgVars

-----------------------------------------------------------------------------
\* The audit table tells the whole history of every challenge, also of one whose
\* row is deleted or gone, whatever transitions raced with the cleanup.
PgAuditAccounts ==
    \A c \in Row : history[c] # << >> => AccountsFor(history[c], rows[c].state)

\* A payment that is owed a grant or a refund stays in sight of the refund job
\* for the whole life of its record: cleanup takes no unserved payment early.
PgOwedIsScanned ==
    \A c \in Row :
        /\ history[c] # << >>
        /\ rows[c].state = "PAID" /\ ~ rows[c].grant
        /\ rows[c].age < RowTTL
        => c \in PgPendingForRefund

\* Two challenges that were paid with one transfer never both get a grant, with
\* answers of the database lost at any point and rows cleaned up in between.
PgGrantOwnsTx == \A c \in Row : rows[c].grant => seenRow = c
=============================================================================
