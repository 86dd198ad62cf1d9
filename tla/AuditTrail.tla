------------------------------ MODULE AuditTrail ------------------------------
(***************************************************************************)
(* The history both stores keep of a challenge: one entry for its creation *)
(* and one per transition (types/storage.ts). It says what happened to a   *)
(* payment after the challenge itself is gone, so what matters is that it  *)
(* lacks nothing and adds nothing.                                         *)
(***************************************************************************)
EXTENDS Naturals, FiniteSets, Sequences

RecordState == {"PENDING", "PAID", "DELIVERED", "EXPIRED", "CANCELLED",
                "REFUND_PENDING", "REFUNDED", "REFUND_FAILED"}

\* fromState and toState of an entry; "none" is the null before the creation.
Entry == [from : RecordState \cup {"none"}, to : RecordState]

\* The transitions that calls of the engine and of the refund job ask for.
Asked == {<<"PENDING", "PAID">>, <<"PENDING", "EXPIRED">>, <<"PENDING", "CANCELLED">>,
          <<"PAID", "PENDING">>, <<"PAID", "PAID">>, <<"PAID", "DELIVERED">>,
          <<"PAID", "REFUND_PENDING">>, <<"REFUND_PENDING", "REFUNDED">>,
          <<"REFUND_PENDING", "REFUND_FAILED">>, <<"REFUND_FAILED", "PAID">>}

Times(audit, field, s) == Cardinality({i \in DOMAIN audit : audit[i][field] = s})

\* The entries are those of one walk from the creation to the state the record
\* is in: each state was entered as often as it was left, the current one once
\* more.
AccountsFor(audit, current) ==
    \A s \in RecordState :
        Times(audit, "to", s) = Times(audit, "from", s) + (IF s = current THEN 1 ELSE 0)
=============================================================================
