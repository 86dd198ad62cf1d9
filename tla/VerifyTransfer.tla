---------------------------- MODULE VerifyTransfer ----------------------------
(***************************************************************************)
(* verifyProof (src/adapter/adapter.ts, verify-transfer.ts): a transaction *)
(* is looked up, its events are added up, and the time of its block is     *)
(* compared with the expiry of the challenge. The lookup of the receipt    *)
(* and that of the block are two calls of the chain's node; meanwhile the  *)
(* transaction may yet be mined. Of all this ChallengeEngine knows whether *)
(* a transfer is on chain.                                                 *)
(***************************************************************************)
EXTENDS SequencesExt

CONSTANTS
    Sender,
    NoSender,
    Required,       \* expectedAmountRaw
    MaxValue,       \* bound on the value of one event
    MaxEvents       \* bound on the events of a transaction

ASSUME VerifyAssumption ==
    /\ NoSender \notin Sender
    /\ Required \in Nat /\ MaxValue \in Nat /\ MaxEvents \in Nat

VARIABLES
    transaction,    \* what the transaction did, or will have done once it is mined
    mined,
    proof           \* the check: where it is, and what it has found so far

verifyVars == <<transaction, mined, proof>>

\* A log of the receipt: USDC sent to the seller, USDC sent to somebody else, or
\* an event of another contract, or of another kind, that looks like the first.
Event == [kind : {"toSeller", "toOther", "otherContract", "otherEvent"},
          from : Sender, value : 0..MaxValue]

\* inTime: whether the block is not younger than the challenge's expiry.
Transaction == [events   : BoundedSeq(Event, MaxEvents),
                reverted : BOOLEAN, inTime : BOOLEAN]

ErrorCode == {"CHAIN_MISMATCH", "TX_NOT_FOUND", "RPC_ERROR", "TX_REVERTED",
              "WRONG_RECIPIENT", "AMOUNT_INSUFFICIENT", "TX_AFTER_EXPIRY"}

VerifyTypeOK ==
    /\ mined \in BOOLEAN
    /\ proof \in [pc    : {"idle", "receipt", "block", "verified", "threw"} \cup ErrorCode,
                  total : 0..MaxEvents * MaxValue,
                  from  : Sender \cup {NoSender}]

NoProof == [pc |-> "idle", total |-> 0, from |-> NoSender]

\* A reverted transaction has no events.
VerifyInit ==
    /\ transaction \in {t \in Transaction : t.reverted => t.events = << >>}
    /\ mined = FALSE
    /\ proof = NoProof

Conclude(code) == proof' = [proof EXCEPT !.pc = code]

\* Mutated form of Matches: any Transfer event counts, whatever the contract.
MatchesAnyContract(event) == event.kind \in {"toSeller", "otherContract"}

\* USDC's address, the signature of Transfer, and the expected recipient.
Matches(event) == event.kind = "toSeller"

\* The loop over the logs: the sum, and the sender of the first that matches.
AddUp(found, event) ==
    IF ~ Matches(event) THEN found
    ELSE [total |-> found.total + event.value,
          from  |-> IF found.from = NoSender THEN event.from ELSE found.from]

Found == FoldLeft(AddUp, [total |-> 0, from |-> NoSender], transaction.events)

\* A client that was told TX_UNCONFIRMED asks again, as one that got an error may.
AskForProof ==
    /\ proof.pc \in {"idle", "threw"} \cup ErrorCode
    /\ \/ proof' = [NoProof EXCEPT !.pc = "receipt"]
       \/ proof' = [NoProof EXCEPT !.pc = "CHAIN_MISMATCH"]
    /\ UNCHANGED <<transaction, mined>>

\* What is decided from the receipt alone.
ReceiptVerdict == IF transaction.reverted THEN "TX_REVERTED"
                  ELSE IF Found.total = 0 THEN "WRONG_RECIPIENT"
                  ELSE IF Found.total < Required THEN "AMOUNT_INSUFFICIENT"
                  ELSE "block"

\* getTransactionReceipt. The node may not know a transaction that is mined.
ReadReceipt ==
    /\ proof.pc = "receipt"
    /\ \/ Conclude("RPC_ERROR")
       \/ Conclude("TX_NOT_FOUND")
       \/ mined /\ proof' = [pc |-> ReceiptVerdict, total |-> Found.total, from |-> Found.from]
    /\ UNCHANGED <<transaction, mined>>

\* getBlock, whose errors nobody catches.
ReadBlock ==
    /\ proof.pc = "block"
    /\ \/ transaction.inTime /\ Conclude("verified")
       \/ ~ transaction.inTime /\ Conclude("TX_AFTER_EXPIRY")
       \/ Conclude("threw")
    /\ UNCHANGED <<transaction, mined>>

\* External: the chain takes the transaction up.
TransactionMined ==
    /\ ~ mined /\ mined' = TRUE
    /\ UNCHANGED <<transaction, proof>>

VerifyNext == AskForProof \/ ReadReceipt \/ ReadBlock \/ TransactionMined

VerifySpec == VerifyInit /\ [][VerifyNext]_verifyVars

-----------------------------------------------------------------------------
\* The USDC that the seller got, by the ledger.
Received ==
    MapThenSumSet(LAMBDA i : transaction.events[i].value,
                  {i \in DOMAIN transaction.events :
                      transaction.events[i].kind = "toSeller"})

\* Who sent it, as the events have it: one that moves nothing has a sender too.
Payer ==
    {transaction.events[i].from :
        i \in {j \in DOMAIN transaction.events : transaction.events[j].kind = "toSeller"}}

Pays == /\ mined /\ ~ transaction.reverted /\ transaction.inTime
        /\ Received > 0 /\ Received >= Required

\* A proof is accepted only for a transaction that gave the seller the price in
\* time, and a refund will go to one of its senders; one that did is never called
\* too small, misdirected, late or reverted, in whatever events the price is split
\* and whatever other events are between them.
VerdictIsRight ==
    /\ proof.pc = "verified" => Pays /\ proof.from \in Payer
    /\ proof.pc \in {"TX_REVERTED", "WRONG_RECIPIENT", "AMOUNT_INSUFFICIENT", "TX_AFTER_EXPIRY"}
          => ~ Pays
=============================================================================
