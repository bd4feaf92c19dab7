---------------------------- MODULE BesuLedger ----------------------------
(***************************************************************************)
(* The Besu adapter (ledger/besu.py) under the evidence worker.            *)
(*                                                                         *)
(* The worker is EvidenceWorker's, with other ledger calls: submit sends a *)
(* transaction over JSON-RPC and keeps a receipt only if an answer came    *)
(* back, status asks the node and raises when the node does not answer or  *)
(* the transaction was reverted.  A call that fails may or may not have    *)
(* reached the node.  The chain mines or reverts what it has received when *)
(* it likes, and API threads that verify evidence call status too.         *)
(***************************************************************************)
EXTENDS Integers, Sequences

CONSTANTS
  MaxAttempts,   \* EvidenceWorker.max_attempts
  MaxEntries     \* bound on the length of the outbox (the code has none)

ASSUME AttemptsAssumption == MaxAttempts \in Nat \ {0}
ASSUME EntriesAssumption == MaxEntries \in Nat

VARIABLES
  outbox,      \* store.outbox
  receipts,    \* BesuLedger._receipts: position -> state of its receipt
  ref,         \* the transaction_ref of each receipt, a position in sent
  sent,        \* the transactions the node has received for each position
  configured,  \* contract_address and from_address are set
  pc, pos, held

Worker == INSTANCE EvidenceWorker WITH
  broadcasts <- [n \in 1..MaxEntries |-> Len(sent[n])],
  SubmitStates <- {"submitted"}

vars == <<outbox, receipts, ref, sent, configured, pc, pos, held>>
chain == <<ref, sent, configured>>

Known(n) == n \in DOMAIN receipts
Fate(n) == sent[n][ref[n]]     \* what became of the transaction of a receipt
Received(n) == sent' = [sent EXCEPT ![n] = Append(@, "pending")]

-----------------------------------------------------------------------------
(* Steps of the worker that do not look at the node. *)
InsideWorker ==
  /\ UNCHANGED chain
  /\ \/ Worker!Return \/ Worker!SkipTerminal
     \/ Worker!GiveUp \/ Worker!Retry \/ Worker!Process
     \/ Worker!SubmitKnown
     \/ Worker!Settle \/ Worker!TransitionRefused \/ Worker!CallerHandlesError
     \/ Worker!NothingToRecover \/ Worker!FoundConfirmed \/ Worker!Recover

StartDrain == UNCHANGED chain /\ Worker!StartDrain
StartReconcile == UNCHANGED chain /\ Worker!StartReconcile
Commit == UNCHANGED chain /\ Worker!Commit

-----------------------------------------------------------------------------
(* submit of evidence without a receipt.  What it returns is "submitted",  *)
(* so the worker never confirms in the same call of drain.                 *)
Submitting == pc = "submit" /\ ~Known(pos)

SubmitAnswered ==
  /\ Submitting /\ configured
  /\ Received(pos)
  /\ receipts' = [n \in DOMAIN receipts \cup {pos} |-> IF n = pos THEN "submitted" ELSE receipts[n]]
  /\ ref' = [n \in DOMAIN ref \cup {pos} |-> IF n = pos THEN Len(sent[pos]) + 1 ELSE ref[n]]
  /\ held' = "submitted"
  /\ Worker!Goto("settle")
  /\ UNCHANGED <<outbox, configured>>

SubmitRaises(entry) ==
  /\ outbox' = [outbox EXCEPT ![pos] = entry]
  /\ Worker!Advance("pick")
  /\ UNCHANGED <<receipts, ref, configured, held>>

(* Nothing is configured: "unavailable", and not retryable. *)
SubmitUnconfigured ==
  /\ Submitting /\ ~configured
  /\ SubmitRaises([Worker!Failed(outbox[pos], Worker!Unavailable) EXCEPT !.state = "terminalFailed"])
  /\ UNCHANGED sent

(* The node answers with an error. *)
SubmitRefused ==
  /\ Submitting /\ configured
  /\ SubmitRaises(Worker!Failed(outbox[pos], Worker!SubmitRejected))
  /\ UNCHANGED sent

(* Faulty variant: an unknown outcome is not counted as an attempt. *)
SubmitUncounted ==
  /\ Submitting /\ configured
  /\ SubmitRaises([outbox[pos] EXCEPT !.state = "retryableFailed",
                                      !.reason = Worker!TimeoutAfterBroadcast])
  /\ Received(pos) \/ UNCHANGED sent

(* No answer: the transaction may have reached the node, or not. *)
SubmitUnknown ==
  /\ Submitting /\ configured
  /\ SubmitRaises(Worker!Failed(outbox[pos], Worker!TimeoutAfterBroadcast))
  /\ Received(pos) \/ UNCHANGED sent

-----------------------------------------------------------------------------
(* status of a receipt that is not confirmed. *)
Asking(n) == Known(n) /\ receipts[n] = "submitted"

Reconciling == pc = "reconcile" /\ pos \in DOMAIN outbox /\ ~Worker!Terminal(pos) /\ Asking(pos)

(* Faulty variants: the answer is not kept; any answer is a confirmation. *)
LearnNothing(n) == Asking(n) /\ Fate(n) = "mined" /\ UNCHANGED receipts
LearnUnread(n) ==
  /\ Asking(n) /\ Fate(n) # "pending"
  /\ receipts' = [receipts EXCEPT ![n] = "confirmed"]

(* The node has mined it: the receipt says so from now on. *)
Learn(n) ==
  /\ Asking(n) /\ Fate(n) = "mined"
  /\ receipts' = [receipts EXCEPT ![n] = "confirmed"]

(* ... in reconcile, which goes on with that receipt, ... *)
StatusMined ==
  /\ Reconciling
  /\ Learn(pos)
  /\ UNCHANGED <<outbox, pc, pos, held, chain>>

(* ... and in an API thread that verifies the evidence. *)
Verify(n) ==
  /\ Learn(n)
  /\ UNCHANGED <<outbox, pc, pos, held, chain>>

StatusPending ==
  /\ Reconciling /\ Fate(pos) = "pending"
  /\ UNCHANGED chain
  /\ Worker!StillPending

(* The node does not answer, or answers that the transaction was reverted: *)
(* LedgerError leaves reconcile.                                           *)
StatusRaises ==
  /\ Reconciling
  /\ Worker!Goto("raised")
  /\ UNCHANGED <<outbox, receipts, held, chain>>

-----------------------------------------------------------------------------
(* The chain decides on transaction k of position n. *)
Decide(n, k) ==
  /\ k \in DOMAIN sent[n]
  /\ sent[n][k] = "pending"
  /\ \E fate \in {"mined", "reverted"} : sent' = [sent EXCEPT ![n][k] = fate]
  /\ UNCHANGED <<outbox, receipts, ref, configured, pc, pos, held>>

Init ==
  /\ outbox = <<>>
  /\ receipts = [n \in {} |-> n] /\ ref = [n \in {} |-> n]
  /\ sent = [n \in 1..MaxEntries |-> <<>>]
  /\ configured \in BOOLEAN
  /\ pc = "idle" /\ pos = 1 /\ held = "submitted"

Submit == SubmitAnswered \/ SubmitUnconfigured \/ SubmitRefused \/ SubmitUnknown
Status == StatusMined \/ StatusPending \/ StatusRaises
InsideCall == InsideWorker \/ Submit \/ Status

Next ==
  \/ Commit \/ StartDrain \/ StartReconcile
  \/ InsideCall
  \/ \E n \in 1..MaxEntries : Verify(n)
  \/ \E n \in 1..MaxEntries, k \in 1..MaxAttempts : Decide(n, k)

Spec == Init /\ [][Next]_vars

(* As for the in-memory ledger; and a node that is asked again and again   *)
(* about a mined transaction at last answers.                              *)
Fairness ==
  /\ WF_vars(InsideCall)
  /\ SF_vars(StartDrain)
  /\ SF_vars(StartReconcile)
  /\ SF_vars(StatusMined)
  /\ \A n \in 1..MaxEntries, k \in 1..MaxAttempts : WF_vars(Decide(n, k))

FairSpec == Spec /\ Fairness

-----------------------------------------------------------------------------
(* Properties. *)

(* What the integrity endpoint reports as confirmed is on the chain, under *)
(* the transaction it names, whoever asked the node first.                 *)
ConfirmedIsMined ==
  \A n \in DOMAIN outbox : outbox[n].state = "confirmed" =>
    Known(n) /\ outbox[n].hasRef /\ Fate(n) = "mined"

(* max_attempts also bounds the transactions sent for one evidence, which  *)
(* is what limits the duplicates unknown outcomes may cause.               *)
TransactionsBounded == \A n \in 1..MaxEntries : Len(sent[n]) <= MaxAttempts

(* Every entry becomes terminal unless a transaction that has a receipt    *)
(* was reverted: then reconcile raises there each time it is called.       *)
TerminalUnlessReverted ==
  \A n \in 1..MaxEntries :
    (n \in DOMAIN outbox) ~>
      \/ n \in DOMAIN outbox /\ Worker!Terminal(n)
      \/ \E m \in DOMAIN receipts : Fate(m) = "reverted"

=============================================================================
