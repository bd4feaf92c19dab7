--------------------------- MODULE EvidenceWorker ---------------------------
(***************************************************************************)
(* The outbox, the integrity worker (sort4circ_dpp/evidence.py) and the    *)
(* in-memory ledger adapter (ledger/memory.py).                            *)
(*                                                                         *)
(* Three parties take turns: the API threads commit passport versions and  *)
(* so append to the outbox while the worker walks it; the worker runs one  *)
(* call of drain or reconcile at a time; the ledger confirms what was      *)
(* broadcast whenever it likes.  An evidence identifier is its position in *)
(* the outbox, which nothing reorders.  A call of ledger.submit that       *)
(* raises and the handler that catches it are one step, because no other   *)
(* party writes the entry in between; a receipt that is returned is held   *)
(* by the worker and may be out of date when it is used.                   *)
(***************************************************************************)
EXTENDS Integers, Sequences

CONSTANTS
  MaxAttempts,   \* EvidenceWorker.max_attempts
  SubmitStates,  \* states a successful submission may be recorded in (auto_confirm)
  MaxEntries     \* bound on the length of the outbox (the code has none)

ASSUME AttemptsAssumption == MaxAttempts \in Nat \ {0}
ASSUME SubmitAssumption == SubmitStates \subseteq {"submitted", "confirmed"}
ASSUME EntriesAssumption == MaxEntries \in Nat

States == {"created", "queued", "submitted", "retryableFailed", "confirmed", "terminalFailed"}
TERMINAL_STATES == {"confirmed", "terminalFailed"}

TRANSITIONS ==
  [created |-> {"queued"},
   queued |-> {"submitted", "retryableFailed", "terminalFailed"},
   submitted |-> {"confirmed", "retryableFailed", "terminalFailed"},
   retryableFailed |-> {"queued", "terminalFailed"},
   confirmed |-> {},
   terminalFailed |-> {}]

(* Reason codes a submission fails with; all but the last are retryable. *)
Unavailable == "S4C-LEDGER-UNAVAILABLE"
TimeoutAfterBroadcast == "S4C-LEDGER-TIMEOUT-AFTER-BROADCAST"
SubmitRejected == "S4C-LEDGER-SUBMIT-REJECTED"
NoReason == "none"
FailureCodes == {Unavailable, TimeoutAfterBroadcast, SubmitRejected}

VARIABLES
  outbox,      \* store.outbox: the evidence entries
  receipts,    \* InMemoryLedger._receipts: position -> state of its receipt
  broadcasts,  \* how many transactions the ledger has stored, per position
  pc,          \* where the worker's thread is
  pos,         \* the entry its loop is at
  held         \* the state of the receipt ledger.submit returned to it

vars == <<outbox, receipts, broadcasts, pc, pos, held>>
ledger == <<receipts, broadcasts>>

Entry == [state : States, attempts : Nat, reason : FailureCodes \cup {NoReason}, hasRef : BOOLEAN]
Steps == {"idle", "pick", "submit", "settle", "confirm", "raised", "reconcile", "recover"}

Terminal(n) == outbox[n].state \in TERMINAL_STATES

(* transition(): the entry after a permitted change of state. *)
Moved(entry, state, reason) ==
  [state |-> state,
   attempts |-> IF state = "submitted" THEN entry.attempts + 1 ELSE entry.attempts,
   reason |-> reason,
   hasRef |-> entry.hasRef]

Permitted(entry, state) == state \in TRANSITIONS[entry.state]

Advance(step) == pc' = step /\ pos' = pos + 1
Goto(step) == pc' = step /\ pos' = pos

-----------------------------------------------------------------------------
(* PassportStore._commit appends the entry of a new version, queued. *)
Commit ==
  /\ Len(outbox) < MaxEntries
  /\ outbox' = Append(outbox, [state |-> "queued", attempts |-> 0,
                               reason |-> NoReason, hasRef |-> FALSE])
  /\ UNCHANGED <<receipts, broadcasts, pc, pos, held>>

(* drain() and reconcile() are called from an idle worker. *)
StartDrain ==
  /\ pc = "idle"
  /\ pc' = "pick" /\ pos' = 1
  /\ UNCHANGED <<outbox, receipts, broadcasts, held>>

StartReconcile ==
  /\ pc = "idle"
  /\ pc' = "reconcile" /\ pos' = 1
  /\ UNCHANGED <<outbox, receipts, broadcasts, held>>

(* The loops iterate over the live list: entries committed meanwhile are   *)
(* visited too, and the call returns when the list is exhausted.           *)
Return ==
  /\ pc \in {"pick", "reconcile"}
  /\ pos > Len(outbox)
  /\ Goto("idle")
  /\ UNCHANGED <<outbox, receipts, broadcasts, held>>

SkipTerminal ==
  /\ pc \in {"pick", "reconcile"}
  /\ pos \in DOMAIN outbox
  /\ Terminal(pos)
  /\ Advance(pc)
  /\ UNCHANGED <<outbox, receipts, broadcasts, held>>

-----------------------------------------------------------------------------
(* _process. *)

(* Faulty variant: the terminal state forgets why the attempts failed. *)
GiveUpSilently ==
  /\ pc = "pick"
  /\ pos \in DOMAIN outbox
  /\ outbox[pos].state = "retryableFailed"
  /\ outbox[pos].attempts >= MaxAttempts
  /\ outbox' = [outbox EXCEPT ![pos] = Moved(@, "terminalFailed", NoReason)]
  /\ Advance("pick")
  /\ UNCHANGED <<receipts, broadcasts, held>>

GiveUp ==
  /\ pc = "pick"
  /\ pos \in DOMAIN outbox
  /\ outbox[pos].state = "retryableFailed"
  /\ outbox[pos].attempts >= MaxAttempts
  /\ outbox' = [outbox EXCEPT ![pos] = Moved(@, "terminalFailed", @.reason)]
  /\ Advance("pick")
  /\ UNCHANGED <<receipts, broadcasts, held>>

Retry ==
  /\ pc = "pick"
  /\ pos \in DOMAIN outbox
  /\ outbox[pos].state = "retryableFailed"
  /\ outbox[pos].attempts < MaxAttempts
  /\ outbox' = [outbox EXCEPT ![pos] = Moved(@, "queued", NoReason)]
  /\ Goto("submit")
  /\ UNCHANGED <<receipts, broadcasts, held>>

Process ==
  /\ pc = "pick"
  /\ pos \in DOMAIN outbox
  /\ outbox[pos].state \notin TERMINAL_STATES \cup {"retryableFailed"}
  /\ Goto("submit")
  /\ UNCHANGED <<outbox, receipts, broadcasts, held>>

(* InMemoryLedger._store. *)
Store(n, state) ==
  /\ receipts' = [m \in DOMAIN receipts \cup {n} |-> IF m = n THEN state ELSE receipts[m]]
  /\ broadcasts' = [broadcasts EXCEPT ![n] = @ + 1]

(* ledger.submit of evidence the ledger knows returns the first receipt. *)
SubmitKnown ==
  /\ pc = "submit"
  /\ pos \in DOMAIN receipts
  /\ held' = receipts[pos]
  /\ Goto("settle")
  /\ UNCHANGED <<outbox, receipts, broadcasts>>

(* Faulty variant: known evidence is stored again. *)
SubmitBlindly ==
  /\ pc = "submit"
  /\ \E state \in SubmitStates : Store(pos, state) /\ held' = state
  /\ Goto("settle")
  /\ UNCHANGED outbox

SubmitStored ==
  /\ pc = "submit"
  /\ pos \notin DOMAIN receipts
  /\ \E state \in SubmitStates : Store(pos, state) /\ held' = state
  /\ Goto("settle")
  /\ UNCHANGED outbox

(* The receipt's transaction reference and network are copied in. *)
Referenced(entry, state) ==
  [state |-> state, attempts |-> entry.attempts, reason |-> entry.reason, hasRef |-> TRUE]

(* Faulty variant: a failure does not count as an attempt. *)
FailedUncounted(entry, code) ==
  [entry EXCEPT !.state = IF code = SubmitRejected THEN "terminalFailed" ELSE "retryableFailed",
                !.reason = code]

(* LedgerError: counted as an attempt, and recorded if the entry is queued. *)
Failed(entry, code) ==
  [state |-> IF entry.state # "queued" THEN entry.state
             ELSE IF code = SubmitRejected THEN "terminalFailed" ELSE "retryableFailed",
   attempts |-> entry.attempts + 1,
   reason |-> IF entry.state = "queued" THEN code ELSE entry.reason,
   hasRef |-> entry.hasRef]

SubmitFails(code) ==
  /\ pc = "submit"
  /\ pos \notin DOMAIN receipts
  /\ IF code = TimeoutAfterBroadcast THEN Store(pos, "submitted") ELSE UNCHANGED ledger
  /\ outbox' = [outbox EXCEPT ![pos] = Failed(@, code)]
  /\ Advance("pick")
  /\ UNCHANGED held

(* A receipt came back.  A transition that is not permitted raises out of  *)
(* drain and leaves the later entries unvisited.                           *)
Settle ==
  /\ pc = "settle"
  /\ Permitted(outbox[pos], "submitted")
  /\ outbox' = [outbox EXCEPT ![pos] = Referenced(Moved(@, "submitted", NoReason), "submitted")]
  /\ IF held = "confirmed" THEN Goto("confirm") ELSE Advance("pick")
  /\ UNCHANGED <<receipts, broadcasts, held>>

TransitionRefused ==
  /\ pc = "settle"
  /\ ~Permitted(outbox[pos], "submitted")
  /\ Goto("raised")
  /\ UNCHANGED <<outbox, receipts, broadcasts, held>>

CallerHandlesError ==
  /\ pc = "raised"
  /\ Goto("idle")
  /\ UNCHANGED <<outbox, receipts, broadcasts, held>>

ConfirmSettled ==
  /\ pc = "confirm"
  /\ outbox' = [outbox EXCEPT ![pos] = Moved(@, "confirmed", NoReason)]
  /\ Advance("pick")
  /\ UNCHANGED <<receipts, broadcasts, held>>

-----------------------------------------------------------------------------
(* reconcile. *)

NothingToRecover ==
  /\ pc = "reconcile"
  /\ pos \in DOMAIN outbox
  /\ ~Terminal(pos)
  /\ pos \notin DOMAIN receipts
  /\ Advance("reconcile")
  /\ UNCHANGED <<outbox, receipts, broadcasts, held>>

StillPending ==
  /\ pc = "reconcile"
  /\ pos \in DOMAIN outbox
  /\ ~Terminal(pos)
  /\ pos \in DOMAIN receipts
  /\ receipts[pos] # "confirmed"
  /\ outbox' = [outbox EXCEPT ![pos] = Referenced(@, @.state)]
  /\ Advance("reconcile")
  /\ UNCHANGED <<receipts, broadcasts, held>>

(* An entry the worker holds for failed or queued is assigned "submitted"  *)
(* without transition().                                                   *)
FoundState(state) == IF state \in {"retryableFailed", "queued"} THEN "submitted" ELSE state

(* Faulty variants: any receipt is taken for a confirmation; terminal      *)
(* entries are not skipped.                                                *)
FoundUnconfirmed ==
  /\ pc = "reconcile"
  /\ pos \in DOMAIN outbox
  /\ ~Terminal(pos)
  /\ pos \in DOMAIN receipts
  /\ outbox' = [outbox EXCEPT ![pos] = Referenced(@, FoundState(@.state))]
  /\ Goto("recover")
  /\ UNCHANGED <<receipts, broadcasts, held>>

FoundForTerminal ==
  /\ pc = "reconcile"
  /\ pos \in DOMAIN outbox
  /\ pos \in DOMAIN receipts
  /\ receipts[pos] = "confirmed"
  /\ outbox' = [outbox EXCEPT ![pos] = Referenced(@, FoundState(@.state))]
  /\ Goto("recover")
  /\ UNCHANGED <<receipts, broadcasts, held>>

FoundConfirmed ==
  /\ pc = "reconcile"
  /\ pos \in DOMAIN outbox
  /\ ~Terminal(pos)
  /\ pos \in DOMAIN receipts
  /\ receipts[pos] = "confirmed"
  /\ outbox' = [outbox EXCEPT ![pos] = Referenced(@, FoundState(@.state))]
  /\ Goto("recover")
  /\ UNCHANGED <<receipts, broadcasts, held>>

Recover ==
  /\ pc = "recover"
  /\ outbox' = [outbox EXCEPT ![pos] = Moved(@, "confirmed", NoReason)]
  /\ Advance("reconcile")
  /\ UNCHANGED <<receipts, broadcasts, held>>

-----------------------------------------------------------------------------
(* The ledger confirms a broadcast transaction. *)
LedgerConfirms(n) ==
  /\ n \in DOMAIN receipts
  /\ receipts[n] = "submitted"
  /\ receipts' = [receipts EXCEPT ![n] = "confirmed"]
  /\ UNCHANGED <<outbox, broadcasts, pc, pos, held>>

Init ==
  /\ outbox = <<>>
  /\ receipts = [n \in {} |-> n]
  /\ broadcasts = [n \in 1..MaxEntries |-> 0]
  /\ pc = "idle"
  /\ pos = 1
  /\ held = "submitted"

Drain ==
  \/ GiveUp \/ Retry \/ Process
  \/ SubmitKnown \/ SubmitStored
  \/ \E code \in FailureCodes : SubmitFails(code)
  \/ Settle \/ TransitionRefused \/ CallerHandlesError \/ ConfirmSettled

Reconcile == NothingToRecover \/ StillPending \/ FoundConfirmed \/ Recover

InsideCall == Return \/ SkipTerminal \/ Drain \/ Reconcile

Next ==
  \/ Commit
  \/ StartDrain \/ StartReconcile
  \/ InsideCall
  \/ \E n \in 1..MaxEntries : LedgerConfirms(n)

Spec == Init /\ [][Next]_vars

(* A call that was begun goes on; whoever runs the worker keeps calling    *)
(* both of its operations; the ledger confirms what it accepted.           *)
Fairness ==
  /\ WF_vars(InsideCall)
  /\ SF_vars(StartDrain)
  /\ SF_vars(StartReconcile)
  /\ \A n \in 1..MaxEntries : WF_vars(LedgerConfirms(n))

FairSpec == Spec /\ Fairness

-----------------------------------------------------------------------------
(* Properties. *)

(* Every variable stays inside its type. *)
TypeOK ==
  /\ outbox \in Seq(Entry) /\ Len(outbox) <= MaxEntries
  /\ DOMAIN receipts \subseteq DOMAIN outbox
  /\ receipts \in [DOMAIN receipts -> {"submitted", "confirmed"}]
  /\ broadcasts \in [1..MaxEntries -> Nat]
  /\ pc \in Steps
  /\ pos \in Nat \ {0}
  /\ held \in {"submitted", "confirmed"}

(* "Submitting the same evidence_id twice returns the original receipt     *)
(* rather than creating a second anchor" (base.py:47), across time-outs,   *)
(* retries and reconciliation.                                             *)
OneAnchor == \A n \in 1..MaxEntries : broadcasts[n] = IF n \in DOMAIN receipts THEN 1 ELSE 0

(* An entry says confirmed only when the ledger holds its confirmed        *)
(* receipt, and then it carries the transaction reference: the integrity   *)
(* endpoint never reports an anchor a verifier cannot find.                *)
ConfirmedIsAnchored ==
  \A n \in DOMAIN outbox : outbox[n].state = "confirmed" =>
    n \in DOMAIN receipts /\ receipts[n] = "confirmed" /\ outbox[n].hasRef

(* Evidence the ledger has no receipt for is submitted only while fewer    *)
(* than max_attempts attempts are counted for it, and no mixture of        *)
(* failures, time-outs, late receipts and reconciliations counts more.     *)
(* Evidence the ledger knows is no part of it: each drain submits an entry *)
(* that is already submitted once more and counts nothing (evidence.py:88, *)
(* where the transition of line 97 raises).                                *)
AttemptsBounded ==
  /\ \A n \in DOMAIN outbox : outbox[n].attempts <= MaxAttempts
  /\ pc = "submit" /\ pos \notin DOMAIN receipts => outbox[pos].attempts < MaxAttempts

(* A failed entry carries the reason code that selects the safe action; an *)
(* entry that succeeded carries none.                                      *)
ReasonTellsOutcome ==
  \A n \in DOMAIN outbox :
    /\ outbox[n].state \in {"retryableFailed", "terminalFailed"} => outbox[n].reason # NoReason
    /\ outbox[n].state = "confirmed" => outbox[n].reason = NoReason

(* Why the above hold: what an entry's state says of its attempts and of   *)
(* the ledger, and what the worker's position says of the entry it is at,  *)
(* although commits and confirmations happen between its steps.            *)
EntryConsistent(n) ==
  /\ outbox[n].state # "created"
  /\ outbox[n].state = "queued" => outbox[n].attempts < MaxAttempts
  /\ outbox[n].state = "submitted" => n \in DOMAIN receipts

WorkerConsistent ==
  /\ pc \in {"submit", "settle", "confirm", "recover"} => pos \in DOMAIN outbox
  /\ pc \in {"submit", "settle"} => outbox[pos].state \in {"queued", "submitted"}
  /\ pc \in {"settle", "confirm", "recover"} => pos \in DOMAIN receipts
  /\ pc = "settle" /\ held = "confirmed" => receipts[pos] = "confirmed"
  /\ pc \in {"confirm", "recover"} => /\ outbox[pos].state = "submitted" /\ outbox[pos].hasRef
                                     /\ receipts[pos] = "confirmed"

Consistent == WorkerConsistent /\ \A n \in DOMAIN outbox : EntryConsistent(n)

(* An entry is left for good once terminal, and otherwise follows the      *)
(* TRANSITIONS table except where reconcile assigns "submitted".           *)
StatesAdvance ==
  [][\A n \in DOMAIN outbox :
       outbox'[n].state # outbox[n].state =>
         \/ outbox'[n].state \in TRANSITIONS[outbox[n].state]
         \/ /\ pc = "reconcile" /\ outbox'[n].state = "submitted"
            /\ outbox[n].state = "retryableFailed" /\ receipts[n] = "confirmed"
    ]_vars

(* "Process every non-terminal entry once" (evidence.py:73): a drain comes *)
(* to its end instead of raising out of the loop.                          *)
DrainCompletes == pc # "raised"

(* "100 percent of accepted evidence reaches a terminal state"             *)
(* (tests/test_evidence.py), although a submitted entry makes every drain  *)
(* raise before it reaches the entries behind it.                          *)
EventuallyTerminal ==
  \A n \in 1..MaxEntries : (n \in DOMAIN outbox) ~> (n \in DOMAIN outbox /\ Terminal(n))

=============================================================================
