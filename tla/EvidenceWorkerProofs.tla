----------------------- MODULE EvidenceWorkerProofs -----------------------
(***************************************************************************)
(* Theorems about the integrity worker, for every number of attempts,      *)
(* every length of the outbox and either confirmation mode of the ledger.  *)
(***************************************************************************)
EXTENDS EvidenceWorker, TLAPS

-----------------------------------------------------------------------------
(* The entries the worker writes. *)

LEMMA MovedTyped ==
  ASSUME NEW entry \in Entry, NEW state \in States, NEW reason \in FailureCodes \cup {NoReason}
  PROVE  Moved(entry, state, reason) \in Entry
  BY DEF Moved, Entry

LEMMA FailedTyped ==
  ASSUME NEW entry \in Entry, NEW code \in FailureCodes
  PROVE  Failed(entry, code) \in Entry
  BY DEF Failed, Entry, States

LEMMA ReferencedTyped ==
  ASSUME NEW entry \in Entry, NEW state \in States
  PROVE  Referenced(entry, state) \in Entry
  BY DEF Referenced, Entry

(* Overwriting the entry the worker is at with a well-typed one. *)
LEMMA OverwriteTyped ==
  ASSUME NEW s \in Seq(Entry), NEW n \in DOMAIN s, NEW entry \in Entry
  PROVE  /\ [s EXCEPT ![n] = entry] \in Seq(Entry)
         /\ Len([s EXCEPT ![n] = entry]) = Len(s)
         /\ DOMAIN [s EXCEPT ![n] = entry] = DOMAIN s
  OBVIOUS

-----------------------------------------------------------------------------
(* The inductive invariant: what each entry says is true of a ledger whose *)
(* receipts are rec, and the worker's position agrees with its entry.      *)

GoodEntry(entry, n, rec) ==
  /\ entry \in Entry
  /\ entry.state # "created"
  /\ entry.attempts <= MaxAttempts
  /\ entry.state = "queued" => entry.attempts < MaxAttempts
  /\ entry.state = "submitted" => n \in DOMAIN rec
  /\ entry.state = "confirmed" => /\ n \in DOMAIN rec /\ rec[n] = "confirmed"
                                  /\ entry.hasRef /\ entry.reason = NoReason
  /\ entry.state \in {"retryableFailed", "terminalFailed"} => entry.reason # NoReason

GoodEntries == \A n \in DOMAIN outbox : GoodEntry(outbox[n], n, receipts)

IInv == TypeOK /\ GoodEntries /\ WorkerConsistent /\ OneAnchor

LEMMA InvariantImplies ==
  ASSUME IInv
  PROVE  Consistent /\ ConfirmedIsAnchored /\ AttemptsBounded /\ ReasonTellsOutcome
<1>1. Consistent /\ ConfirmedIsAnchored /\ ReasonTellsOutcome
  BY DEF IInv, GoodEntries, GoodEntry, Consistent, EntryConsistent, ConfirmedIsAnchored, ReasonTellsOutcome
<1>2. \A n \in DOMAIN outbox : outbox[n].attempts <= MaxAttempts
  BY DEF IInv, GoodEntries, GoodEntry
<1>3. ASSUME pc = "submit", pos \notin DOMAIN receipts
      PROVE  outbox[pos].attempts < MaxAttempts
  <2>1. pos \in DOMAIN outbox /\ outbox[pos].state \in {"queued", "submitted"}
    BY <1>1, <1>3 DEF Consistent, WorkerConsistent
  <2> QED
    BY <1>1, <1>3, <2>1 DEF Consistent, EntryConsistent
<1> QED
  BY <1>1, <1>2, <1>3 DEF AttemptsBounded

(* A ledger only learns: receipts are neither dropped nor taken back. *)
Learns(old, new) ==
  \A n \in DOMAIN old : n \in DOMAIN new /\ (old[n] = "confirmed" => new[n] = "confirmed")

(* Overwriting one entry with a good one keeps all entries good. *)
LEMMA OverwriteGood ==
  ASSUME TypeOK, GoodEntries, pos \in DOMAIN outbox, Learns(receipts, receipts'),
         NEW entry, GoodEntry(entry, pos, receipts'),
         outbox' = [outbox EXCEPT ![pos] = entry]
  PROVE  /\ GoodEntries' /\ outbox'[pos] = entry
         /\ outbox' \in Seq(Entry) /\ Len(outbox') = Len(outbox) /\ DOMAIN outbox' = DOMAIN outbox
<1>1. outbox \in Seq(Entry) /\ entry \in Entry
  BY DEF TypeOK, GoodEntry
<1>2. /\ outbox' \in Seq(Entry) /\ Len(outbox') = Len(outbox) /\ DOMAIN outbox' = DOMAIN outbox
      /\ outbox'[pos] = entry /\ \A n \in DOMAIN outbox : n # pos => outbox'[n] = outbox[n]
  BY <1>1
<1>3. \A n \in DOMAIN outbox : GoodEntry(outbox[n], n, receipts')
  BY DEF GoodEntries, GoodEntry, Learns
<1> QED
  BY <1>2, <1>3 DEF GoodEntries

(* Entries nobody wrote stay good while the ledger learns. *)
LEMMA UntouchedGood ==
  ASSUME GoodEntries, Learns(receipts, receipts'), outbox' = outbox
  PROVE  GoodEntries'
  BY DEF GoodEntries, GoodEntry, Learns

(* Storing a receipt the ledger lacks. *)
LEMMA StoreLearns ==
  ASSUME TypeOK, OneAnchor, NEW n \in DOMAIN outbox, n \notin DOMAIN receipts,
         NEW state \in {"submitted", "confirmed"}, Store(n, state)
  PROVE  /\ Learns(receipts, receipts') /\ OneAnchor'
         /\ DOMAIN receipts' = DOMAIN receipts \cup {n} /\ receipts'[n] = state
         /\ receipts' \in [DOMAIN receipts' -> {"submitted", "confirmed"}]
         /\ broadcasts' \in [1..MaxEntries -> Nat]
<1>1. n \in 1..MaxEntries
  BY EntriesAssumption DEF TypeOK
<1>2. /\ DOMAIN receipts' = DOMAIN receipts \cup {n} /\ receipts'[n] = state
      /\ \A m \in DOMAIN receipts : receipts'[m] = receipts[m]
      /\ receipts' \in [DOMAIN receipts' -> {"submitted", "confirmed"}]
  BY DEF Store, TypeOK
<1>3. broadcasts' \in [1..MaxEntries -> Nat]
  BY <1>1 DEF Store, TypeOK
<1>4. OneAnchor'
  BY <1>1, <1>2 DEF Store, TypeOK, OneAnchor
<1> QED
  BY <1>2, <1>3, <1>4 DEF Learns

LEMMA InvariantInit == Init => IInv
<1> SUFFICES ASSUME Init PROVE IInv
  OBVIOUS
<1>1. TypeOK
  BY EntriesAssumption DEF Init, TypeOK, Steps
<1> QED
  BY <1>1 DEF Init, IInv, GoodEntries, WorkerConsistent, OneAnchor

-----------------------------------------------------------------------------
(* The steps. *)

(* Steps that move the worker and write nothing else. *)
LEMMA MoveStep ==
  ASSUME IInv,
         \/ StartDrain \/ StartReconcile \/ Return \/ SkipTerminal \/ Process
         \/ SubmitKnown \/ TransitionRefused \/ CallerHandlesError \/ NothingToRecover
  PROVE  IInv'
<1>1. UNCHANGED <<outbox, receipts, broadcasts>>
  BY DEF StartDrain, StartReconcile, Return, SkipTerminal, Process, SubmitKnown,
         TransitionRefused, CallerHandlesError, NothingToRecover
<1>2. GoodEntries' /\ OneAnchor'
  BY <1>1 DEF IInv, GoodEntries, OneAnchor
<1>3. TypeOK'
  BY <1>1 DEF IInv, TypeOK, Steps, Goto, Advance,
         StartDrain, StartReconcile, Return, SkipTerminal, Process, SubmitKnown,
         TransitionRefused, CallerHandlesError, NothingToRecover
<1>4. ASSUME NEW n \in DOMAIN outbox, outbox[n].state \notin TERMINAL_STATES \cup {"retryableFailed"}
      PROVE  outbox[n].state \in {"queued", "submitted"}
  BY <1>4 DEF IInv, TypeOK, GoodEntries, GoodEntry, Entry, States, TERMINAL_STATES
<1>5. CASE StartDrain \/ StartReconcile \/ Return \/ SkipTerminal \/ TransitionRefused
           \/ CallerHandlesError \/ NothingToRecover
  <2>1. pc' \in {"pick", "reconcile", "idle", "raised"}
    BY <1>5 DEF StartDrain, StartReconcile, Return, SkipTerminal, TransitionRefused,
           CallerHandlesError, NothingToRecover, Goto, Advance
  <2> QED
    BY <1>2, <1>3, <2>1 DEF IInv, WorkerConsistent
<1>6. CASE Process
  BY <1>1, <1>2, <1>3, <1>4, <1>6 DEF IInv, WorkerConsistent, Process, Goto
<1>7. CASE SubmitKnown
  BY <1>1, <1>2, <1>3, <1>7 DEF IInv, WorkerConsistent, SubmitKnown, Goto
<1> QED
  BY <1>5, <1>6, <1>7

(* A new entry is queued and has no attempts yet. *)
LEMMA CommitStep ==
  ASSUME IInv, Commit
  PROVE  IInv'
<1> DEFINE entry == [state |-> "queued", attempts |-> 0, reason |-> NoReason, hasRef |-> FALSE]
<1>1. /\ outbox' = Append(outbox, entry) /\ Len(outbox) < MaxEntries
      /\ UNCHANGED <<receipts, broadcasts, pc, pos, held>>
  BY DEF Commit
<1>2. \A n : GoodEntry(entry, n, receipts)
  BY AttemptsAssumption DEF GoodEntry, Entry, States
<1>3. entry \in Entry
  BY <1>2 DEF GoodEntry
<1> HIDE DEF entry
<1>4. /\ outbox' \in Seq(Entry) /\ Len(outbox') = Len(outbox) + 1
      /\ DOMAIN outbox \subseteq DOMAIN outbox'
      /\ \A n \in DOMAIN outbox : outbox'[n] = outbox[n]
      /\ \A n \in DOMAIN outbox' : n \in DOMAIN outbox \/ outbox'[n] = entry
  BY <1>1, <1>3 DEF IInv, TypeOK
<1>5. TypeOK'
  BY <1>1, <1>4, EntriesAssumption DEF IInv, TypeOK
<1>6. GoodEntries'
  BY <1>1, <1>2, <1>4 DEF IInv, GoodEntries
<1>7. WorkerConsistent' /\ OneAnchor'
  BY <1>1, <1>4 DEF IInv, WorkerConsistent, OneAnchor
<1> QED
  BY <1>5, <1>6, <1>7 DEF IInv

(* Steps that write one entry and leave the ledger alone.  Each lemma shows *)
(* the new entry good; OverwriteGood does the rest.                        *)
LEMMA WriteStep ==
  ASSUME IInv, pos \in DOMAIN outbox, NEW entry, GoodEntry(entry, pos, receipts),
         outbox' = [outbox EXCEPT ![pos] = entry],
         UNCHANGED <<receipts, broadcasts, held>>,
         pc' \in Steps, pos' \in Nat \ {0}
  PROVE  /\ TypeOK' /\ GoodEntries' /\ OneAnchor'
         /\ outbox'[pos] = entry /\ DOMAIN outbox' = DOMAIN outbox
<1>1. TypeOK /\ GoodEntries /\ OneAnchor
  BY DEF IInv
<1>2. receipts' = receipts
  OBVIOUS
<1>3. Learns(receipts, receipts') /\ GoodEntry(entry, pos, receipts')
  BY <1>2 DEF Learns
<1>4. /\ GoodEntries' /\ outbox'[pos] = entry
      /\ outbox' \in Seq(Entry) /\ Len(outbox') = Len(outbox) /\ DOMAIN outbox' = DOMAIN outbox
  BY <1>1, <1>3, OverwriteGood
<1>5. TypeOK'
  BY <1>1, <1>4 DEF TypeOK
<1>6. OneAnchor'
  BY <1>1 DEF OneAnchor
<1> QED
  BY <1>4, <1>5, <1>6

LEMMA GiveUpStep == ASSUME IInv, GiveUp PROVE IInv'
<1> DEFINE entry == Moved(outbox[pos], "terminalFailed", outbox[pos].reason)
<1>1. /\ pos \in DOMAIN outbox /\ outbox[pos].state = "retryableFailed"
      /\ outbox' = [outbox EXCEPT ![pos] = entry]
      /\ UNCHANGED <<receipts, broadcasts, held>> /\ pc' = "pick" /\ pos' = pos + 1
  BY DEF GiveUp, Advance
<1>2. outbox[pos] \in Entry /\ GoodEntry(outbox[pos], pos, receipts) /\ pos \in Nat \ {0}
  BY <1>1 DEF IInv, GoodEntries, GoodEntry, TypeOK
<1>3. entry \in Entry
  BY <1>2, MovedTyped DEF Entry, States
<1>4. GoodEntry(entry, pos, receipts)
  BY <1>1, <1>2, <1>3 DEF GoodEntry, Moved
<1> HIDE DEF entry
<1>p. pos' \in Nat \ {0} /\ pc' \in Steps
  BY <1>1, <1>2 DEF Steps
<1>5. TypeOK' /\ GoodEntries' /\ OneAnchor'
  BY <1>1, <1>4, <1>p, WriteStep
<1>6. WorkerConsistent'
  BY <1>1 DEF WorkerConsistent
<1> QED
  BY <1>5, <1>6 DEF IInv

LEMMA RetryStep == ASSUME IInv, Retry PROVE IInv'
<1> DEFINE entry == Moved(outbox[pos], "queued", NoReason)
<1>1. /\ pos \in DOMAIN outbox /\ outbox[pos].attempts < MaxAttempts
      /\ outbox' = [outbox EXCEPT ![pos] = entry]
      /\ UNCHANGED <<receipts, broadcasts, held>> /\ pc' = "submit" /\ pos' = pos
  BY DEF Retry, Goto
<1>2. outbox[pos] \in Entry /\ GoodEntry(outbox[pos], pos, receipts) /\ pos \in Nat \ {0}
  BY <1>1 DEF IInv, GoodEntries, GoodEntry, TypeOK
<1>3. entry \in Entry
  BY <1>2, MovedTyped DEF Entry, States
<1>4. GoodEntry(entry, pos, receipts) /\ entry.state = "queued"
  BY <1>1, <1>2, <1>3 DEF GoodEntry, Moved
<1> HIDE DEF entry
<1>5. /\ TypeOK' /\ GoodEntries' /\ OneAnchor'
      /\ outbox'[pos] = entry /\ DOMAIN outbox' = DOMAIN outbox
  BY <1>1, <1>2, <1>4, WriteStep DEF Steps
<1>6. WorkerConsistent'
  BY <1>1, <1>4, <1>5 DEF WorkerConsistent
<1> QED
  BY <1>5, <1>6 DEF IInv

LEMMA SettleStep == ASSUME IInv, Settle PROVE IInv'
<1> DEFINE entry == Referenced(Moved(outbox[pos], "submitted", NoReason), "submitted")
<1>1. /\ pc = "settle" /\ Permitted(outbox[pos], "submitted")
      /\ outbox' = [outbox EXCEPT ![pos] = entry]
      /\ UNCHANGED <<receipts, broadcasts, held>>
  BY DEF Settle
<1>2. /\ pos \in DOMAIN outbox /\ pos \in DOMAIN receipts
      /\ outbox[pos].state \in {"queued", "submitted"}
      /\ held = "confirmed" => receipts[pos] = "confirmed"
  BY <1>1 DEF IInv, WorkerConsistent
<1>3. outbox[pos] \in Entry /\ GoodEntry(outbox[pos], pos, receipts) /\ pos \in Nat \ {0}
  BY <1>2 DEF IInv, GoodEntries, GoodEntry, TypeOK
<1>4. outbox[pos].attempts < MaxAttempts
  BY <1>1, <1>2, <1>3 DEF GoodEntry, Permitted, TRANSITIONS
<1>5. Moved(outbox[pos], "submitted", NoReason) \in Entry
  BY <1>3, MovedTyped DEF Entry, States
<1>6. entry \in Entry
  BY <1>5, ReferencedTyped DEF States
<1>7. /\ entry.state = "submitted" /\ entry.attempts = outbox[pos].attempts + 1
      /\ entry.reason = NoReason /\ entry.hasRef
  BY DEF Referenced, Moved
<1>8. GoodEntry(entry, pos, receipts)
  BY <1>2, <1>3, <1>4, <1>6, <1>7, AttemptsAssumption DEF GoodEntry, Entry
<1> HIDE DEF entry
<1>9. /\ pc' \in {"confirm", "pick"} /\ pos' \in Nat \ {0}
      /\ pc' = "confirm" => pos' = pos /\ held = "confirmed"
  BY <1>3 DEF Settle, Goto, Advance
<1>10. /\ TypeOK' /\ GoodEntries' /\ OneAnchor'
       /\ outbox'[pos] = entry /\ DOMAIN outbox' = DOMAIN outbox
  BY <1>1, <1>2, <1>8, <1>9, WriteStep DEF Steps
<1>11. WorkerConsistent'
  BY <1>1, <1>2, <1>7, <1>9, <1>10 DEF WorkerConsistent
<1> QED
  BY <1>10, <1>11 DEF IInv

(* The two steps that record a confirmation the ledger holds. *)
LEMMA ConfirmStep == ASSUME IInv, ConfirmSettled \/ Recover PROVE IInv'
<1> DEFINE entry == Moved(outbox[pos], "confirmed", NoReason)
<1>1. /\ pc \in {"confirm", "recover"} /\ pc' \in {"pick", "reconcile"} /\ pos' = pos + 1
      /\ outbox' = [outbox EXCEPT ![pos] = entry]
      /\ UNCHANGED <<receipts, broadcasts, held>>
  BY DEF ConfirmSettled, Recover, Advance
<1>2. /\ pos \in DOMAIN outbox /\ pos \in DOMAIN receipts /\ receipts[pos] = "confirmed"
      /\ outbox[pos].hasRef
  BY <1>1 DEF IInv, WorkerConsistent
<1>3. outbox[pos] \in Entry /\ GoodEntry(outbox[pos], pos, receipts) /\ pos \in Nat \ {0}
  BY <1>2 DEF IInv, GoodEntries, GoodEntry, TypeOK
<1>4. entry \in Entry
  BY <1>3, MovedTyped DEF Entry, States
<1>5. GoodEntry(entry, pos, receipts)
  BY <1>2, <1>3, <1>4 DEF GoodEntry, Moved
<1> HIDE DEF entry
<1>p. pos' \in Nat \ {0} /\ pc' \in Steps
  BY <1>1, <1>3 DEF Steps
<1>6. TypeOK' /\ GoodEntries' /\ OneAnchor'
  BY <1>1, <1>2, <1>5, <1>p, WriteStep
<1>7. WorkerConsistent'
  BY <1>1 DEF WorkerConsistent
<1> QED
  BY <1>6, <1>7 DEF IInv

LEMMA PendingStep == ASSUME IInv, StillPending PROVE IInv'
<1> DEFINE entry == Referenced(outbox[pos], outbox[pos].state)
<1>1. /\ pos \in DOMAIN outbox /\ pc' = "reconcile" /\ pos' = pos + 1
      /\ outbox' = [outbox EXCEPT ![pos] = entry]
      /\ UNCHANGED <<receipts, broadcasts, held>>
  BY DEF StillPending, Advance
<1>2. outbox[pos] \in Entry /\ GoodEntry(outbox[pos], pos, receipts) /\ pos \in Nat \ {0}
  BY <1>1 DEF IInv, GoodEntries, GoodEntry, TypeOK
<1>3. entry \in Entry
  BY <1>2, ReferencedTyped DEF Entry
<1>4. GoodEntry(entry, pos, receipts)
  BY <1>2, <1>3 DEF GoodEntry, Referenced
<1> HIDE DEF entry
<1>p. pos' \in Nat \ {0} /\ pc' \in Steps
  BY <1>1, <1>2 DEF Steps
<1>5. TypeOK' /\ GoodEntries' /\ OneAnchor'
  BY <1>1, <1>4, <1>p, WriteStep
<1>6. WorkerConsistent'
  BY <1>1 DEF WorkerConsistent
<1> QED
  BY <1>5, <1>6 DEF IInv

LEMMA FoundStep == ASSUME IInv, FoundConfirmed PROVE IInv'
<1> DEFINE entry == Referenced(outbox[pos], FoundState(outbox[pos].state))
<1>1. /\ pos \in DOMAIN outbox /\ ~Terminal(pos)
      /\ pos \in DOMAIN receipts /\ receipts[pos] = "confirmed"
      /\ outbox' = [outbox EXCEPT ![pos] = entry]
      /\ UNCHANGED <<receipts, broadcasts, held>> /\ pc' = "recover" /\ pos' = pos
  BY DEF FoundConfirmed, Goto
<1>2. outbox[pos] \in Entry /\ GoodEntry(outbox[pos], pos, receipts) /\ pos \in Nat \ {0}
  BY <1>1 DEF IInv, GoodEntries, GoodEntry, TypeOK
<1>3. FoundState(outbox[pos].state) = "submitted"
  BY <1>1, <1>2 DEF FoundState, Terminal, TERMINAL_STATES, GoodEntry, Entry, States
<1>4. entry = Referenced(outbox[pos], "submitted")
  BY <1>3
<1>5. entry \in Entry
  BY <1>2, <1>4, ReferencedTyped DEF States
<1>6. entry.state = "submitted" /\ entry.hasRef /\ entry.attempts = outbox[pos].attempts
  BY <1>4 DEF Referenced
<1>7. GoodEntry(entry, pos, receipts)
  BY <1>1, <1>2, <1>5, <1>6 DEF GoodEntry
<1> HIDE DEF entry
<1>8. /\ TypeOK' /\ GoodEntries' /\ OneAnchor'
      /\ outbox'[pos] = entry /\ DOMAIN outbox' = DOMAIN outbox
  BY <1>1, <1>2, <1>7, WriteStep DEF Steps
<1>9. WorkerConsistent'
  BY <1>1, <1>6, <1>8 DEF WorkerConsistent
<1> QED
  BY <1>8, <1>9 DEF IInv

-----------------------------------------------------------------------------
(* Steps in which the ledger learns. *)

(* What the ledger stores, if anything, when a submission fails. *)
LEMMA FailsStep == ASSUME IInv, NEW code \in FailureCodes, SubmitFails(code) PROVE IInv'
<1> DEFINE entry == Failed(outbox[pos], code)
<1>1. /\ pc = "submit" /\ pos \notin DOMAIN receipts
      /\ outbox' = [outbox EXCEPT ![pos] = entry]
      /\ held' = held /\ pc' = "pick" /\ pos' = pos + 1
  BY DEF SubmitFails, Advance
<1>2. pos \in DOMAIN outbox /\ outbox[pos].state \in {"queued", "submitted"}
  BY <1>1 DEF IInv, WorkerConsistent
<1>3. outbox[pos] \in Entry /\ GoodEntry(outbox[pos], pos, receipts) /\ pos \in Nat \ {0}
  BY <1>2 DEF IInv, GoodEntries, GoodEntry, TypeOK
<1>4. outbox[pos].state = "queued" /\ outbox[pos].attempts < MaxAttempts
  BY <1>1, <1>2, <1>3 DEF GoodEntry
<1>5. entry \in Entry
  BY <1>3, FailedTyped
<1>6. /\ entry.state \in {"retryableFailed", "terminalFailed"}
      /\ entry.attempts = outbox[pos].attempts + 1 /\ entry.reason # NoReason
  BY <1>4 DEF Failed, FailureCodes, NoReason, Unavailable, TimeoutAfterBroadcast, SubmitRejected
<1>7. \A rec : GoodEntry(entry, pos, rec)
  BY <1>3, <1>4, <1>5, <1>6, AttemptsAssumption DEF GoodEntry, Entry
<1> HIDE DEF entry
<1>8. /\ Learns(receipts, receipts') /\ OneAnchor'
      /\ DOMAIN receipts' \subseteq DOMAIN outbox
      /\ receipts' \in [DOMAIN receipts' -> {"submitted", "confirmed"}]
      /\ broadcasts' \in [1..MaxEntries -> Nat]
  <2>1. CASE code = TimeoutAfterBroadcast
    BY <1>1, <1>2, <2>1, StoreLearns DEF SubmitFails, IInv, TypeOK
  <2>2. CASE code # TimeoutAfterBroadcast
    BY <2>2 DEF SubmitFails, ledger, IInv, TypeOK, OneAnchor, Learns
  <2> QED
    BY <2>1, <2>2
<1>9. /\ GoodEntries'
      /\ outbox' \in Seq(Entry) /\ Len(outbox') = Len(outbox) /\ DOMAIN outbox' = DOMAIN outbox
  BY <1>1, <1>2, <1>7, <1>8, OverwriteGood DEF IInv
<1>10. TypeOK'
  BY <1>1, <1>3, <1>8, <1>9 DEF IInv, TypeOK, Steps
<1>11. WorkerConsistent'
  BY <1>1 DEF WorkerConsistent
<1> QED
  BY <1>8, <1>9, <1>10, <1>11 DEF IInv

LEMMA StoredStep == ASSUME IInv, SubmitStored PROVE IInv'
<1>1. PICK state \in SubmitStates : Store(pos, state) /\ held' = state
  BY DEF SubmitStored
<1>2. state \in {"submitted", "confirmed"}
  BY SubmitAssumption
<1>3. /\ pc = "submit" /\ pos \notin DOMAIN receipts
      /\ pc' = "settle" /\ pos' = pos /\ outbox' = outbox
  BY DEF SubmitStored, Goto
<1>4. pos \in DOMAIN outbox /\ outbox[pos].state \in {"queued", "submitted"}
  BY <1>3 DEF IInv, WorkerConsistent
<1>5. /\ Learns(receipts, receipts') /\ OneAnchor'
      /\ DOMAIN receipts' = DOMAIN receipts \cup {pos} /\ receipts'[pos] = state
      /\ receipts' \in [DOMAIN receipts' -> {"submitted", "confirmed"}]
      /\ broadcasts' \in [1..MaxEntries -> Nat]
  BY <1>1, <1>2, <1>3, <1>4, StoreLearns DEF IInv
<1>6. GoodEntries'
  BY <1>3, <1>5, UntouchedGood DEF IInv
<1>7. TypeOK'
  BY <1>1, <1>2, <1>3, <1>4, <1>5 DEF IInv, TypeOK, Steps
<1>8. WorkerConsistent'
  BY <1>1, <1>3, <1>4, <1>5 DEF WorkerConsistent
<1> QED
  BY <1>5, <1>6, <1>7, <1>8 DEF IInv

LEMMA LedgerConfirmsStep ==
  ASSUME IInv, NEW n \in 1..MaxEntries, LedgerConfirms(n) PROVE IInv'
<1>1. /\ n \in DOMAIN receipts /\ receipts' = [receipts EXCEPT ![n] = "confirmed"]
      /\ UNCHANGED <<outbox, broadcasts, pc, pos, held>>
  BY DEF LedgerConfirms
<1>2. /\ DOMAIN receipts' = DOMAIN receipts
      /\ \A m \in DOMAIN receipts : receipts'[m] = "confirmed" \/ receipts'[m] = receipts[m]
      /\ receipts' \in [DOMAIN receipts' -> {"submitted", "confirmed"}]
  BY <1>1 DEF IInv, TypeOK
<1>3. Learns(receipts, receipts')
  BY <1>2 DEF Learns
<1>4. GoodEntries'
  BY <1>1, <1>3, UntouchedGood DEF IInv
<1>5. TypeOK' /\ OneAnchor'
  BY <1>1, <1>2 DEF IInv, TypeOK, OneAnchor
<1>6. WorkerConsistent'
  BY <1>1, <1>2, <1>3 DEF IInv, WorkerConsistent, Learns
<1> QED
  BY <1>4, <1>5, <1>6 DEF IInv

-----------------------------------------------------------------------------
(* The invariant and what follows from it. *)

LEMMA InvariantStep == IInv /\ [Next]_vars => IInv'
<1> SUFFICES ASSUME IInv, [Next]_vars PROVE IInv'
  OBVIOUS
<1>1. CASE Commit
  BY <1>1, CommitStep
<1>2. CASE StartDrain \/ StartReconcile \/ Return \/ SkipTerminal \/ Process \/ SubmitKnown
           \/ TransitionRefused \/ CallerHandlesError \/ NothingToRecover
  BY <1>2, MoveStep
<1>3. CASE GiveUp
  BY <1>3, GiveUpStep
<1>4. CASE Retry
  BY <1>4, RetryStep
<1>5. CASE SubmitStored
  BY <1>5, StoredStep
<1>6. CASE \E code \in FailureCodes : SubmitFails(code)
  BY <1>6, FailsStep
<1>7. CASE Settle
  BY <1>7, SettleStep
<1>8. CASE ConfirmSettled \/ Recover
  BY <1>8, ConfirmStep
<1>9. CASE StillPending
  BY <1>9, PendingStep
<1>10. CASE FoundConfirmed
  BY <1>10, FoundStep
<1>11. CASE \E n \in 1..MaxEntries : LedgerConfirms(n)
  BY <1>11, LedgerConfirmsStep
<1>12. CASE UNCHANGED vars
  BY <1>12 DEF vars, IInv, TypeOK, GoodEntries, WorkerConsistent, OneAnchor
<1> QED
  BY <1>1, <1>2, <1>3, <1>4, <1>5, <1>6, <1>7, <1>8, <1>9, <1>10, <1>11, <1>12
     DEF Next, InsideCall, Drain, Reconcile

LEMMA Invariance == Spec => []IInv
  BY InvariantInit, InvariantStep, PTL DEF Spec

(* The worker, the outbox and the ledger stay inside their types, and no   *)
(* entry outside the outbox is ever broadcast.                             *)
THEOREM TypeCorrect == Spec => []TypeOK
<1>1. IInv => TypeOK
  BY DEF IInv
<1> QED
  BY <1>1, Invariance, PTL

(* However the worker times out, retries and reconciles, evidence is       *)
(* stored on the ledger at most once (memory.py:27).                       *)
THEOREM AtMostOneAnchor == Spec => []OneAnchor
<1>1. IInv => OneAnchor
  BY DEF IInv
<1> QED
  BY <1>1, Invariance, PTL

(* What the integrity endpoint reports as confirmed, the ledger has        *)
(* confirmed, and the entry carries the transaction reference              *)
(* (evidence.py:97-102 and 117-126).                                       *)
THEOREM ConfirmationsAreAnchored == Spec => []ConfirmedIsAnchored
  BY Invariance, InvariantImplies, PTL

(* Evidence the ledger has no receipt for is never submitted once          *)
(* max_attempts attempts are counted, although both failures and receipts  *)
(* count as attempts and only drain compares the count (evidence.py:82).   *)
(* It says nothing of evidence the ledger knows, which drain submits again *)
(* and again without counting (evidence.py:88 and 97).                     *)
THEOREM AttemptsStayBounded == Spec => []AttemptsBounded
  BY Invariance, InvariantImplies, PTL

(* A failed entry always tells the reason code that selects the safe       *)
(* action, a confirmed one none (evidence.py:43 and 91-93).                *)
THEOREM ReasonsTellOutcomes == Spec => []ReasonTellsOutcome
  BY Invariance, InvariantImplies, PTL

(* The worker's position agrees with the entry it is at, in spite of the   *)
(* commits and confirmations between its steps.                            *)
THEOREM PositionsAreConsistent == Spec => []Consistent
  BY Invariance, InvariantImplies, PTL

-----------------------------------------------------------------------------
(* How a step may change the state of an entry. *)

LegalChange(n, new) ==
  new # outbox[n].state =>
    \/ new \in TRANSITIONS[outbox[n].state]
    \/ /\ pc = "reconcile" /\ new = "submitted"
       /\ outbox[n].state = "retryableFailed" /\ receipts[n] = "confirmed"

LegalStep == \A n \in DOMAIN outbox : LegalChange(n, outbox'[n].state)

(* A step that writes the entry the worker is at. *)
LEMMA WrittenLegally ==
  ASSUME IInv, pos \in DOMAIN outbox, NEW entry, LegalChange(pos, entry.state),
         outbox' = [outbox EXCEPT ![pos] = entry]
  PROVE  LegalStep
<1>1. outbox \in Seq(Entry)
  BY DEF IInv, TypeOK
<1>2. \A n \in DOMAIN outbox : outbox'[n] = IF n = pos THEN entry ELSE outbox[n]
  BY <1>1
<1> QED
  BY <1>2 DEF LegalStep, LegalChange

LEMMA AppendedLegally == ASSUME IInv, Commit PROVE LegalStep
<1>1. outbox \in Seq(Entry)
  BY DEF IInv, TypeOK
<1>2. \A n \in DOMAIN outbox : outbox'[n] = outbox[n]
  BY <1>1 DEF Commit
<1> QED
  BY <1>2 DEF LegalStep, LegalChange

LEMMA StepIsLegal == IInv /\ [Next]_vars => LegalStep
<1> SUFFICES ASSUME IInv, [Next]_vars PROVE LegalStep
  OBVIOUS
<1> USE DEF TRANSITIONS, LegalChange
<1>1. CASE Commit
  BY <1>1, AppendedLegally
<1>2. CASE outbox' = outbox
  BY <1>2 DEF LegalStep
<1>3. CASE GiveUp
  <2>1. LegalChange(pos, Moved(outbox[pos], "terminalFailed", outbox[pos].reason).state)
    BY <1>3 DEF GiveUp, Moved
  <2> QED
    BY <1>3, <2>1, WrittenLegally DEF GiveUp
<1>4. CASE Retry
  <2>1. LegalChange(pos, Moved(outbox[pos], "queued", NoReason).state)
    BY <1>4 DEF Retry, Moved
  <2> QED
    BY <1>4, <2>1, WrittenLegally DEF Retry
<1>5. ASSUME NEW code \in FailureCodes, SubmitFails(code) PROVE LegalStep
  <2>1. pos \in DOMAIN outbox /\ outbox[pos].state \in {"queued", "submitted"}
    BY <1>5 DEF SubmitFails, IInv, WorkerConsistent
  <2>2. LegalChange(pos, Failed(outbox[pos], code).state)
    BY <2>1 DEF Failed
  <2> QED
    BY <1>5, <2>1, <2>2, WrittenLegally DEF SubmitFails
<1>6. CASE Settle
  <2>1. pos \in DOMAIN outbox
    BY <1>6 DEF Settle, IInv, WorkerConsistent
  <2>2. LegalChange(pos, Referenced(Moved(outbox[pos], "submitted", NoReason), "submitted").state)
    BY <1>6 DEF Settle, Permitted, Referenced
  <2> QED
    BY <1>6, <2>1, <2>2, WrittenLegally DEF Settle
<1>7. CASE ConfirmSettled \/ Recover
  <2>1. pos \in DOMAIN outbox /\ outbox[pos].state = "submitted"
    BY <1>7 DEF ConfirmSettled, Recover, IInv, WorkerConsistent
  <2>2. LegalChange(pos, Moved(outbox[pos], "confirmed", NoReason).state)
    BY <2>1 DEF Moved
  <2> QED
    BY <1>7, <2>1, <2>2, WrittenLegally DEF ConfirmSettled, Recover
<1>8. CASE StillPending
  <2>1. LegalChange(pos, Referenced(outbox[pos], outbox[pos].state).state)
    BY DEF Referenced
  <2> QED
    BY <1>8, <2>1, WrittenLegally DEF StillPending
<1>9. CASE FoundConfirmed
  <2>1. LegalChange(pos, Referenced(outbox[pos], FoundState(outbox[pos].state)).state)
    BY <1>9 DEF FoundConfirmed, Referenced, FoundState
  <2> QED
    BY <1>9, <2>1, WrittenLegally DEF FoundConfirmed
<1> QED
  BY <1>1, <1>2, <1>3, <1>4, <1>5, <1>6, <1>7, <1>8, <1>9
     DEF Next, InsideCall, Drain, Reconcile, vars, StartDrain, StartReconcile, Return, SkipTerminal,
         Process, SubmitKnown, SubmitStored, TransitionRefused, CallerHandlesError, NothingToRecover,
         LedgerConfirms

(* No entry ever leaves a terminal state, and states change along the      *)
(* TRANSITIONS table, with the one exception reconcile makes for a failed  *)
(* entry the ledger has confirmed (evidence.py:19-30 and 121-122).         *)
THEOREM EntriesAdvance == Spec => StatesAdvance
<1>1. IInv /\ [Next]_vars =>
        [\A n \in DOMAIN outbox :
           outbox'[n].state # outbox[n].state =>
             \/ outbox'[n].state \in TRANSITIONS[outbox[n].state]
             \/ /\ pc = "reconcile" /\ outbox'[n].state = "submitted"
                /\ outbox[n].state = "retryableFailed" /\ receipts[n] = "confirmed"]_vars
  BY StepIsLegal DEF LegalStep, LegalChange
<1> QED
  BY <1>1, Invariance, PTL DEF Spec, StatesAdvance

=============================================================================
