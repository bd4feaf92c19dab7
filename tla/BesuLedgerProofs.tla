------------------------- MODULE BesuLedgerProofs -------------------------
(***************************************************************************)
(* Theorems about the worker on the Besu adapter, for every number of      *)
(* attempts and entries, whatever calls fail, whatever the chain reverts.  *)
(***************************************************************************)
EXTENDS BesuLedger, SequenceTheorems, TLAPS

Fates == {"pending", "mined", "reverted"}
ReceiptStates == {"submitted", "confirmed"}

(* What an entry says is true of the receipts; as long as it has no        *)
(* receipt, every transaction sent for it was counted as an attempt.       *)
GoodEntry(n, entry, rec, snt) ==
  /\ entry \in Worker!Entry
  /\ entry.state # "created"
  /\ entry.state = "queued" => entry.attempts < MaxAttempts
  /\ entry.state = "submitted" => n \in DOMAIN rec
  /\ entry.state = "confirmed" => n \in DOMAIN rec /\ rec[n] = "confirmed" /\ entry.hasRef
  /\ n \notin DOMAIN rec => Len(snt[n]) <= entry.attempts

OutboxInv ==
  /\ outbox \in Seq(Worker!Entry) /\ Len(outbox) <= MaxEntries
  /\ \A n \in DOMAIN outbox : GoodEntry(n, outbox[n], receipts, sent)

(* A receipt names a transaction that was sent, a confirmed one a mined    *)
(* one; nothing is sent for what is not in the outbox.                     *)
ChainInv ==
  /\ DOMAIN receipts \subseteq DOMAIN outbox /\ DOMAIN ref = DOMAIN receipts
  /\ receipts \in [DOMAIN receipts -> ReceiptStates] /\ ref \in [DOMAIN receipts -> Nat]
  /\ sent \in [1..MaxEntries -> Seq(Fates)]
  /\ \A n \in DOMAIN receipts :
       /\ ref[n] \in DOMAIN sent[n]
       /\ receipts[n] = "confirmed" => sent[n][ref[n]] = "mined"
  /\ \A n \in 1..MaxEntries :
       /\ Len(sent[n]) <= MaxAttempts
       /\ n \notin DOMAIN outbox => Len(sent[n]) = 0

(* Where the worker is agrees with its entry; an entry that has a receipt  *)
(* and is still queued is the one the worker has just submitted.           *)
WorkerInv ==
  /\ pc \in Worker!Steps /\ pos \in Nat \ {0} /\ held \in ReceiptStates
  /\ pc # "confirm"
  /\ pc \in {"submit", "settle", "recover"} => pos \in DOMAIN outbox
  /\ pc \in {"submit", "settle"} => outbox[pos].state \in {"queued", "submitted"}
  /\ pc \in {"settle", "recover"} => pos \in DOMAIN receipts
  /\ pc = "recover" => /\ outbox[pos].state = "submitted" /\ outbox[pos].hasRef
                       /\ receipts[pos] = "confirmed"
  /\ \A n \in DOMAIN receipts :
       outbox[n].state \in {"queued", "retryableFailed"} => pc = "settle" /\ pos = n /\ held = "submitted"

IInv == OutboxInv /\ ChainInv /\ WorkerInv

LEMMA Positions ==
  ASSUME IInv
  PROVE  /\ DOMAIN outbox = 1..Len(outbox) /\ Len(outbox) \in Nat /\ DOMAIN outbox \subseteq 1..MaxEntries
         /\ \A n \in DOMAIN outbox : outbox[n] \in Worker!Entry /\ outbox[n].attempts \in Nat
         /\ \A n \in 1..MaxEntries : sent[n] \in Seq(Fates) /\ Len(sent[n]) \in Nat
                                     /\ DOMAIN sent[n] = 1..Len(sent[n])
<1>1. outbox \in Seq(Worker!Entry) /\ Len(outbox) <= MaxEntries
  BY DEF IInv, OutboxInv
<1>2. \A n \in DOMAIN outbox : outbox[n] \in Worker!Entry
  BY <1>1, ElementOfSeq
<1>3. \A n \in 1..MaxEntries : sent[n] \in Seq(Fates)
  BY DEF IInv, ChainInv
<1> QED
  BY <1>1, <1>2, <1>3, EntriesAssumption DEF Worker!Entry

LEMMA EntryMade ==
  ASSUME NEW entry \in Worker!Entry
  PROVE  /\ \A state \in Worker!States, reason \in Worker!FailureCodes \cup {Worker!NoReason} :
              Worker!Moved(entry, state, reason) \in Worker!Entry
         /\ \A state \in Worker!States : Worker!Referenced(entry, state) \in Worker!Entry
         /\ \A code \in Worker!FailureCodes : Worker!Failed(entry, code) \in Worker!Entry
  BY DEF Worker!Entry, Worker!Moved, Worker!Referenced, Worker!Failed, Worker!States

(* Overwriting the entry the worker is at. *)
LEMMA Overwrite ==
  ASSUME IInv, pos \in DOMAIN outbox, NEW entry, GoodEntry(pos, entry, receipts, sent),
         outbox' = [outbox EXCEPT ![pos] = entry], UNCHANGED <<receipts, ref, sent>>
  PROVE  /\ OutboxInv' /\ ChainInv'
         /\ DOMAIN outbox' = DOMAIN outbox /\ outbox'[pos] = entry
         /\ \A n \in DOMAIN outbox \ {pos} : outbox'[n] = outbox[n]
<1>1. outbox \in Seq(Worker!Entry) /\ entry \in Worker!Entry
  BY DEF IInv, OutboxInv, GoodEntry
<1>2. /\ outbox' \in Seq(Worker!Entry) /\ Len(outbox') = Len(outbox)
      /\ DOMAIN outbox' = DOMAIN outbox /\ outbox'[pos] = entry
      /\ \A n \in DOMAIN outbox \ {pos} : outbox'[n] = outbox[n]
  BY <1>1
<1>3. \A n \in DOMAIN outbox : GoodEntry(n, outbox[n], receipts, sent)
  BY DEF IInv, OutboxInv
<1>4. OutboxInv'
  BY <1>2, <1>3 DEF OutboxInv, IInv
<1>5. ChainInv'
  BY <1>2 DEF IInv, ChainInv
<1> QED
  BY <1>2, <1>4, <1>5

LEMMA InvariantInit == Init => IInv
<1> SUFFICES ASSUME Init PROVE IInv
  OBVIOUS
<1>1. OutboxInv
  BY EntriesAssumption DEF Init, OutboxInv
<1>2. ChainInv
  BY AttemptsAssumption DEF Init, ChainInv
<1>3. WorkerInv
  BY DEF Init, WorkerInv, Worker!Steps, ReceiptStates
<1> QED
  BY <1>1, <1>2, <1>3 DEF IInv

(* Steps that move the worker and write nothing else. *)
LEMMA MoveStep ==
  ASSUME IInv,
         \/ StartDrain \/ StartReconcile \/ StatusRaises
         \/ UNCHANGED chain /\ \/ Worker!Return \/ Worker!SkipTerminal \/ Worker!Process
                               \/ Worker!SubmitKnown \/ Worker!TransitionRefused
                               \/ Worker!CallerHandlesError \/ Worker!NothingToRecover
  PROVE  IInv'
<1> USE DEF Worker!Goto, Worker!Advance
<1>1. UNCHANGED <<outbox, receipts, ref, sent>>
  BY DEF StartDrain, StartReconcile, StatusRaises, chain, Worker!StartDrain, Worker!StartReconcile,
         Worker!Return, Worker!SkipTerminal, Worker!Process, Worker!SubmitKnown,
         Worker!TransitionRefused, Worker!CallerHandlesError, Worker!NothingToRecover
<1>2. OutboxInv' /\ ChainInv'
  BY <1>1 DEF IInv, OutboxInv, ChainInv
<1>3. pos \in Nat /\ pos # 0 /\ held \in ReceiptStates
  BY DEF IInv, WorkerInv
<1>4. CASE \/ StartDrain \/ StartReconcile \/ StatusRaises
           \/ Worker!Return \/ Worker!SkipTerminal
           \/ Worker!CallerHandlesError \/ Worker!NothingToRecover
  <2>1. /\ pc' \in {"pick", "reconcile", "idle", "raised"} /\ pos' \in Nat \ {0} /\ held' = held
        /\ pc # "settle"
    BY <1>3, <1>4
    DEF StartDrain, StartReconcile, StatusRaises, Reconciling, Worker!StartDrain, Worker!StartReconcile,
        Worker!Return, Worker!SkipTerminal, Worker!CallerHandlesError, Worker!NothingToRecover
  <2>2. WorkerInv'
    BY <1>1, <1>3, <2>1 DEF IInv, WorkerInv, Worker!Steps
  <2> QED
    BY <1>2, <2>2 DEF IInv
<1>5. CASE Worker!Process
  <2>1. /\ pc = "pick" /\ pc' = "submit" /\ pos' = pos /\ held' = held /\ pos \in DOMAIN outbox
        /\ outbox[pos].state \notin Worker!TERMINAL_STATES \cup {"retryableFailed"}
    BY <1>5 DEF Worker!Process
  <2>2. outbox[pos].state \in {"queued", "submitted"}
    <3>1. GoodEntry(pos, outbox[pos], receipts, sent)
      BY <2>1 DEF IInv, OutboxInv
    <3> QED
      BY <2>1, <3>1 DEF GoodEntry, Worker!Entry, Worker!States, Worker!TERMINAL_STATES
  <2>3. WorkerInv'
    BY <1>1, <1>3, <2>1, <2>2 DEF IInv, WorkerInv, Worker!Steps
  <2> QED
    BY <1>2, <2>3 DEF IInv
<1>6. CASE Worker!SubmitKnown
  <2>1. /\ pc = "submit" /\ pc' = "settle" /\ pos' = pos /\ held' = receipts[pos]
        /\ pos \in DOMAIN receipts
    BY <1>6 DEF Worker!SubmitKnown
  <2>2. receipts[pos] \in ReceiptStates
    BY <2>1 DEF IInv, ChainInv
  <2>3. WorkerInv'
    BY <1>1, <1>3, <2>1, <2>2 DEF IInv, WorkerInv, Worker!Steps
  <2> QED
    BY <1>2, <2>3 DEF IInv
<1>7. CASE Worker!TransitionRefused
  <2>1. /\ pc = "settle" /\ pc' = "raised" /\ pos' = pos /\ held' = held
        /\ ~Worker!Permitted(outbox[pos], "submitted")
    BY <1>7 DEF Worker!TransitionRefused
  <2>2. outbox[pos].state # "queued"
    BY <2>1 DEF Worker!Permitted, Worker!TRANSITIONS
  <2>3. outbox[pos].state = "submitted"
    BY <2>1, <2>2 DEF IInv, WorkerInv
  <2>4. WorkerInv'
    BY <1>1, <1>3, <2>1, <2>3 DEF IInv, WorkerInv, Worker!Steps
  <2> QED
    BY <1>2, <2>4 DEF IInv
<1> QED
  BY <1>4, <1>5, <1>6, <1>7
(* Steps of the worker that write its entry. *)
LEMMA WriteStep ==
  ASSUME IInv,
         \/ UNCHANGED chain /\ \/ Worker!GiveUp \/ Worker!Retry \/ Worker!Settle
                               \/ Worker!FoundConfirmed \/ Worker!Recover
         \/ StatusPending
  PROVE  IInv'
<1> USE DEF Worker!Goto, Worker!Advance
<1> DEFINE old == outbox[pos]
           code == Worker!FailureCodes \cup {Worker!NoReason}
<1>1. pos \in Nat /\ pos # 0 /\ held \in ReceiptStates
  BY DEF IInv, WorkerInv
<1>2. ASSUME pos \in DOMAIN outbox
      PROVE  GoodEntry(pos, old, receipts, sent) /\ old \in Worker!Entry
             /\ old.reason \in code /\ old.attempts \in Nat
  BY <1>2 DEF IInv, OutboxInv, GoodEntry, Worker!Entry
<1>3. {"queued", "submitted", "confirmed", "terminalFailed"} \subseteq Worker!States /\ Worker!NoReason \in code
  BY DEF Worker!States
<1>4. CASE UNCHANGED chain /\ Worker!GiveUp
  <2> DEFINE e == Worker!Moved(old, "terminalFailed", old.reason)
  <2>1. /\ pc = "pick" /\ pos \in DOMAIN outbox /\ outbox' = [outbox EXCEPT ![pos] = e]
        /\ pc' = "pick" /\ pos' = pos + 1 /\ held' = held /\ UNCHANGED <<receipts, ref, sent>>
    BY <1>4 DEF Worker!GiveUp, chain
  <2>2. e \in Worker!Entry /\ e.state = "terminalFailed" /\ e.attempts = old.attempts
    BY <1>2, <1>3, <2>1, EntryMade DEF Worker!Moved
  <2>3. GoodEntry(pos, e, receipts, sent)
    BY <1>2, <2>1, <2>2 DEF GoodEntry
  <2> HIDE DEF e
  <2>4. /\ OutboxInv' /\ ChainInv' /\ outbox'[pos] = e
        /\ DOMAIN outbox' = DOMAIN outbox /\ \A n \in DOMAIN outbox \ {pos} : outbox'[n] = outbox[n]
    BY <2>1, <2>3, Overwrite
  <2>5. WorkerInv'
    BY <1>1, <2>1, <2>2, <2>4 DEF IInv, WorkerInv, ChainInv
  <2> QED
    BY <2>4, <2>5 DEF IInv
<1>5. CASE UNCHANGED chain /\ Worker!Retry
  <2> DEFINE e == Worker!Moved(old, "queued", Worker!NoReason)
  <2>1. /\ pc = "pick" /\ pos \in DOMAIN outbox /\ outbox' = [outbox EXCEPT ![pos] = e]
        /\ pc' = "submit" /\ pos' = pos /\ held' = held /\ UNCHANGED <<receipts, ref, sent>>
        /\ old.state = "retryableFailed" /\ old.attempts < MaxAttempts
    BY <1>5 DEF Worker!Retry, chain
  <2>2. e \in Worker!Entry /\ e.state = "queued" /\ e.attempts = old.attempts
    BY <1>2, <1>3, <2>1, EntryMade DEF Worker!Moved
  <2>3. GoodEntry(pos, e, receipts, sent)
    BY <1>2, <2>1, <2>2 DEF GoodEntry
  <2>4. pos \notin DOMAIN receipts
    BY <2>1 DEF IInv, WorkerInv
  <2> HIDE DEF e
  <2>5. /\ OutboxInv' /\ ChainInv' /\ outbox'[pos] = e
        /\ DOMAIN outbox' = DOMAIN outbox /\ \A n \in DOMAIN outbox \ {pos} : outbox'[n] = outbox[n]
    BY <2>1, <2>3, Overwrite
  <2>6. WorkerInv'
    BY <1>1, <2>1, <2>2, <2>4, <2>5 DEF IInv, WorkerInv, ChainInv, Worker!Steps
  <2> QED
    BY <2>5, <2>6 DEF IInv
<1>6. CASE UNCHANGED chain /\ Worker!Settle
  <2> DEFINE m == Worker!Moved(old, "submitted", Worker!NoReason)
             e == Worker!Referenced(m, "submitted")
  <2>1. /\ pc = "settle" /\ pos \in DOMAIN outbox /\ outbox' = [outbox EXCEPT ![pos] = e]
        /\ held' = held /\ UNCHANGED <<receipts, ref, sent>>
        /\ Worker!Permitted(old, "submitted") /\ pos \in DOMAIN receipts
        /\ old.state \in {"queued", "submitted"}
        /\ IF held = "confirmed" THEN pc' = "confirm" /\ pos' = pos ELSE pc' = "pick" /\ pos' = pos + 1
    BY <1>6 DEF Worker!Settle, chain, IInv, WorkerInv
  <2>2. old.state = "queued"
    BY <2>1 DEF Worker!Permitted, Worker!TRANSITIONS
  <2>3. pc' = "pick" /\ pos' = pos + 1
    BY <2>1, <2>2 DEF IInv, WorkerInv
  <2>4. m \in Worker!Entry /\ m.attempts = old.attempts + 1
    BY <1>2, <1>3, <2>1, EntryMade DEF Worker!Moved
  <2>5. e \in Worker!Entry /\ e.state = "submitted"
    <3> HIDE DEF m
    <3> QED
      BY <1>3, <2>4, EntryMade DEF Worker!Referenced
  <2>6. GoodEntry(pos, e, receipts, sent)
    BY <2>1, <2>5 DEF GoodEntry
  <2> HIDE DEF e, m
  <2>7. /\ OutboxInv' /\ ChainInv' /\ outbox'[pos] = e
        /\ DOMAIN outbox' = DOMAIN outbox /\ \A n \in DOMAIN outbox \ {pos} : outbox'[n] = outbox[n]
    BY <2>1, <2>6, Overwrite
  <2>8. WorkerInv'
    BY <1>1, <2>1, <2>3, <2>5, <2>7 DEF IInv, WorkerInv, ChainInv, Worker!Steps
  <2> QED
    BY <2>7, <2>8 DEF IInv
<1>7. ASSUME pc = "reconcile", pos \in DOMAIN outbox, ~Worker!Terminal(pos), pos \in DOMAIN receipts
      PROVE  old.state = "submitted"
  <2>1. old.state \notin {"queued", "retryableFailed", "created"} /\ old.state \in Worker!States
    BY <1>2, <1>7 DEF IInv, WorkerInv, GoodEntry, Worker!Entry
  <2> QED
    BY <1>7, <2>1 DEF Worker!Terminal, Worker!TERMINAL_STATES, Worker!States
<1>8. CASE UNCHANGED chain /\ Worker!FoundConfirmed
  <2> DEFINE e == Worker!Referenced(old, Worker!FoundState(old.state))
  <2>1. /\ pc = "reconcile" /\ pos \in DOMAIN outbox /\ outbox' = [outbox EXCEPT ![pos] = e]
        /\ pc' = "recover" /\ pos' = pos /\ held' = held /\ UNCHANGED <<receipts, ref, sent>>
        /\ ~Worker!Terminal(pos) /\ pos \in DOMAIN receipts /\ receipts[pos] = "confirmed"
    BY <1>8 DEF Worker!FoundConfirmed, chain
  <2>2. e = Worker!Referenced(old, "submitted")
    BY <1>7, <2>1 DEF Worker!FoundState
  <2> HIDE DEF e
  <2>3. e \in Worker!Entry /\ e.state = "submitted" /\ e.hasRef
    BY <1>2, <1>3, <2>1, <2>2, EntryMade DEF Worker!Referenced
  <2>4. GoodEntry(pos, e, receipts, sent)
    BY <2>1, <2>3 DEF GoodEntry
  <2>5. /\ OutboxInv' /\ ChainInv' /\ outbox'[pos] = e
        /\ DOMAIN outbox' = DOMAIN outbox /\ \A n \in DOMAIN outbox \ {pos} : outbox'[n] = outbox[n]
    BY <2>1, <2>4, Overwrite
  <2>6. WorkerInv'
    BY <1>1, <2>1, <2>3, <2>5 DEF IInv, WorkerInv, ChainInv, Worker!Steps
  <2> QED
    BY <2>5, <2>6 DEF IInv
<1>9. CASE UNCHANGED chain /\ Worker!Recover
  <2> DEFINE e == Worker!Moved(old, "confirmed", Worker!NoReason)
  <2>1. /\ pc = "recover" /\ pos \in DOMAIN outbox /\ outbox' = [outbox EXCEPT ![pos] = e]
        /\ pc' = "reconcile" /\ pos' = pos + 1 /\ held' = held /\ UNCHANGED <<receipts, ref, sent>>
        /\ pos \in DOMAIN receipts /\ receipts[pos] = "confirmed" /\ old.hasRef
    BY <1>9 DEF Worker!Recover, chain, IInv, WorkerInv
  <2>2. e \in Worker!Entry /\ e.state = "confirmed" /\ e.hasRef
    BY <1>2, <1>3, <2>1, EntryMade DEF Worker!Moved
  <2>3. GoodEntry(pos, e, receipts, sent)
    BY <2>1, <2>2 DEF GoodEntry
  <2> HIDE DEF e
  <2>4. /\ OutboxInv' /\ ChainInv' /\ outbox'[pos] = e
        /\ DOMAIN outbox' = DOMAIN outbox /\ \A n \in DOMAIN outbox \ {pos} : outbox'[n] = outbox[n]
    BY <2>1, <2>3, Overwrite
  <2>5. WorkerInv'
    BY <1>1, <2>1, <2>2, <2>4 DEF IInv, WorkerInv, ChainInv, Worker!Steps
  <2> QED
    BY <2>4, <2>5 DEF IInv
<1>10. CASE StatusPending
  <2> DEFINE e == Worker!Referenced(old, old.state)
  <2>1. /\ pc = "reconcile" /\ pos \in DOMAIN outbox /\ outbox' = [outbox EXCEPT ![pos] = e]
        /\ pc' = "reconcile" /\ pos' = pos + 1 /\ held' = held /\ UNCHANGED <<receipts, ref, sent>>
        /\ ~Worker!Terminal(pos) /\ pos \in DOMAIN receipts
    BY <1>10 DEF StatusPending, Worker!StillPending, chain
  <2>2. old.state = "submitted"
    BY <1>7, <2>1
  <2>3. e \in Worker!Entry /\ e.state = "submitted"
    BY <1>2, <1>3, <2>1, <2>2, EntryMade DEF Worker!Referenced
  <2>4. GoodEntry(pos, e, receipts, sent)
    BY <2>1, <2>3 DEF GoodEntry
  <2> HIDE DEF e
  <2>5. /\ OutboxInv' /\ ChainInv' /\ outbox'[pos] = e
        /\ DOMAIN outbox' = DOMAIN outbox /\ \A n \in DOMAIN outbox \ {pos} : outbox'[n] = outbox[n]
    BY <2>1, <2>4, Overwrite
  <2>6. WorkerInv'
    BY <1>1, <2>1, <2>3, <2>5 DEF IInv, WorkerInv, ChainInv, Worker!Steps
  <2> QED
    BY <2>5, <2>6 DEF IInv
<1> QED
  BY <1>4, <1>5, <1>6, <1>8, <1>9, <1>10

(* A new entry is queued, has no attempts and no transactions. *)
LEMMA CommitStep ==
  ASSUME IInv, Commit
  PROVE  IInv'
<1> DEFINE e == [state |-> "queued", attempts |-> 0, reason |-> Worker!NoReason, hasRef |-> FALSE]
           last == Len(outbox) + 1
<1>1. /\ outbox' = Append(outbox, e) /\ Len(outbox) < MaxEntries
      /\ UNCHANGED <<receipts, ref, sent, pc, pos, held>>
  BY DEF Commit, Worker!Commit, chain
<1>2. /\ e \in Worker!Entry /\ e.state = "queued" /\ e.attempts = 0
  BY DEF Worker!Entry, Worker!States
<1> HIDE DEF e
<1>3. /\ outbox' \in Seq(Worker!Entry) /\ Len(outbox') = Len(outbox) + 1
      /\ DOMAIN outbox' = DOMAIN outbox \cup {last} /\ last \notin DOMAIN outbox
      /\ outbox'[last] = e
      /\ \A n \in DOMAIN outbox : outbox'[n] = outbox[n]
  BY <1>1, <1>2 DEF IInv, OutboxInv
<1>4. last \in 1..MaxEntries /\ Len(outbox') <= MaxEntries
  BY <1>1, <1>3, Positions, EntriesAssumption
<1>5. Len(sent[last]) = 0
  BY <1>3, <1>4 DEF IInv, ChainInv
<1>6. GoodEntry(last, e, receipts, sent)
  BY <1>2, <1>5, AttemptsAssumption DEF GoodEntry
<1>7. OutboxInv'
  BY <1>1, <1>3, <1>4, <1>6 DEF IInv, OutboxInv
<1>8. ChainInv'
  BY <1>1, <1>3 DEF IInv, ChainInv
<1>9. WorkerInv'
  BY <1>1, <1>3 DEF IInv, WorkerInv, ChainInv
<1> QED
  BY <1>7, <1>8, <1>9 DEF IInv

(* The entry the worker submits, when the adapter has no receipt for it. *)
LEMMA AtSubmit ==
  ASSUME IInv, Submitting
  PROVE  /\ pc = "submit" /\ pos \in DOMAIN outbox /\ pos \in 1..MaxEntries /\ pos \notin DOMAIN receipts
         /\ outbox[pos] \in Worker!Entry /\ outbox[pos].state = "queued"
         /\ outbox[pos].attempts \in Nat /\ outbox[pos].attempts < MaxAttempts
         /\ sent[pos] \in Seq(Fates) /\ Len(sent[pos]) <= outbox[pos].attempts /\ Len(sent[pos]) \in Nat
<1>1. pc = "submit" /\ pos \in DOMAIN outbox /\ pos \notin DOMAIN receipts
      /\ outbox[pos].state \in {"queued", "submitted"}
  BY DEF Submitting, Known, IInv, WorkerInv
<1>2. GoodEntry(pos, outbox[pos], receipts, sent)
  BY <1>1 DEF IInv, OutboxInv
<1> QED
  BY <1>1, <1>2, Positions DEF GoodEntry

(* One more transaction for the entry the worker submits. *)
LEMMA ReceivedOnce ==
  ASSUME IInv, Submitting, Received(pos)
  PROVE  /\ sent' \in [1..MaxEntries -> Seq(Fates)]
         /\ sent'[pos] = Append(sent[pos], "pending") /\ Len(sent'[pos]) = Len(sent[pos]) + 1
         /\ DOMAIN sent'[pos] = 1..(Len(sent[pos]) + 1)
         /\ \A n \in (1..MaxEntries) \ {pos} : sent'[n] = sent[n]
         /\ \A n \in 1..MaxEntries :
              Len(sent'[n]) <= MaxAttempts /\ (n \notin DOMAIN outbox => Len(sent'[n]) = 0)
<1>1. sent \in [1..MaxEntries -> Seq(Fates)] /\ pos \in 1..MaxEntries /\ sent[pos] \in Seq(Fates)
  BY AtSubmit DEF IInv, ChainInv
<1>2. sent' = [sent EXCEPT ![pos] = Append(sent[pos], "pending")] /\ Append(sent[pos], "pending") \in Seq(Fates)
  BY <1>1 DEF Received, Fates
<1>3. /\ sent' \in [1..MaxEntries -> Seq(Fates)] /\ sent'[pos] = Append(sent[pos], "pending")
      /\ \A n \in (1..MaxEntries) \ {pos} : sent'[n] = sent[n]
  BY <1>1, <1>2
<1>4. Len(sent'[pos]) = Len(sent[pos]) + 1 /\ DOMAIN sent'[pos] = 1..(Len(sent[pos]) + 1)
  BY <1>1, <1>3
<1>5. Len(sent[pos]) + 1 <= MaxAttempts
  BY AtSubmit, AttemptsAssumption
<1>6. \A n \in 1..MaxEntries : Len(sent'[n]) <= MaxAttempts /\ (n \notin DOMAIN outbox => Len(sent'[n]) = 0)
  BY <1>3, <1>4, <1>5, AtSubmit DEF IInv, ChainInv
<1> QED
  BY <1>3, <1>4, <1>6

(* An answer: the receipt names the transaction just sent. *)
LEMMA AnsweredStep ==
  ASSUME IInv, SubmitAnswered
  PROVE  IInv'
<1>1. /\ Submitting /\ Received(pos) /\ UNCHANGED outbox
      /\ receipts' = [n \in DOMAIN receipts \cup {pos} |-> IF n = pos THEN "submitted" ELSE receipts[n]]
      /\ ref' = [n \in DOMAIN ref \cup {pos} |-> IF n = pos THEN Len(sent[pos]) + 1 ELSE ref[n]]
      /\ held' = "submitted" /\ pc' = "settle" /\ pos' = pos
  BY DEF SubmitAnswered, Worker!Goto
<1>2. /\ pc = "submit" /\ pos \in DOMAIN outbox /\ pos \in 1..MaxEntries /\ pos \notin DOMAIN receipts
      /\ outbox[pos].state = "queued" /\ sent[pos] \in Seq(Fates) /\ Len(sent[pos]) \in Nat
  BY <1>1, AtSubmit
<1>3. /\ sent' \in [1..MaxEntries -> Seq(Fates)]
      /\ DOMAIN sent'[pos] = 1..(Len(sent[pos]) + 1)
      /\ \A n \in (1..MaxEntries) \ {pos} : sent'[n] = sent[n]
      /\ \A n \in 1..MaxEntries :
           Len(sent'[n]) <= MaxAttempts /\ (n \notin DOMAIN outbox => Len(sent'[n]) = 0)
  BY <1>1, ReceivedOnce
<1>4. /\ DOMAIN receipts' = DOMAIN receipts \cup {pos} /\ DOMAIN ref' = DOMAIN receipts'
      /\ receipts'[pos] = "submitted" /\ ref'[pos] = Len(sent[pos]) + 1
      /\ \A n \in DOMAIN receipts : receipts'[n] = receipts[n] /\ ref'[n] = ref[n] /\ n # pos
  BY <1>1, <1>2 DEF IInv, ChainInv
<1>5. OutboxInv'
  <2> SUFFICES ASSUME NEW n \in DOMAIN outbox
               PROVE  GoodEntry(n, outbox[n], receipts', sent')
    BY <1>1 DEF IInv, OutboxInv
  <2>1. GoodEntry(n, outbox[n], receipts, sent) /\ n \in 1..MaxEntries
    BY Positions DEF IInv, OutboxInv
  <2>2. CASE n = pos
    BY <1>2, <1>4, <2>1, <2>2 DEF GoodEntry
  <2>3. CASE n # pos
    BY <1>3, <1>4, <2>1, <2>3 DEF GoodEntry
  <2> QED
    BY <2>2, <2>3
<1>6. ChainInv'
  <2>1. receipts' \in [DOMAIN receipts' -> ReceiptStates]
    BY <1>1, <1>4 DEF IInv, ChainInv, ReceiptStates
  <2>2. ref' \in [DOMAIN receipts' -> Nat]
    BY <1>1, <1>2, <1>4 DEF IInv, ChainInv
  <2>3. \A n \in DOMAIN receipts' :
          ref'[n] \in DOMAIN sent'[n] /\ (receipts'[n] = "confirmed" => sent'[n][ref'[n]] = "mined")
    <3> SUFFICES ASSUME NEW n \in DOMAIN receipts'
                 PROVE  ref'[n] \in DOMAIN sent'[n] /\ (receipts'[n] = "confirmed" => sent'[n][ref'[n]] = "mined")
      OBVIOUS
    <3>1. CASE n = pos
      BY <1>2, <1>3, <1>4, <3>1
    <3>2. CASE n # pos
      <4>1. n \in DOMAIN receipts /\ n \in 1..MaxEntries /\ sent'[n] = sent[n]
        BY <1>3, <1>4, <3>2, Positions DEF IInv, ChainInv
      <4> QED
        BY <1>4, <4>1 DEF IInv, ChainInv
    <3> QED
      BY <3>1, <3>2
  <2> QED
    BY <1>1, <1>2, <1>3, <1>4, <2>1, <2>2, <2>3 DEF IInv, ChainInv
<1>7. WorkerInv'
  BY <1>1, <1>2, <1>4 DEF IInv, WorkerInv, Worker!Steps, ReceiptStates
<1> QED
  BY <1>5, <1>6, <1>7 DEF IInv

(* A submission that raises is counted before anything else happens. *)
LEMMA RaisesStep ==
  ASSUME IInv, Submitting, NEW e \in Worker!Entry, e.state \in {"retryableFailed", "terminalFailed"},
         e.attempts = outbox[pos].attempts + 1, SubmitRaises(e),
         Received(pos) \/ UNCHANGED sent
  PROVE  IInv'
<1>1. /\ outbox' = [outbox EXCEPT ![pos] = e] /\ UNCHANGED <<receipts, ref, held>>
      /\ pc' = "pick" /\ pos' = pos + 1
  BY DEF SubmitRaises, Worker!Advance
<1>2. /\ pc = "submit" /\ pos \in DOMAIN outbox /\ pos \in 1..MaxEntries /\ pos \notin DOMAIN receipts
      /\ outbox[pos].attempts \in Nat /\ Len(sent[pos]) <= outbox[pos].attempts /\ Len(sent[pos]) \in Nat
  BY AtSubmit
<1>3. /\ sent' \in [1..MaxEntries -> Seq(Fates)]
      /\ Len(sent'[pos]) <= Len(sent[pos]) + 1
      /\ \A n \in (1..MaxEntries) \ {pos} : sent'[n] = sent[n]
      /\ \A n \in 1..MaxEntries :
           Len(sent'[n]) <= MaxAttempts /\ (n \notin DOMAIN outbox => Len(sent'[n]) = 0)
  <2>1. CASE Received(pos)
    BY <1>2, <2>1, ReceivedOnce
  <2>2. CASE UNCHANGED sent
    BY <1>2, <2>2 DEF IInv, ChainInv
  <2> QED
    BY <2>1, <2>2
<1>4. outbox \in Seq(Worker!Entry)
  BY DEF IInv, OutboxInv
<1>5. /\ outbox' \in Seq(Worker!Entry) /\ Len(outbox') = Len(outbox)
      /\ DOMAIN outbox' = DOMAIN outbox /\ outbox'[pos] = e
      /\ \A n \in DOMAIN outbox \ {pos} : outbox'[n] = outbox[n]
  BY <1>1, <1>2, <1>4
<1>6. OutboxInv'
  <2> SUFFICES ASSUME NEW n \in DOMAIN outbox
               PROVE  GoodEntry(n, outbox'[n], receipts, sent')
    BY <1>1, <1>5 DEF IInv, OutboxInv
  <2>1. n \in 1..MaxEntries /\ Len(sent'[pos]) \in Nat
    BY <1>2, <1>3, Positions
  <2>2. CASE n = pos
    BY <1>2, <1>3, <1>5, <2>1, <2>2 DEF GoodEntry
  <2>3. CASE n # pos
    BY <1>3, <1>5, <2>1, <2>3 DEF GoodEntry, IInv, OutboxInv
  <2> QED
    BY <2>2, <2>3
<1>7. ChainInv'
  <2>1. \A n \in DOMAIN receipts : n # pos /\ n \in 1..MaxEntries /\ sent'[n] = sent[n]
    BY <1>2, <1>3, Positions DEF IInv, ChainInv
  <2> QED
    BY <1>1, <1>3, <1>5, <2>1 DEF IInv, ChainInv
<1>8. WorkerInv'
  <2>1. \A n \in DOMAIN receipts : n \in DOMAIN outbox \ {pos}
    BY <1>2 DEF IInv, ChainInv
  <2> QED
    BY <1>1, <1>2, <1>5, <2>1 DEF IInv, WorkerInv, Worker!Steps
<1> QED
  BY <1>6, <1>7, <1>8 DEF IInv

LEMMA SubmitStep ==
  ASSUME IInv, Submit
  PROVE  IInv'
<1> DEFINE old == outbox[pos]
<1>1. ASSUME Submitting, NEW code \in Worker!FailureCodes
      PROVE  /\ Worker!Failed(old, code) \in Worker!Entry
             /\ Worker!Failed(old, code).state \in {"retryableFailed", "terminalFailed"}
             /\ Worker!Failed(old, code).attempts = old.attempts + 1
  BY <1>1, AtSubmit, EntryMade DEF Worker!Failed
<1>2. {Worker!Unavailable, Worker!SubmitRejected, Worker!TimeoutAfterBroadcast} \subseteq Worker!FailureCodes
  BY DEF Worker!FailureCodes
<1>3. CASE SubmitUnconfigured
  <2> DEFINE f == Worker!Failed(old, Worker!Unavailable)
             e == [f EXCEPT !.state = "terminalFailed"]
  <2>1. f \in Worker!Entry /\ f.attempts = old.attempts + 1
    BY <1>1, <1>2, <1>3 DEF SubmitUnconfigured
  <2>2. Submitting /\ SubmitRaises(e) /\ UNCHANGED sent
    BY <1>3 DEF SubmitUnconfigured
  <2> HIDE DEF f
  <2>3. e \in Worker!Entry /\ e.state = "terminalFailed" /\ e.attempts = old.attempts + 1
    BY <2>1 DEF Worker!Entry, Worker!States
  <2> QED
    BY <2>2, <2>3, RaisesStep
<1>4. CASE SubmitRefused
  BY <1>1, <1>2, <1>4, RaisesStep DEF SubmitRefused
<1>5. CASE SubmitUnknown
  BY <1>1, <1>2, <1>5, RaisesStep DEF SubmitUnknown
<1> QED
  BY <1>3, <1>4, <1>5, AnsweredStep DEF Submit

(* A receipt is confirmed when the node says its transaction is mined. *)
LEMMA LearnStep ==
  ASSUME IInv, StatusMined \/ \E n \in 1..MaxEntries : Verify(n)
  PROVE  IInv'
<1>1. PICK n : Learn(n) /\ UNCHANGED <<outbox, pc, pos, held, ref, sent>>
  BY DEF StatusMined, Verify, chain
<1>2. /\ n \in DOMAIN receipts /\ receipts[n] = "submitted" /\ sent[n][ref[n]] = "mined"
      /\ receipts' = [receipts EXCEPT ![n] = "confirmed"]
  BY <1>1 DEF Learn, Asking, Known, Fate
<1>3. /\ DOMAIN receipts' = DOMAIN receipts /\ receipts'[n] = "confirmed"
      /\ receipts' \in [DOMAIN receipts' -> ReceiptStates]
      /\ \A m \in DOMAIN receipts \ {n} : receipts'[m] = receipts[m]
  BY <1>2 DEF IInv, ChainInv, ReceiptStates
<1>4. OutboxInv'
  BY <1>1, <1>3 DEF IInv, OutboxInv, GoodEntry
<1>5. ChainInv'
  BY <1>1, <1>2, <1>3 DEF IInv, ChainInv
<1>6. WorkerInv'
  BY <1>1, <1>2, <1>3 DEF IInv, WorkerInv
<1> QED
  BY <1>4, <1>5, <1>6 DEF IInv

(* The chain decides on a pending transaction; what is mined stays mined. *)
LEMMA DecideStep ==
  ASSUME IInv, NEW n \in 1..MaxEntries, NEW k, Decide(n, k)
  PROVE  IInv'
<1>1. PICK fate \in {"mined", "reverted"} :
        /\ sent' = [sent EXCEPT ![n][k] = fate] /\ k \in DOMAIN sent[n] /\ sent[n][k] = "pending"
        /\ UNCHANGED <<outbox, receipts, ref, pc, pos, held>>
  BY DEF Decide
<1>2. sent \in [1..MaxEntries -> Seq(Fates)] /\ sent[n] \in Seq(Fates)
  BY DEF IInv, ChainInv
<1>3. DOMAIN sent[n] = 1..Len(sent[n]) /\ fate \in Fates
  BY <1>2 DEF Fates
<1>4. /\ [sent[n] EXCEPT ![k] = fate] \in Seq(Fates)
      /\ Len([sent[n] EXCEPT ![k] = fate]) = Len(sent[n])
      /\ DOMAIN [sent[n] EXCEPT ![k] = fate] = DOMAIN sent[n]
      /\ \A j \in DOMAIN sent[n] \ {k} : [sent[n] EXCEPT ![k] = fate][j] = sent[n][j]
  BY <1>1, <1>2, <1>3
<1>5. /\ sent' \in [1..MaxEntries -> Seq(Fates)] /\ sent'[n] = [sent[n] EXCEPT ![k] = fate]
      /\ \A m \in (1..MaxEntries) \ {n} : sent'[m] = sent[m]
  BY <1>1, <1>2, <1>4
<1>6. \A m \in 1..MaxEntries :
        /\ Len(sent'[m]) = Len(sent[m]) /\ DOMAIN sent'[m] = DOMAIN sent[m]
        /\ \A j \in DOMAIN sent[m] : sent[m][j] = "mined" => sent'[m][j] = "mined"
  <2> SUFFICES ASSUME NEW m \in 1..MaxEntries
               PROVE  /\ Len(sent'[m]) = Len(sent[m]) /\ DOMAIN sent'[m] = DOMAIN sent[m]
                      /\ \A j \in DOMAIN sent[m] : sent[m][j] = "mined" => sent'[m][j] = "mined"
    OBVIOUS
  <2>1. CASE m = n
    BY <1>1, <1>4, <1>5, <2>1
  <2>2. CASE m # n
    BY <1>5, <2>2
  <2> QED
    BY <2>1, <2>2
<1>7. OutboxInv'
  BY <1>1, <1>6, Positions DEF IInv, OutboxInv, GoodEntry
<1>8. ChainInv'
  <2>1. \A m \in DOMAIN receipts : m \in 1..MaxEntries
    BY Positions DEF IInv, ChainInv
  <2> QED
    BY <1>1, <1>5, <1>6, <2>1 DEF IInv, ChainInv
<1>9. WorkerInv'
  BY <1>1 DEF IInv, WorkerInv
<1> QED
  BY <1>7, <1>8, <1>9 DEF IInv

LEMMA InvariantNext == IInv /\ [Next]_vars => IInv'
<1> SUFFICES ASSUME IInv, [Next]_vars PROVE IInv'
  OBVIOUS
<1>1. CASE InsideWorker
  BY <1>1, MoveStep, WriteStep DEF InsideWorker
<1>2. CASE Status
  BY <1>2, MoveStep, WriteStep, LearnStep DEF Status
<1>3. CASE UNCHANGED vars
  BY <1>3 DEF vars, IInv, OutboxInv, ChainInv, WorkerInv
<1> QED
  BY <1>1, <1>2, <1>3, CommitStep, MoveStep, SubmitStep, LearnStep, DecideStep DEF Next, InsideCall

LEMMA Invariance == Spec => []IInv
  BY InvariantInit, InvariantNext, PTL DEF Spec

(* An entry that says confirmed has a receipt, and the transaction that    *)
(* receipt names was mined, whether the worker or a verifying reader       *)
(* learned of it.                                                          *)
THEOREM ConfirmationsAreMined == Spec => []ConfirmedIsMined
<1>1. IInv => ConfirmedIsMined
  BY DEF IInv, OutboxInv, ChainInv, GoodEntry, ConfirmedIsMined, Known, Fate
<1> QED
  BY <1>1, Invariance, PTL

(* However often an outcome stays unknown, no more than max_attempts       *)
(* transactions are sent for one evidence.                                 *)
THEOREM DuplicatesAreBounded == Spec => []TransactionsBounded
<1>1. IInv => TransactionsBounded
  BY DEF IInv, ChainInv, TransactionsBounded
<1> QED
  BY <1>1, Invariance, PTL


=============================================================================
