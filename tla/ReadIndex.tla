----------------------------- MODULE ReadIndex -----------------------------
(***************************************************************************)
(* The read index (sort4circ_dpp/index.py) against the store's commits.    *)
(*                                                                         *)
(* A commit (PassportStore._commit) replaces the record, stamps            *)
(* last_commit_ms and calls on_commit, under the store's lock; the index   *)
(* is attached to the store while it may already hold records and take     *)
(* writes; a projected read takes neither the store's lock nor, after its  *)
(* first step, the index's.  All three run at once, against a clock.       *)
(*                                                                         *)
(* A record is its version; the projection's content is a function of it.  *)
(* The extra lag a benchmark may inject (lag_ms) is zero, and no passport  *)
(* is retired.                                                             *)
(***************************************************************************)
EXTENDS Integers, Sequences

CONSTANTS
  Dpps,        \* passport identifiers
  NoDpp,       \* no passport
  MaxLag,      \* ReadIndex.max_lag_ms
  MaxVersion,  \* bound on recordVersion (the code has none)
  MaxTime      \* bound on the clock

ASSUME DppAssumption == NoDpp \notin Dpps
ASSUME LagAssumption == MaxLag \in Nat
ASSUME VersionAssumption == MaxVersion \in Nat
ASSUME TimeAssumption == MaxTime \in Nat \ {0}

VARIABLES
  now,         \* time.monotonic()
  records,     \* _records: the current version, 0 when there is no passport
  stamps,      \* when each version of a passport was stamped
  lastCommit,  \* last_commit_ms
  onCommit,    \* whose callback the store holds
  entries,     \* ReadIndex._entries
  caughtUp,    \* caught_up_at_ms
  committer,   \* the writer that holds the store's lock
  attacher,    \* the thread that runs attach()
  reader,      \* a thread that runs sorting_view()
  raced        \* passports written while attach() worked from its snapshot

vars == <<now, records, stamps, lastCommit, onCommit, entries, caughtUp,
          committer, attacher, reader, raced>>
clock == <<now>>
store == <<records, stamps, lastCommit, committer>>
index == <<entries, caughtUp>>

Larger(a, b) == IF a > b THEN a ELSE b
NotCommitting == [step |-> "idle", dpp |-> NoDpp]
NoEntry == [version |-> 0, committed |-> 0, generated |-> 0]
Answers == {"none", "projected", "strong", "refused", "missing"}

(* Time passes between any two steps. *)
Tick ==
  /\ now < MaxTime
  /\ now' = now + 1
  /\ UNCHANGED <<store, onCommit, index, attacher, reader, raced>>

-----------------------------------------------------------------------------
(* Faulty variant: a missing commit time counts as progress until now. *)
ProjectFallback(d, version, committed) ==
  LET at == IF committed = 0 THEN now ELSE committed
  IN  /\ entries' = [entries EXCEPT ![d] =
           [version |-> version, committed |-> at, generated |-> now]]
      /\ caughtUp' = Larger(caughtUp, at)

(* ReadIndex._project. *)
Project(d, version, committed) ==
  /\ entries' = [entries EXCEPT ![d] =
       [version |-> version,
        committed |-> IF committed = 0 THEN now ELSE committed,
        generated |-> now]]
  /\ caughtUp' = Larger(caughtUp, committed)

(* PassportStore._commit: the record, its time stamp, the callback. *)
CommitRecord(d) ==
  /\ committer.step = "idle"
  /\ records[d] < MaxVersion
  /\ records' = [records EXCEPT ![d] = @ + 1]
  /\ committer' = [step |-> "stamp", dpp |-> d]
  /\ raced' = IF attacher.step = "project" THEN raced \cup {d} ELSE raced
  /\ UNCHANGED <<clock, stamps, lastCommit, onCommit, index, attacher, reader>>

CommitStamp ==
  /\ committer.step = "stamp"
  /\ lastCommit' = now
  /\ stamps' = [stamps EXCEPT ![committer.dpp] = Append(@, now)]
  /\ committer' = [committer EXCEPT !.step = "notify"]
  /\ UNCHANGED <<clock, records, onCommit, index, attacher, reader, raced>>

(* Faulty variants: the progress is not recorded; an entry that exists is  *)
(* kept.                                                                   *)
NotifyUncounted ==
  /\ committer.step = "notify"
  /\ LET d == committer.dpp
     IN  IF onCommit = "this"
         THEN /\ entries' = [entries EXCEPT ![d] = [version |-> records[d],
                               committed |-> lastCommit, generated |-> now]]
              /\ UNCHANGED caughtUp
         ELSE UNCHANGED index
  /\ committer' = NotCommitting
  /\ UNCHANGED <<clock, records, stamps, lastCommit, onCommit, attacher, reader, raced>>

NotifyOnce ==
  /\ committer.step = "notify"
  /\ LET d == committer.dpp
     IN  IF onCommit = "this" /\ entries[d] = NoEntry
         THEN Project(d, records[d], lastCommit)
         ELSE /\ caughtUp' = IF onCommit = "this" THEN lastCommit ELSE caughtUp
              /\ UNCHANGED entries
  /\ committer' = NotCommitting
  /\ UNCHANGED <<clock, records, stamps, lastCommit, onCommit, attacher, reader, raced>>

(* The callback, if it is this index's, projects the current record. *)
CommitNotify ==
  /\ committer.step = "notify"
  /\ IF onCommit = "this"
     THEN Project(committer.dpp, records[committer.dpp], lastCommit)
     ELSE UNCHANGED index
  /\ committer' = NotCommitting
  /\ UNCHANGED <<clock, records, stamps, lastCommit, onCommit, attacher, reader, raced>>

-----------------------------------------------------------------------------
(* attach(): subscribe, copy the records, project them, mark as caught up. *)
Subscribe ==
  /\ attacher.step = "new"
  /\ onCommit' = "this"
  /\ attacher' = [attacher EXCEPT !.step = "subscribed"]
  /\ UNCHANGED <<clock, store, index, reader, raced>>

(* Faulty variant: the projections are cleared before they are rebuilt. *)
SnapshotCleared ==
  /\ attacher.step = "subscribed"
  /\ attacher' = [step |-> "project",
                  todo |-> {<<d, records[d]>> : d \in {x \in Dpps : records[x] # 0}}]
  /\ entries' = [d \in Dpps |-> NoEntry]
  /\ UNCHANGED <<clock, store, onCommit, caughtUp, reader, raced>>

Snapshot ==
  /\ attacher.step = "subscribed"
  /\ attacher' = [step |-> "project",
                  todo |-> {<<d, records[d]>> : d \in {x \in Dpps : records[x] # 0}}]
  /\ UNCHANGED <<clock, store, onCommit, index, reader, raced>>

ProjectRecord(d) ==
  /\ attacher.step = "project"
  /\ \E x \in attacher.todo :
       /\ x[1] = d
       /\ Project(d, x[2], lastCommit)
       /\ attacher' = [attacher EXCEPT !.todo = @ \ {x}]
  /\ UNCHANGED <<clock, store, onCommit, reader, raced>>

Attached ==
  /\ attacher.step = "project"
  /\ attacher.todo = {}
  /\ attacher' = [attacher EXCEPT !.step = "done"]
  /\ caughtUp' = Larger(caughtUp, lastCommit)
  /\ UNCHANGED <<clock, store, onCommit, entries, reader, raced>>

(* Another index attaches to the store and takes the only callback. *)
Displaced ==
  /\ attacher.step = "done"
  /\ onCommit' = "other"
  /\ UNCHANGED <<clock, store, index, attacher, reader, raced>>

-----------------------------------------------------------------------------
(* sorting_view(): the entry, the backlog's two readings, the answer. *)

(* The version a read that begins now must at least return: the current    *)
(* one, when the index is attached and no write of it is in progress.      *)
Floor(d) ==
  IF attacher.step = "done" /\ onCommit = "this" /\ committer.dpp # d
  THEN records[d] ELSE 0

BeginRead(d) ==
  /\ reader.step = "idle"
  /\ reader' = [step |-> "entry", dpp |-> d, entry |-> NoEntry, last |-> 0,
                answer |-> "none", version |-> 0, floor |-> Floor(d)]
  /\ UNCHANGED <<clock, store, onCommit, index, attacher, raced>>

ReadEntry ==
  /\ reader.step = "entry"
  /\ reader' = [reader EXCEPT
       !.entry = entries[reader.dpp],
       !.step = IF entries[reader.dpp] = NoEntry THEN "strong" ELSE "backlog"]
  /\ UNCHANGED <<clock, store, onCommit, index, attacher, raced>>

(* No entry: the authoritative record, if there is one. *)
ReadStrong ==
  /\ reader.step = "strong"
  /\ reader' = [reader EXCEPT
       !.step = "idle",
       !.answer = IF records[reader.dpp] = 0 THEN "missing" ELSE "strong",
       !.version = records[reader.dpp]]
  /\ UNCHANGED <<clock, store, onCommit, index, attacher, raced>>

ReadLastCommit ==
  /\ reader.step = "backlog"
  /\ reader' = [reader EXCEPT !.last = lastCommit, !.step = "decide"]
  /\ UNCHANGED <<clock, store, onCommit, index, attacher, raced>>

(* Faulty variant: the backlog is left out of the lag. *)
LagOfEntry(entry, last) == Larger(0, entry.generated - entry.committed)

(* The lag that is reported and bounded. *)
Lag(entry, last) == Larger(0, entry.generated - entry.committed) + Larger(0, last - caughtUp)

Decide ==
  /\ reader.step = "decide"
  /\ LET refused == Lag(reader.entry, reader.last) > MaxLag
     IN  reader' = [reader EXCEPT
           !.step = "idle", !.entry = NoEntry, !.last = 0,
           !.answer = IF refused THEN "refused" ELSE "projected",
           !.version = IF refused THEN 0 ELSE reader.entry.version]
  /\ UNCHANGED <<clock, store, onCommit, index, attacher, raced>>

Init ==
  /\ now = 1
  /\ records = [d \in Dpps |-> 0]
  /\ stamps = [d \in Dpps |-> <<>>]
  /\ lastCommit = 0
  /\ onCommit = "none"
  /\ entries = [d \in Dpps |-> NoEntry]
  /\ caughtUp = 0
  /\ committer = NotCommitting
  /\ attacher = [step |-> "new", todo |-> {}]
  /\ reader = [step |-> "idle", dpp |-> NoDpp, entry |-> NoEntry, last |-> 0,
               answer |-> "none", version |-> 0, floor |-> 0]
  /\ raced = {}

Next ==
  \/ Tick
  \/ \E d \in Dpps : CommitRecord(d) \/ ProjectRecord(d) \/ BeginRead(d)
  \/ CommitStamp \/ CommitNotify
  \/ Subscribe \/ Snapshot \/ Attached \/ Displaced
  \/ ReadEntry \/ ReadStrong \/ ReadLastCommit \/ Decide

Spec == Init /\ [][Next]_vars

-----------------------------------------------------------------------------
(* Properties. *)

(* Every variable stays inside its type, and no time lies in the future. *)
TypeOK ==
  /\ now \in 1..MaxTime
  /\ records \in [Dpps -> 0..MaxVersion]
  /\ stamps \in [Dpps -> Seq(1..now)]
  /\ lastCommit \in 0..now /\ caughtUp \in 0..lastCommit
  /\ onCommit \in {"none", "this", "other"}
  /\ entries \in [Dpps -> [version : 0..MaxVersion, committed : 0..now, generated : 0..now]]
  /\ committer \in [step : {"idle", "stamp", "notify"}, dpp : Dpps \cup {NoDpp}]
  /\ attacher \in [step : {"new", "subscribed", "project", "done"},
                   todo : SUBSET (Dpps \X (1..MaxVersion))]
  /\ reader \in [step : {"idle", "entry", "strong", "backlog", "decide"},
                 dpp : Dpps \cup {NoDpp},
                 entry : [version : 0..MaxVersion, committed : 0..now, generated : 0..now],
                 last : 0..now, answer : Answers, version : 0..MaxVersion, floor : 0..MaxVersion]
  /\ raced \subseteq Dpps

(* The backlog is "zero when the projector has processed every commit,     *)
(* whatever the wall clock says" (index.py:67), and then every projection  *)
(* is of the current record: between commits an attached index equals the  *)
(* store, unless a passport was written while attach() ran.                *)
CaughtUpIsCurrent ==
  onCommit = "this" /\ attacher.step = "done" /\ committer.step = "idle" =>
    /\ caughtUp = lastCommit
    /\ \A d \in Dpps \ raced : entries[d].version = records[d]

(* A projection is never replaced by an older one, unless a passport was   *)
(* written while attach() ran.                                             *)
ProjectionsAdvance ==
  [][\A d \in Dpps \ raced : entries'[d].version >= entries[d].version]_vars

(* Read your writes: a write that was finished before a projected read     *)
(* began is in its answer, whatever is committed meanwhile.                *)
ReadsSeeFinishedWrites ==
  reader.answer \in {"projected", "strong"} /\ reader.dpp \notin raced =>
    reader.version >= reader.floor

(* "What does warrant refusal is a projector that has fallen behind the    *)
(* source" (index.py:84): a projected read is answered from a projection   *)
(* that lacks a commit only if that commit was stamped at most MaxLag      *)
(* after one that some projection contains, also when the index has lost   *)
(* its callback.                                                           *)
StaleOnlyWithinLimit ==
  [][LET d == reader.dpp
     IN  /\ reader.step = "decide" /\ reader'.answer = "projected"
         /\ attacher.step = "done" /\ raced = {}
         => \A v \in DOMAIN stamps[d] :
              v > reader.entry.version /\ stamps[d][v] <= reader.last =>
                \E x \in Dpps : \E w \in DOMAIN stamps[x] :
                  /\ w <= entries[x].version
                  /\ stamps[d][v] - stamps[x][w] <= MaxLag
    ]_vars

=============================================================================
