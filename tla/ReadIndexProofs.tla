-------------------------- MODULE ReadIndexProofs --------------------------
(***************************************************************************)
(* Theorems about the read index, for every set of passports, every        *)
(* max_lag_ms, and any number of commits, projections and reads.           *)
(***************************************************************************)
EXTENDS ReadIndex, SequenceTheorems, TLAPS

-----------------------------------------------------------------------------
(* Types, and who is where. *)

EntryType(n) == [version : 0..MaxVersion, committed : 0..n, generated : 0..n]
ReaderType(n) ==
  [step : {"idle", "entry", "strong", "backlog", "decide"},
   dpp : Dpps \cup {NoDpp}, entry : EntryType(n), last : 0..n,
   answer : Answers, version : 0..MaxVersion, floor : 0..MaxVersion]

(* A commit in progress names its passport, attach() works with its        *)
(* callback in place and has a work list only between snapshot and end, a  *)
(* read in progress names its passport.                                    *)
Placed ==
  /\ committer.step = "idle" <=> committer.dpp = NoDpp
  /\ attacher.step \in {"subscribed", "project"} => onCommit = "this"
  /\ attacher.step # "project" => attacher.todo = {}
  /\ reader.step # "idle" => reader.dpp \in Dpps

LEMMA LargerIs == \A a, b \in Nat : Larger(a, b) \in {a, b} /\ Larger(a, b) >= a /\ Larger(a, b) >= b
  BY DEF Larger

LEMMA ProjectTyped ==
  ASSUME TypeOK, NEW d \in Dpps, NEW v \in 0..MaxVersion, Project(d, v, lastCommit)
  PROVE  /\ entries' \in [Dpps -> EntryType(now)] /\ caughtUp' \in 0..lastCommit
         /\ entries'[d].version = v /\ entries'[d].generated = now
         /\ \A x \in Dpps \ {d} : entries'[x] = entries[x]
         /\ caughtUp' = lastCommit
<1> DEFINE e == [version |-> v,
                 committed |-> IF lastCommit = 0 THEN now ELSE lastCommit, generated |-> now]
<1>1. now \in 1..MaxTime /\ lastCommit \in 0..now /\ caughtUp \in 0..lastCommit
  BY DEF TypeOK
<1>2. now \in 0..now /\ now \in Nat /\ lastCommit \in Nat /\ caughtUp \in Nat
  BY <1>1, TimeAssumption
<1>3. e \in EntryType(now) /\ e.version = v /\ e.generated = now
  BY <1>1, <1>2 DEF EntryType
<1>4. entries' = [entries EXCEPT ![d] = e] /\ caughtUp' = Larger(caughtUp, lastCommit)
  BY DEF Project
<1>5. entries \in [Dpps -> EntryType(now)]
  BY DEF TypeOK, EntryType
<1> HIDE DEF e
<1>6. caughtUp' = lastCommit
  BY <1>1, <1>2, <1>4 DEF Larger
<1> QED
  BY <1>1, <1>2, <1>3, <1>4, <1>5, <1>6

LEMMA TypeTick ==
  ASSUME TypeOK, Placed, Tick
  PROVE  TypeOK' /\ Placed'
<1>1. now \in Nat /\ now' = now + 1 /\ now' \in 1..MaxTime
  BY TimeAssumption DEF Tick, TypeOK
<1>2. 0..now \subseteq 0..now' /\ 1..now \subseteq 1..now' /\ now' \in Nat
  BY <1>1
<1>3. UNCHANGED <<store, onCommit, index, attacher, reader, raced>>
  BY DEF Tick
<1>4. Seq(1..now) \subseteq Seq(1..now')
  BY <1>2, SeqMonotonic
<1>5. stamps' \in [Dpps -> Seq(1..now')]
  BY <1>3, <1>4 DEF TypeOK, store
<1>6. lastCommit' \in 0..now'
  BY <1>2, <1>3 DEF TypeOK, store
<1>7. EntryType(now) \subseteq EntryType(now') /\ ReaderType(now) \subseteq ReaderType(now')
  BY <1>2 DEF EntryType, ReaderType
<1>8. entries' \in [Dpps -> EntryType(now')] /\ reader' \in ReaderType(now')
  BY <1>3, <1>7 DEF TypeOK, EntryType, ReaderType, index
<1>9. Placed'
  BY <1>3 DEF Placed, store
<1> QED
  BY <1>1, <1>3, <1>5, <1>6, <1>8, <1>9 DEF TypeOK, EntryType, ReaderType, store, index

LEMMA TypeCommit ==
  ASSUME TypeOK, Placed, (\E d \in Dpps : CommitRecord(d)) \/ CommitStamp \/ CommitNotify
  PROVE  TypeOK' /\ Placed'
<1>1. ASSUME NEW d \in Dpps, CommitRecord(d)
      PROVE  TypeOK' /\ Placed'
  <2>1. records' \in [Dpps -> 0..MaxVersion]
    <3>1. records \in [Dpps -> 0..MaxVersion] /\ records[d] \in 0..MaxVersion /\ records[d] < MaxVersion
      BY <1>1 DEF CommitRecord, TypeOK
    <3>2. records[d] + 1 \in 0..MaxVersion
      BY <3>1, VersionAssumption
    <3> QED
      BY <1>1, <3>1, <3>2 DEF CommitRecord
  <2>2. committer' \in [step : {"idle", "stamp", "notify"}, dpp : Dpps \cup {NoDpp}]
        /\ committer'.step = "stamp" /\ committer'.dpp \in Dpps
    BY <1>1 DEF CommitRecord
  <2>3. raced' \subseteq Dpps
    BY <1>1 DEF CommitRecord, TypeOK
  <2> QED
    BY <1>1, <2>1, <2>2, <2>3, DppAssumption DEF CommitRecord, TypeOK, Placed, clock, index
<1>2. CASE CommitStamp
  <2> DEFINE d == committer.dpp
  <2>1. d \in Dpps /\ now \in 1..MaxTime /\ now \in Nat
    BY <1>2, TimeAssumption DEF CommitStamp, TypeOK, Placed
  <2>2. now \in 1..now /\ now \in 0..now
    BY <2>1, TimeAssumption
  <2>3. stamps' = [stamps EXCEPT ![d] = Append(@, now)] /\ lastCommit' = now /\ UNCHANGED <<now, caughtUp>>
    BY <1>2 DEF CommitStamp, clock, index
  <2>4. stamps' \in [Dpps -> Seq(1..now)]
    BY <2>1, <2>2, <2>3 DEF TypeOK
  <2>5. caughtUp' \in 0..lastCommit'
    BY <2>1, <2>3 DEF TypeOK
  <2>6. committer' \in [step : {"idle", "stamp", "notify"}, dpp : Dpps \cup {NoDpp}]
        /\ committer'.step = "notify" /\ committer'.dpp \in Dpps
    BY <1>2, <2>1 DEF CommitStamp, TypeOK
  <2> QED
    BY <1>2, <2>2, <2>3, <2>4, <2>5, <2>6, DppAssumption DEF CommitStamp, TypeOK, Placed, clock, index
<1>3. CASE CommitNotify
  <2> DEFINE d == committer.dpp
  <2>1. d \in Dpps /\ records[d] \in 0..MaxVersion
    BY <1>3 DEF CommitNotify, TypeOK, Placed
  <2>2. entries' \in [Dpps -> EntryType(now)] /\ caughtUp' \in 0..lastCommit
    <3>1. CASE onCommit = "this"
      BY <1>3, <2>1, <3>1, ProjectTyped DEF CommitNotify
    <3>2. CASE onCommit # "this"
      BY <1>3, <3>2 DEF CommitNotify, TypeOK, EntryType, index
    <3> QED
      BY <3>1, <3>2
  <2>3. committer' \in [step : {"idle", "stamp", "notify"}, dpp : Dpps \cup {NoDpp}]
        /\ committer'.step = "idle" /\ committer'.dpp = NoDpp
    BY <1>3 DEF CommitNotify, NotCommitting
  <2> QED
    BY <1>3, <2>2, <2>3 DEF CommitNotify, TypeOK, EntryType, Placed, clock
<1> QED
  BY <1>1, <1>2, <1>3

LEMMA TypeAttach ==
  ASSUME TypeOK, Placed,
         Subscribe \/ Snapshot \/ (\E d \in Dpps : ProjectRecord(d)) \/ Attached \/ Displaced
  PROVE  TypeOK' /\ Placed'
<1> DEFINE AttacherType == [step : {"new", "subscribed", "project", "done"},
                            todo : SUBSET (Dpps \X (1..MaxVersion))]
<1>0. attacher \in AttacherType
  BY DEF TypeOK
<1>1. CASE Subscribe
  <2>1. attacher' \in AttacherType /\ attacher'.step = "subscribed" /\ attacher'.todo = {}
    BY <1>0, <1>1 DEF Subscribe, Placed
  <2> QED
    BY <1>1, <2>1 DEF Subscribe, TypeOK, Placed, clock, store, index
<1>2. CASE Snapshot
  <2>1. {<<d, records[d]>> : d \in {x \in Dpps : records[x] # 0}} \subseteq Dpps \X (1..MaxVersion)
    BY VersionAssumption DEF TypeOK
  <2>2. attacher' \in AttacherType /\ attacher'.step = "project"
    BY <1>2, <2>1 DEF Snapshot
  <2> QED
    BY <1>2, <2>2 DEF Snapshot, TypeOK, Placed, clock, store, index
<1>3. ASSUME NEW d \in Dpps, ProjectRecord(d)
      PROVE  TypeOK' /\ Placed'
  <2>1. PICK x \in attacher.todo : /\ x[1] = d /\ Project(d, x[2], lastCommit)
                                   /\ attacher' = [attacher EXCEPT !.todo = @ \ {x}]
    BY <1>3 DEF ProjectRecord
  <2>2. x \in Dpps \X (1..MaxVersion)
    BY <1>0, <2>1
  <2>3. x[2] \in 0..MaxVersion
    BY <2>2, VersionAssumption
  <2>4. entries' \in [Dpps -> EntryType(now)] /\ caughtUp' \in 0..lastCommit
    BY <2>1, <2>3, ProjectTyped
  <2>5. attacher' \in AttacherType /\ attacher'.step = attacher.step
    BY <1>0, <2>1
  <2> QED
    BY <1>3, <2>4, <2>5 DEF ProjectRecord, TypeOK, EntryType, Placed, clock, store
<1>4. CASE Attached
  <2>1. attacher' \in AttacherType /\ attacher'.step = "done" /\ attacher'.todo = {}
    BY <1>0, <1>4 DEF Attached
  <2>2. caughtUp' \in 0..lastCommit
    BY <1>4, TimeAssumption DEF Attached, TypeOK, Larger
  <2> QED
    BY <1>4, <2>1, <2>2 DEF Attached, TypeOK, Placed, clock, store
<1>5. CASE Displaced
  BY <1>5 DEF Displaced, TypeOK, Placed, clock, store, index
<1> QED
  BY <1>1, <1>2, <1>3, <1>4, <1>5

LEMMA TypeRead ==
  ASSUME TypeOK, Placed,
         (\E d \in Dpps : BeginRead(d)) \/ ReadEntry \/ ReadStrong \/ ReadLastCommit \/ Decide
  PROVE  TypeOK' /\ Placed'
<1>0. now \in Nat /\ 0 \in 0..now /\ lastCommit \in 0..now /\ 0 \in 0..MaxVersion
  BY TimeAssumption, VersionAssumption DEF TypeOK
<1>1. NoEntry \in EntryType(now)
  BY <1>0 DEF NoEntry, EntryType
<1>2. reader \in ReaderType(now) /\ entries \in [Dpps -> EntryType(now)] /\ records \in [Dpps -> 0..MaxVersion]
  BY DEF TypeOK, ReaderType, EntryType
<1>3. ASSUME NEW d \in Dpps, BeginRead(d)
      PROVE  reader' \in ReaderType(now) /\ reader'.dpp \in Dpps
  <2>1. Floor(d) \in 0..MaxVersion
    BY <1>0, <1>2 DEF Floor
  <2> QED
    BY <1>0, <1>1, <1>3, <2>1 DEF BeginRead, ReaderType, Answers
<1>4. ASSUME ReadEntry \/ ReadStrong \/ ReadLastCommit \/ Decide
      PROVE  reader' \in ReaderType(now) /\ reader'.dpp \in Dpps
  <2>1. reader.dpp \in Dpps
    BY <1>4 DEF Placed, ReadEntry, ReadStrong, ReadLastCommit, Decide
  <2>2. entries[reader.dpp] \in EntryType(now) /\ records[reader.dpp] \in 0..MaxVersion
    BY <1>2, <2>1
  <2>3. reader.entry.version \in 0..MaxVersion
    BY <1>2 DEF ReaderType, EntryType
  <2>4. CASE ReadEntry
    BY <1>2, <2>1, <2>2, <2>4 DEF ReadEntry, ReaderType
  <2>5. CASE ReadStrong
    BY <1>2, <2>1, <2>2, <2>5 DEF ReadStrong, ReaderType, Answers
  <2>6. CASE ReadLastCommit
    BY <1>0, <1>2, <2>1, <2>6 DEF ReadLastCommit, ReaderType
  <2>7. CASE Decide
    BY <1>0, <1>1, <1>2, <2>1, <2>3, <2>7 DEF Decide, ReaderType, Answers
  <2> QED
    BY <1>4, <2>4, <2>5, <2>6, <2>7
<1>5. UNCHANGED <<now, records, stamps, lastCommit, committer, onCommit, entries, caughtUp, attacher, raced>>
  BY DEF BeginRead, ReadEntry, ReadStrong, ReadLastCommit, Decide, clock, store, index
<1> QED
  BY <1>3, <1>4, <1>5 DEF TypeOK, ReaderType, EntryType, Placed

LEMMA TypeStep ==
  ASSUME TypeOK, Placed, [Next]_vars
  PROVE  TypeOK' /\ Placed'
<1>1. CASE UNCHANGED vars
  BY <1>1 DEF vars, TypeOK, Placed
<1> QED
  BY <1>1, TypeTick, TypeCommit, TypeAttach, TypeRead DEF Next

LEMMA InitTyped == Init => TypeOK /\ Placed
<1> SUFFICES ASSUME Init PROVE TypeOK /\ Placed
  OBVIOUS
<1>1. 1 \in 1..MaxTime /\ now = 1 /\ 0 \in 0..MaxVersion
  BY TimeAssumption, VersionAssumption DEF Init
<1>2. stamps \in [Dpps -> Seq(1..now)] /\ records \in [Dpps -> 0..MaxVersion]
  BY <1>1 DEF Init
<1>3. NoEntry \in EntryType(now)
  BY <1>1 DEF NoEntry, EntryType
<1>4. entries \in [Dpps -> EntryType(now)] /\ reader \in ReaderType(now)
  BY <1>1, <1>3 DEF Init, ReaderType, Answers
<1> QED
  BY <1>1, <1>2, <1>4 DEF Init, TypeOK, EntryType, ReaderType, Placed, NotCommitting

LEMMA TypesHold == Spec => [](TypeOK /\ Placed)
  BY InitTyped, TypeStep, PTL DEF Spec

(* Every reachable state is inside the types: no commit, projection or     *)
(* progress mark lies in the future, and the index is never ahead of the   *)
(* store's last commit.                                                    *)
THEOREM TypeCorrect == Spec => []TypeOK
  BY TypesHold, PTL
-----------------------------------------------------------------------------
(* Projections and records. *)

(* No projection, done or on the work list of attach(), is ahead of its    *)
(* record; that list has current versions, raced passports aside.          *)
Behind ==
  /\ \A d \in Dpps : entries[d].version <= records[d]
  /\ \A x \in attacher.todo :
       /\ x[2] <= records[x[1]]
       /\ x[1] \notin raced => x[2] = records[x[1]]

(* While attach() works, a passport is absent, on its list or projected;   *)
(* when it is done, projected, except by the commit in progress.           *)
Projected ==
  \A d \in Dpps \ raced :
    /\ attacher.step = "project" =>
         records[d] = 0 \/ <<d, records[d]>> \in attacher.todo \/ entries[d].version = records[d]
    /\ attacher.step = "done" /\ onCommit = "this" /\ committer.dpp # d =>
         entries[d].version = records[d]

(* The progress mark is the last commit, but for the one being notified.   *)
Marked ==
  attacher.step = "done" /\ onCommit = "this" /\ committer.step # "notify" => caughtUp = lastCommit

IndexInv == Behind /\ Projected /\ Marked

LEMMA Numbers ==
  ASSUME TypeOK
  PROVE  /\ now \in Nat /\ lastCommit \in Nat /\ caughtUp \in Nat
         /\ \A d \in Dpps : records[d] \in Nat /\ entries[d].version \in Nat /\ entries[d] \in EntryType(now)
         /\ attacher.todo \subseteq Dpps \X (1..MaxVersion)
<1>1. \A d \in Dpps : entries[d] \in EntryType(now)
  BY DEF TypeOK, EntryType
<1>2. \A d \in Dpps : entries[d].version \in 0..MaxVersion /\ records[d] \in 0..MaxVersion
  BY <1>1 DEF EntryType, TypeOK
<1> QED
  BY <1>1, <1>2, VersionAssumption, TimeAssumption DEF TypeOK

LEMMA IndexStep ==
  ASSUME TypeOK, Placed, IndexInv, [Next]_vars
  PROVE  IndexInv'
<1>0. \A d \in Dpps : records[d] \in Nat /\ entries[d].version \in Nat
  BY Numbers
<1>1. ASSUME UNCHANGED <<records, lastCommit, committer, onCommit, entries, caughtUp, attacher, raced>>
      PROVE  IndexInv'
  BY <1>1 DEF IndexInv, Behind, Projected, Marked
<1>2. ASSUME NEW d \in Dpps, CommitRecord(d)
      PROVE  IndexInv'
  <2>1. /\ UNCHANGED <<entries, caughtUp, lastCommit, onCommit, attacher>>
        /\ records' = [records EXCEPT ![d] = @ + 1]
        /\ committer' = [step |-> "stamp", dpp |-> d]
        /\ committer.step = "idle"
        /\ raced' = IF attacher.step = "project" THEN raced \cup {d} ELSE raced
    BY <1>2 DEF CommitRecord, index
  <2>2. /\ records'[d] = records[d] + 1 /\ \A x \in Dpps \ {d} : records'[x] = records[x]
        /\ \A x \in Dpps : records'[x] >= records[x]
    <3>1. records \in [Dpps -> 0..MaxVersion]
      BY DEF TypeOK
    <3>2. records'[d] = records[d] + 1 /\ \A x \in Dpps \ {d} : records'[x] = records[x]
      BY <2>1, <3>1
    <3> QED
      BY <1>0, <3>2
  <2>3. \A x \in attacher.todo : x[1] \in Dpps /\ x[2] \in Nat
    BY Numbers
  <2>4. Behind'
    <3>1. attacher.todo # {} => attacher.step = "project"
      BY DEF Placed
    <3>2. \A x \in Dpps : entries'[x].version <= records'[x]
      BY <1>0, <2>1, <2>2 DEF IndexInv, Behind
    <3>3. \A x \in attacher.todo : x[2] <= records'[x[1]] /\ (x[1] \notin raced' => x[2] = records'[x[1]])
      BY <1>0, <2>1, <2>2, <2>3, <3>1 DEF IndexInv, Behind
    <3> QED
      BY <2>1, <3>2, <3>3 DEF Behind
  <2>5. Projected'
    <3> SUFFICES ASSUME NEW x \in Dpps, x \notin raced'
                 PROVE  /\ attacher.step = "project" =>
                             \/ records'[x] = 0 \/ <<x, records'[x]>> \in attacher.todo
                             \/ entries[x].version = records'[x]
                        /\ attacher.step = "done" /\ onCommit = "this" /\ d # x =>
                             entries[x].version = records'[x]
      BY <2>1 DEF Projected
    <3>1. committer.dpp # x /\ x \notin raced
      BY <2>1, DppAssumption DEF Placed
    <3>2. attacher.step = "project" => x # d
      BY <2>1
    <3> QED
      BY <2>2, <3>1, <3>2 DEF IndexInv, Projected
  <2>6. Marked'
    BY <2>1 DEF IndexInv, Marked
  <2> QED
    BY <2>4, <2>5, <2>6 DEF IndexInv
<1>3. CASE CommitStamp
  <2>1. /\ UNCHANGED <<records, onCommit, entries, caughtUp, attacher, raced>>
        /\ committer'.dpp = committer.dpp /\ committer'.step = "notify"
    BY <1>3 DEF CommitStamp, index, TypeOK
  <2> QED
    BY <2>1 DEF IndexInv, Behind, Projected, Marked
<1>4. CASE CommitNotify
  <2> DEFINE d == committer.dpp
  <2>1. /\ d \in Dpps /\ committer'.dpp = NoDpp /\ committer'.step = "idle"
        /\ UNCHANGED <<records, lastCommit, onCommit, attacher, raced>>
    BY <1>4 DEF CommitNotify, NotCommitting, Placed, TypeOK
  <2>2. CASE onCommit = "this"
    <3>1. /\ entries'[d].version = records[d] /\ caughtUp' = lastCommit
          /\ \A x \in Dpps \ {d} : entries'[x] = entries[x]
      <4>1. Project(d, records[d], lastCommit) /\ records[d] \in 0..MaxVersion
        BY <1>4, <2>1, <2>2 DEF CommitNotify, TypeOK
      <4> QED
        BY <2>1, <4>1, ProjectTyped
    <3> HIDE DEF d
    <3>2. Behind'
      BY <1>0, <2>1, <3>1 DEF IndexInv, Behind
    <3>3. Projected'
      BY <2>1, <3>1 DEF IndexInv, Projected, d
    <3> QED
      BY <2>1, <3>1, <3>2, <3>3 DEF IndexInv, Marked
  <2>3. CASE onCommit # "this"
    <3>1. UNCHANGED entries
      BY <1>4, <2>3 DEF CommitNotify, index
    <3>2. attacher.step # "project"
      BY <2>3 DEF Placed
    <3> QED
      BY <2>1, <2>3, <3>1, <3>2 DEF IndexInv, Behind, Projected, Marked
  <2> QED
    BY <2>2, <2>3
<1>5. CASE Subscribe
  <2>1. /\ UNCHANGED <<records, lastCommit, committer, entries, caughtUp, raced>>
        /\ attacher'.step = "subscribed" /\ attacher'.todo = attacher.todo
    BY <1>5 DEF Subscribe, store, index, TypeOK
  <2> QED
    BY <2>1 DEF IndexInv, Behind, Projected, Marked
<1>6. CASE Snapshot
  <2>1. /\ UNCHANGED <<records, lastCommit, committer, entries, caughtUp, raced, onCommit>>
        /\ attacher'.step = "project"
        /\ attacher'.todo = {<<d, records[d]>> : d \in {x \in Dpps : records[x] # 0}}
    BY <1>6 DEF Snapshot, store, index
  <2>2. Behind'
    BY <1>0, <2>1 DEF IndexInv, Behind
  <2>3. Projected'
    BY <2>1 DEF IndexInv, Projected
  <2> QED
    BY <2>1, <2>2, <2>3 DEF IndexInv, Marked
<1>7. ASSUME NEW d \in Dpps, ProjectRecord(d)
      PROVE  IndexInv'
  <2>1. PICK x \in attacher.todo : /\ x[1] = d /\ Project(d, x[2], lastCommit)
                                   /\ attacher' = [attacher EXCEPT !.todo = @ \ {x}]
    BY <1>7 DEF ProjectRecord
  <2>2. x \in Dpps \X (1..MaxVersion) /\ x = <<d, x[2]>> /\ x[2] \in 0..MaxVersion /\ x[2] \in Nat
    BY <2>1, Numbers, VersionAssumption
  <2>3. /\ entries'[d].version = x[2]
        /\ \A y \in Dpps \ {d} : entries'[y] = entries[y]
    BY <2>1, <2>2, ProjectTyped
  <2>4. /\ UNCHANGED <<records, lastCommit, committer, onCommit, raced>>
        /\ attacher'.step = attacher.step /\ attacher'.todo = attacher.todo \ {x}
        /\ attacher.step = "project"
    BY <1>7, <2>1 DEF ProjectRecord, store, TypeOK
  <2>5. Behind'
    BY <1>0, <2>1, <2>3, <2>4 DEF IndexInv, Behind
  <2>6. Projected'
    <3> SUFFICES ASSUME NEW y \in Dpps \ raced
                 PROVE  \/ records[y] = 0 \/ <<y, records[y]>> \in attacher'.todo
                        \/ entries'[y].version = records[y]
      BY <2>4 DEF Projected
    <3>1. CASE y = d
      BY <2>1, <2>3, <3>1 DEF IndexInv, Behind
    <3>2. CASE y # d
      BY <2>2, <2>3, <2>4, <3>2 DEF IndexInv, Projected
    <3> QED
      BY <3>1, <3>2
  <2>7. Marked'
    BY <2>4 DEF Marked
  <2> QED
    BY <2>5, <2>6, <2>7 DEF IndexInv
<1>8. CASE Attached
  <2>1. /\ UNCHANGED <<records, lastCommit, committer, onCommit, entries, raced>>
        /\ attacher'.step = "done" /\ attacher'.todo = {} /\ attacher.todo = {} /\ attacher.step = "project"
        /\ caughtUp' = Larger(caughtUp, lastCommit)
    BY <1>8 DEF Attached, store, TypeOK
  <2>2. caughtUp' = lastCommit
    BY <2>1, Numbers DEF Larger, TypeOK
  <2>3. \A d \in Dpps \ raced : entries[d].version = records[d]
    BY <1>0, <2>1 DEF IndexInv, Projected, Behind
  <2> QED
    BY <2>1, <2>2, <2>3 DEF IndexInv, Behind, Projected, Marked
<1>9. CASE Displaced
  <2>1. /\ UNCHANGED <<records, lastCommit, committer, entries, caughtUp, attacher, raced>>
        /\ onCommit' = "other" /\ attacher.step = "done"
    BY <1>9 DEF Displaced, store, index
  <2> QED
    BY <2>1 DEF IndexInv, Behind, Projected, Marked
<1> QED
  BY <1>1, <1>2, <1>3, <1>4, <1>5, <1>6, <1>7, <1>8, <1>9
  DEF Next, vars, Tick, BeginRead, ReadEntry, ReadStrong, ReadLastCommit, Decide, store, index

LEMMA IndexHolds == Spec => [](TypeOK /\ Placed /\ IndexInv)
<1>1. Init => IndexInv
  BY DEF Init, IndexInv, Behind, Projected, Marked, NoEntry
<1>2. TypeOK /\ Placed /\ IndexInv /\ [Next]_vars => IndexInv'
  BY IndexStep
<1> QED
  BY <1>1, <1>2, TypesHold, PTL DEF Spec

(* Between commits, an attached index that still has its callback has      *)
(* processed every commit and equals the store, except for passports       *)
(* written while attach() worked from its snapshot.                        *)
THEOREM CaughtUpEqualsStore == Spec => []CaughtUpIsCurrent
<1>1. Placed /\ IndexInv => CaughtUpIsCurrent
  BY DppAssumption DEF Placed, IndexInv, Projected, Marked, CaughtUpIsCurrent
<1> QED
  BY <1>1, IndexHolds, PTL
-----------------------------------------------------------------------------
(* Reads. *)

LEMMA StepAdvances ==
  ASSUME TypeOK, Placed, IndexInv, [Next]_vars
  PROVE  /\ \A d \in Dpps : records'[d] >= records[d]
         /\ \A d \in Dpps \ raced : entries'[d].version >= entries[d].version
         /\ raced \subseteq raced'
<1>0. \A x \in Dpps : records[x] \in Nat /\ entries[x].version \in Nat /\ records[x] \in 0..MaxVersion
  BY Numbers DEF TypeOK
<1>1. \A d \in Dpps : records'[d] >= records[d]
  <2>1. ASSUME NEW d \in Dpps, CommitRecord(d)
        PROVE  \A x \in Dpps : records'[x] >= records[x]
    <3>1. records' = [records EXCEPT ![d] = records[d] + 1] /\ records \in [Dpps -> 0..MaxVersion]
      BY <2>1 DEF CommitRecord, TypeOK
    <3>2. records'[d] = records[d] + 1 /\ \A x \in Dpps \ {d} : records'[x] = records[x]
      BY <3>1
    <3> QED
      BY <1>0, <3>2
  <2>2. CASE UNCHANGED records
    BY <1>0, <2>2
  <2> QED
    BY <2>1, <2>2
    DEF Next, vars, Tick, CommitStamp, CommitNotify, Subscribe, Snapshot, ProjectRecord, Attached, Displaced,
        BeginRead, ReadEntry, ReadStrong, ReadLastCommit, Decide, store
<1>2. raced \subseteq raced'
  BY DEF Next, vars, Tick, CommitRecord, CommitStamp, CommitNotify, Subscribe, Snapshot, ProjectRecord,
         Attached, Displaced, BeginRead, ReadEntry, ReadStrong, ReadLastCommit, Decide
<1>3. \A d \in Dpps \ raced : entries'[d].version >= entries[d].version
  <2> SUFFICES ASSUME NEW d \in Dpps \ raced
               PROVE  entries'[d].version >= entries[d].version
    OBVIOUS
  <2>1. CASE UNCHANGED entries
    BY <1>0, <2>1
  <2>2. CASE CommitNotify /\ onCommit = "this"
    <3>1. committer.dpp \in Dpps /\ Project(committer.dpp, records[committer.dpp], lastCommit)
      BY <2>2 DEF CommitNotify, Placed, TypeOK
    <3>2. /\ entries'[committer.dpp].version = records[committer.dpp]
          /\ \A x \in Dpps \ {committer.dpp} : entries'[x] = entries[x]
      BY <1>0, <3>1, ProjectTyped
    <3> QED
      BY <1>0, <3>1, <3>2 DEF IndexInv, Behind
  <2>3. ASSUME NEW y \in Dpps, ProjectRecord(y)
        PROVE  entries'[d].version >= entries[d].version
    <3>1. PICK x \in attacher.todo : x[1] = y /\ Project(y, x[2], lastCommit)
      BY <2>3 DEF ProjectRecord
    <3>2. x[2] \in 0..MaxVersion
      BY <3>1, Numbers, VersionAssumption
    <3>3. entries'[y].version = x[2] /\ \A z \in Dpps \ {y} : entries'[z] = entries[z]
      BY <3>1, <3>2, ProjectTyped
    <3> QED
      BY <1>0, <3>1, <3>3 DEF IndexInv, Behind
  <2> QED
    BY <2>1, <2>2, <2>3
    DEF Next, vars, Tick, CommitRecord, CommitStamp, CommitNotify, Subscribe, Snapshot, Attached, Displaced,
        BeginRead, ReadEntry, ReadStrong, ReadLastCommit, Decide, index
<1> QED
  BY <1>1, <1>2, <1>3

(* No step replaces a projection by an older one, those of raced passports *)
(* aside.                                                                  *)
THEOREM ProjectionsOnlyAdvance == Spec => ProjectionsAdvance
<1>1. TypeOK /\ Placed /\ IndexInv /\ [Next]_vars =>
        [\A d \in Dpps \ raced : entries'[d].version >= entries[d].version]_vars
  BY StepAdvances
<1> QED
  BY <1>1, IndexHolds, PTL DEF Spec, ProjectionsAdvance

(* What a read has seen so far is not older than its floor, nor newer than *)
(* the projection is now.                                                  *)
ReadInv ==
  LET d == reader.dpp
  IN  /\ reader.step # "idle" => reader.answer = "none" /\ reader.floor <= records[d]
      /\ reader.step = "entry" /\ d \notin raced => reader.floor <= entries[d].version
      /\ reader.step \in {"backlog", "decide"} =>
           /\ reader.entry.version >= 1
           /\ d \notin raced => reader.floor <= reader.entry.version
                                /\ reader.entry.version <= entries[d].version
      /\ ReadsSeeFinishedWrites

(* An entry is empty or has a version. *)
EntriesReal ==
  /\ \A d \in Dpps : entries[d] = NoEntry \/ entries[d].version >= 1
  /\ committer.step # "idle" => records[committer.dpp] >= 1

LEMMA RealStep ==
  ASSUME TypeOK, Placed, IndexInv, EntriesReal, [Next]_vars
  PROVE  EntriesReal'
<1>0. \A x \in Dpps : records[x] \in Nat /\ records[x] \in 0..MaxVersion
  BY Numbers DEF TypeOK
<1>1. \A x \in Dpps : records'[x] >= records[x]
  BY StepAdvances
<1>2. ASSUME NEW d \in Dpps, NEW v \in 0..MaxVersion, v >= 1, Project(d, v, lastCommit)
      PROVE  \A x \in Dpps : entries'[x] = NoEntry \/ entries'[x].version >= 1
  BY <1>2, ProjectTyped DEF EntriesReal
<1>3. \A x \in Dpps : entries'[x] = NoEntry \/ entries'[x].version >= 1
  <2>1. CASE UNCHANGED entries
    BY <2>1 DEF EntriesReal
  <2>2. CASE CommitNotify /\ onCommit = "this"
    <3>1. committer.dpp \in Dpps /\ Project(committer.dpp, records[committer.dpp], lastCommit)
          /\ records[committer.dpp] >= 1
      BY <2>2 DEF CommitNotify, Placed, TypeOK, EntriesReal
    <3> QED
      BY <1>0, <1>2, <3>1
  <2>3. ASSUME NEW y \in Dpps, ProjectRecord(y)
        PROVE  \A x \in Dpps : entries'[x] = NoEntry \/ entries'[x].version >= 1
    <3>1. PICK x \in attacher.todo : x[1] = y /\ Project(y, x[2], lastCommit)
      BY <2>3 DEF ProjectRecord
    <3>2. x[2] \in 0..MaxVersion /\ x[2] >= 1
      BY <3>1, Numbers, VersionAssumption
    <3> QED
      BY <1>2, <3>1, <3>2
  <2> QED
    BY <2>1, <2>2, <2>3
    DEF Next, vars, Tick, CommitRecord, CommitStamp, CommitNotify, Subscribe, Snapshot, Attached, Displaced,
        BeginRead, ReadEntry, ReadStrong, ReadLastCommit, Decide, index
<1>4. committer'.step # "idle" => records'[committer'.dpp] >= 1
  <2>1. ASSUME NEW d \in Dpps, CommitRecord(d)
        PROVE  records'[committer'.dpp] >= 1
    <3>1. records' = [records EXCEPT ![d] = records[d] + 1] /\ records \in [Dpps -> 0..MaxVersion]
          /\ committer'.dpp = d
      BY <2>1 DEF CommitRecord, TypeOK
    <3>2. records'[d] = records[d] + 1
      BY <3>1
    <3> QED
      BY <1>0, <3>1, <3>2
  <2>2. CASE CommitNotify
    BY <2>2 DEF CommitNotify, NotCommitting
  <2>3. CASE CommitStamp \/ UNCHANGED <<records, committer>>
    <3>1. UNCHANGED records /\ committer'.dpp = committer.dpp
          /\ (committer'.step # "idle" => committer.step # "idle")
      BY <2>3 DEF CommitStamp, TypeOK
    <3> QED
      BY <3>1 DEF EntriesReal
  <2> QED
    BY <2>1, <2>2, <2>3
    DEF Next, vars, Tick, Subscribe, Snapshot, ProjectRecord, Attached, Displaced,
        BeginRead, ReadEntry, ReadStrong, ReadLastCommit, Decide, store
<1> QED
  BY <1>3, <1>4 DEF EntriesReal

LEMMA ReadStep ==
  ASSUME TypeOK, Placed, IndexInv, EntriesReal, ReadInv, [Next]_vars
  PROVE  ReadInv'
<1>0. /\ \A x \in Dpps : records[x] \in Nat /\ entries[x].version \in Nat
      /\ reader.floor \in Nat /\ reader.version \in Nat /\ reader.entry.version \in Nat
      /\ \A x \in Dpps : records'[x] \in Nat /\ entries'[x].version \in Nat
  <2>1. reader \in ReaderType(now)
    BY DEF TypeOK, ReaderType, EntryType
  <2>2. reader.floor \in 0..MaxVersion /\ reader.version \in 0..MaxVersion /\ reader.entry.version \in 0..MaxVersion
    BY <2>1 DEF ReaderType, EntryType
  <2>3. TypeOK'
    BY TypeStep
  <2>4. \A x \in Dpps : records'[x] \in 0..MaxVersion /\ entries'[x] \in EntryType(now')
    BY <2>3 DEF TypeOK, EntryType
  <2> QED
    BY <2>2, <2>4, Numbers, VersionAssumption DEF EntryType
<1>1. /\ \A d \in Dpps : records'[d] >= records[d]
      /\ \A d \in Dpps \ raced : entries'[d].version >= entries[d].version
      /\ raced \subseteq raced'
  BY StepAdvances
<1>2. CASE UNCHANGED reader
  <2>1. reader.step # "idle" => reader.dpp \in Dpps
    BY DEF Placed
  <2>2. ReadsSeeFinishedWrites'
    BY <1>1, <1>2 DEF ReadInv, ReadsSeeFinishedWrites
  <2>3. CASE reader.step = "idle"
    BY <1>2, <2>2, <2>3 DEF ReadInv
  <2>4. CASE reader.step # "idle"
    <3> DEFINE d == reader.dpp
    <3>1. /\ d \in Dpps /\ records'[d] >= records[d]
          /\ d \notin raced' => d \notin raced /\ entries'[d].version >= entries[d].version
      BY <1>1, <2>1, <2>4
    <3>2. reader.floor <= records'[d]
      BY <1>0, <2>4, <3>1 DEF ReadInv
    <3>3. reader.step = "entry" /\ d \notin raced' => reader.floor <= entries'[d].version
      BY <1>0, <3>1 DEF ReadInv
    <3>4. reader.step \in {"backlog", "decide"} /\ d \notin raced' =>
            reader.floor <= reader.entry.version /\ reader.entry.version <= entries'[d].version
      BY <1>0, <3>1 DEF ReadInv
    <3> QED
      BY <1>2, <2>2, <2>4, <3>2, <3>3, <3>4 DEF ReadInv
  <2> QED
    BY <2>3, <2>4
<1>3. ASSUME NEW d \in Dpps, BeginRead(d)
      PROVE  ReadInv'
  <2>1. /\ reader'.step = "entry" /\ reader'.dpp = d /\ reader'.answer = "none" /\ reader'.floor = Floor(d)
        /\ UNCHANGED <<records, entries, raced>>
    BY <1>3 DEF BeginRead, store, index
  <2>2. Floor(d) <= records[d]
    BY <1>0 DEF Floor
  <2>3. d \notin raced => Floor(d) <= entries[d].version
    <3>1. ASSUME d \notin raced, attacher.step = "done" /\ onCommit = "this" /\ committer.dpp # d
          PROVE  entries[d].version = records[d]
      BY <3>1 DEF IndexInv, Projected
    <3>2. records[d] \in Nat /\ entries[d].version \in Nat
      BY <1>0
    <3> QED
      BY <3>1, <3>2 DEF Floor
  <2> QED
    BY <2>1, <2>2, <2>3 DEF ReadInv, ReadsSeeFinishedWrites
<1>4. ASSUME ReadEntry \/ ReadStrong \/ ReadLastCommit \/ Decide
      PROVE  ReadInv'
  <2> DEFINE d == reader.dpp
  <2>0. d \in Dpps /\ reader.step # "idle" /\ UNCHANGED <<records, entries, raced>>
    BY <1>4 DEF ReadEntry, ReadStrong, ReadLastCommit, Decide, store, index, Placed
  <2>1. CASE ReadEntry
    <3>1. /\ reader.step = "entry" /\ reader'.dpp = d /\ reader'.answer = reader.answer /\ reader'.floor = reader.floor
          /\ reader'.entry = entries[d]
          /\ reader'.step = IF entries[d] = NoEntry THEN "strong" ELSE "backlog"
      BY <2>1 DEF ReadEntry, TypeOK
    <3>2. entries[d] # NoEntry => entries[d].version >= 1
      BY <2>0 DEF EntriesReal
    <3> QED
      BY <1>0, <2>0, <3>1, <3>2 DEF ReadInv, ReadsSeeFinishedWrites
  <2>2. CASE ReadStrong
    <3>1. /\ reader'.step = "idle" /\ reader'.floor = reader.floor /\ reader'.version = records[d]
      BY <2>2 DEF ReadStrong, TypeOK
    <3> QED
      BY <1>0, <2>0, <3>1 DEF ReadInv, ReadsSeeFinishedWrites
  <2>3. CASE ReadLastCommit
    <3>1. /\ reader.step = "backlog" /\ reader'.step = "decide" /\ reader'.dpp = d /\ reader'.answer = reader.answer
          /\ reader'.floor = reader.floor /\ reader'.entry = reader.entry
      BY <2>3 DEF ReadLastCommit, TypeOK
    <3> QED
      BY <2>0, <3>1 DEF ReadInv, ReadsSeeFinishedWrites
  <2>4. CASE Decide
    <3>1. /\ reader.step = "decide" /\ reader'.step = "idle" /\ reader'.dpp = d /\ reader'.floor = reader.floor
          /\ reader'.answer = "projected" => reader'.version = reader.entry.version
          /\ reader'.answer \in {"projected", "refused"}
      BY <2>4 DEF Decide, TypeOK
    <3> QED
      BY <1>0, <2>0, <3>1 DEF ReadInv, ReadsSeeFinishedWrites
  <2> QED
    BY <1>4, <2>1, <2>2, <2>3, <2>4
<1> QED
  BY <1>2, <1>3, <1>4
  DEF Next, vars, Tick, CommitRecord, CommitStamp, CommitNotify, Subscribe, Snapshot, ProjectRecord, Attached, Displaced

LEMMA ReadsHold == Spec => [](EntriesReal /\ ReadInv)
<1>1. Init => EntriesReal /\ ReadInv
  BY DEF Init, EntriesReal, ReadInv, ReadsSeeFinishedWrites, NotCommitting
<1>2. TypeOK /\ Placed /\ IndexInv /\ EntriesReal /\ ReadInv /\ [Next]_vars => EntriesReal' /\ ReadInv'
  BY RealStep, ReadStep
<1> QED
  BY <1>1, <1>2, IndexHolds, PTL DEF Spec

(* Read your writes, raced passports aside: a projected read answers with  *)
(* no version older than the one that was committed when it began.         *)
THEOREM ReadsSeeWrites == Spec => []ReadsSeeFinishedWrites
<1>1. ReadInv => ReadsSeeFinishedWrites
  BY DEF ReadInv
<1> QED
  BY <1>1, ReadsHold, PTL

-----------------------------------------------------------------------------
(* The bound on staleness. *)

(* Every version but the one about to be is stamped, the last commit is    *)
(* one of the stamps, and a commit being notified is the last.             *)
Stamped ==
  /\ \A d \in Dpps :
       Len(stamps[d]) = IF committer.step = "stamp" /\ committer.dpp = d THEN records[d] - 1 ELSE records[d]
  /\ lastCommit = 0 \/ \E x \in Dpps : \E w \in DOMAIN stamps[x] : stamps[x][w] = lastCommit
  /\ committer.step = "notify" =>
       LET d == committer.dpp
       IN  Len(stamps[d]) \in DOMAIN stamps[d] /\ stamps[d][Len(stamps[d])] = lastCommit

(* The progress mark is the stamp of a version that is projected. *)
MarkIsProjected ==
  attacher.step = "done" /\ raced = {} =>
    \/ caughtUp = 0
    \/ \E x \in Dpps : \E w \in DOMAIN stamps[x] : stamps[x][w] = caughtUp /\ w <= entries[x].version

LEMMA StampsKept ==
  ASSUME TypeOK, Placed, [Next]_vars
  PROVE  /\ \A d \in Dpps : stamps[d] \in Seq(1..now) /\ DOMAIN stamps[d] = 1..Len(stamps[d]) /\ Len(stamps[d]) \in Nat
         /\ \A d \in Dpps : \A w \in DOMAIN stamps[d] : w \in DOMAIN stamps'[d] /\ stamps'[d][w] = stamps[d][w]
<1>1. \A d \in Dpps : stamps[d] \in Seq(1..now) /\ DOMAIN stamps[d] = 1..Len(stamps[d]) /\ Len(stamps[d]) \in Nat
  BY DEF TypeOK
<1>2. CASE CommitStamp
  <2> DEFINE d == committer.dpp
  <2>1. d \in Dpps /\ stamps' = [stamps EXCEPT ![d] = Append(stamps[d], now)]
    BY <1>2 DEF CommitStamp, Placed, TypeOK
  <2>2. stamps'[d] = Append(stamps[d], now) /\ \A x \in Dpps \ {d} : stamps'[x] = stamps[x]
    BY <2>1 DEF TypeOK
  <2>3. \A w \in DOMAIN stamps[d] : w \in DOMAIN stamps'[d] /\ stamps'[d][w] = stamps[d][w]
    BY <1>1, <2>1, <2>2
  <2> HIDE DEF d
  <2> QED
    BY <1>1, <2>2, <2>3
<1>3. CASE UNCHANGED stamps
  BY <1>1, <1>3
<1> QED
  BY <1>1, <1>2, <1>3
  DEF Next, vars, Tick, CommitRecord, CommitNotify, Subscribe, Snapshot, ProjectRecord, Attached, Displaced,
      BeginRead, ReadEntry, ReadStrong, ReadLastCommit, Decide, store

LEMMA StampStep ==
  ASSUME TypeOK, Placed, Stamped, [Next]_vars
  PROVE  Stamped'
<1>0. /\ \A d \in Dpps : records[d] \in Nat
      /\ \A d \in Dpps : stamps[d] \in Seq(1..now) /\ DOMAIN stamps[d] = 1..Len(stamps[d]) /\ Len(stamps[d]) \in Nat
  BY Numbers, StampsKept
<1>1. CASE UNCHANGED <<records, stamps, lastCommit, committer>>
  BY <1>1 DEF Stamped
<1>2. ASSUME NEW d \in Dpps, CommitRecord(d)
      PROVE  Stamped'
  <2>1. /\ UNCHANGED <<stamps, lastCommit>> /\ committer.step = "idle"
        /\ committer' = [step |-> "stamp", dpp |-> d]
        /\ records' = [records EXCEPT ![d] = records[d] + 1]
    BY <1>2 DEF CommitRecord
  <2>2. records'[d] = records[d] + 1 /\ \A x \in Dpps \ {d} : records'[x] = records[x]
    BY <2>1 DEF TypeOK
  <2> QED
    BY <1>0, <2>1, <2>2 DEF Stamped
<1>3. CASE CommitStamp
  <2> DEFINE d == committer.dpp
  <2>1. /\ d \in Dpps /\ stamps' = [stamps EXCEPT ![d] = Append(stamps[d], now)]
        /\ UNCHANGED records /\ committer'.step = "notify" /\ committer'.dpp = d
        /\ committer.step = "stamp" /\ lastCommit' = now
    BY <1>3 DEF CommitStamp, Placed, TypeOK
  <2>2. stamps'[d] = Append(stamps[d], now) /\ \A x \in Dpps \ {d} : stamps'[x] = stamps[x]
    BY <2>1 DEF TypeOK
  <2>3. /\ Len(stamps'[d]) = Len(stamps[d]) + 1 /\ Len(stamps'[d]) \in DOMAIN stamps'[d]
        /\ stamps'[d][Len(stamps'[d])] = now
    BY <1>0, <2>1, <2>2
  <2>4. Len(stamps[d]) = records[d] - 1 /\ \A x \in Dpps \ {d} : Len(stamps[x]) = records[x]
    BY <2>1 DEF Stamped
  <2> HIDE DEF d
  <2> QED
    BY <1>0, <2>1, <2>2, <2>3, <2>4 DEF Stamped
<1>4. CASE CommitNotify
  <2>1. UNCHANGED <<records, stamps, lastCommit>> /\ committer'.step = "idle" /\ committer.step = "notify"
    BY <1>4 DEF CommitNotify, NotCommitting
  <2> QED
    BY <2>1 DEF Stamped
<1> QED
  BY <1>1, <1>2, <1>3, <1>4
  DEF Next, vars, Tick, Subscribe, Snapshot, ProjectRecord, Attached, Displaced,
      BeginRead, ReadEntry, ReadStrong, ReadLastCommit, Decide, store

LEMMA MarkStep ==
  ASSUME TypeOK, Placed, IndexInv, Stamped, MarkIsProjected, [Next]_vars
  PROVE  MarkIsProjected'
<1> SUFFICES ASSUME attacher'.step = "done", raced' = {}, caughtUp' # 0
             PROVE  \E x \in Dpps : \E w \in DOMAIN stamps'[x] :
                      stamps'[x][w] = caughtUp' /\ w <= entries'[x].version
  BY DEF MarkIsProjected
<1>0. /\ \A d \in Dpps : records[d] \in Nat /\ entries[d].version \in Nat
      /\ \A d \in Dpps : DOMAIN stamps[d] = 1..Len(stamps[d]) /\ Len(stamps[d]) \in Nat
      /\ \A d \in Dpps : \A w \in DOMAIN stamps[d] : w \in DOMAIN stamps'[d] /\ stamps'[d][w] = stamps[d][w]
  BY Numbers, StampsKept
<1>1. /\ raced = {}
      /\ \A d \in Dpps : entries'[d].version >= entries[d].version
      /\ \A d \in Dpps : entries'[d].version \in Nat
  <2>1. TypeOK'
    BY TypeStep
  <2>2. \A d \in Dpps : entries'[d] \in EntryType(now')
    BY <2>1 DEF TypeOK, EntryType
  <2> QED
    BY <2>2, StepAdvances, VersionAssumption DEF EntryType
<1>2. ASSUME caughtUp' = caughtUp, attacher.step = "done"
      PROVE  \E x \in Dpps : \E w \in DOMAIN stamps'[x] :
               stamps'[x][w] = caughtUp' /\ w <= entries'[x].version
  <2>1. PICK x \in Dpps : \E w \in DOMAIN stamps[x] : stamps[x][w] = caughtUp /\ w <= entries[x].version
    BY <1>1, <1>2 DEF MarkIsProjected
  <2>2. PICK w \in DOMAIN stamps[x] : stamps[x][w] = caughtUp /\ w <= entries[x].version
    BY <2>1
  <2>3. w \in Nat /\ w <= entries'[x].version
    BY <1>0, <1>1, <2>2
  <2> QED
    BY <1>0, <1>2, <2>2, <2>3
<1>3. CASE CommitNotify /\ onCommit = "this"
  <2> DEFINE d == committer.dpp
             w == Len(stamps[d])
  <2>1. /\ d \in Dpps /\ Project(d, records[d], lastCommit) /\ records[d] \in 0..MaxVersion
        /\ committer.step = "notify" /\ UNCHANGED stamps
    BY <1>3 DEF CommitNotify, Placed, TypeOK
  <2>2. entries'[d].version = records[d] /\ caughtUp' = lastCommit
    BY <2>1, ProjectTyped
  <2>3. w \in DOMAIN stamps[d] /\ stamps[d][w] = lastCommit /\ w = records[d]
    BY <2>1 DEF Stamped
  <2> QED
    BY <1>0, <2>1, <2>2, <2>3
<1>4. CASE Attached
  <2>1. /\ UNCHANGED <<entries, stamps, lastCommit>> /\ caughtUp' = Larger(caughtUp, lastCommit)
        /\ attacher.step = "project" /\ attacher.todo = {}
    BY <1>4 DEF Attached, store
  <2>2. caughtUp' = lastCommit
    BY <2>1, Numbers DEF Larger, TypeOK
  <2>3. PICK x \in Dpps : \E w \in DOMAIN stamps[x] : stamps[x][w] = lastCommit
    BY <2>2 DEF Stamped
  <2>4. PICK w \in DOMAIN stamps[x] : stamps[x][w] = lastCommit
    BY <2>3
  <2>5. w \in Nat /\ w >= 1 /\ w <= records[x] /\ records[x] # 0
    BY <1>0, <2>4 DEF Stamped
  <2>6. entries[x].version = records[x]
    BY <1>0, <1>1, <2>1, <2>5 DEF IndexInv, Projected
  <2> QED
    BY <1>0, <2>1, <2>2, <2>4, <2>5, <2>6
<1>5. CASE UNCHANGED <<caughtUp, attacher>> \/ CommitNotify \/ (\E d \in Dpps : ProjectRecord(d)) \/ Subscribe \/ Snapshot
  <2>1. CASE UNCHANGED <<caughtUp, attacher>>
    BY <1>2, <2>1
  <2>2. CASE CommitNotify /\ onCommit # "this"
    BY <1>2, <2>2 DEF CommitNotify, index
  <2>3. CASE (\E d \in Dpps : ProjectRecord(d)) \/ Subscribe \/ Snapshot
    <3>1. ASSUME NEW d \in Dpps, ProjectRecord(d)
          PROVE  attacher'.step = "project"
      BY <3>1 DEF ProjectRecord, TypeOK
    <3>2. CASE Subscribe
      BY <3>2 DEF Subscribe, TypeOK
    <3>3. CASE Snapshot
      BY <3>3 DEF Snapshot
    <3> QED
      BY <2>3, <3>1, <3>2, <3>3
  <2> QED
    BY <1>3, <1>5, <2>1, <2>2, <2>3
<1> QED
  BY <1>3, <1>4, <1>5
  DEF Next, vars, Tick, CommitRecord, CommitStamp, Displaced,
      BeginRead, ReadEntry, ReadStrong, ReadLastCommit, Decide, store, index

LEMMA MarksHold == Spec => [](Stamped /\ MarkIsProjected)
<1>1. Init => Stamped /\ MarkIsProjected
  BY DEF Init, Stamped, MarkIsProjected, NotCommitting
<1>2. TypeOK /\ Placed /\ IndexInv /\ Stamped /\ MarkIsProjected /\ [Next]_vars => Stamped' /\ MarkIsProjected'
  BY StampStep, MarkStep
<1> QED
  BY <1>1, <1>2, IndexHolds, PTL DEF Spec

(* A projected answer of an attached index lacks a commit only if that     *)
(* commit was stamped at most max_lag_ms after one that a projection has,  *)
(* also when another index has taken the callback.                         *)
THEOREM StalenessIsBounded == Spec => StaleOnlyWithinLimit
<1> DEFINE Bounded ==
      LET d == reader.dpp
      IN  /\ reader.step = "decide" /\ reader'.answer = "projected"
          /\ attacher.step = "done" /\ raced = {}
          => \A v \in DOMAIN stamps[d] :
               v > reader.entry.version /\ stamps[d][v] <= reader.last =>
                 \E x \in Dpps : \E w \in DOMAIN stamps[x] :
                   /\ w <= entries[x].version
                   /\ stamps[d][v] - stamps[x][w] <= MaxLag
<1>1. TypeOK /\ Placed /\ IndexInv /\ ReadInv /\ Stamped /\ MarkIsProjected /\ [Next]_vars => [Bounded]_vars
  <2> SUFFICES ASSUME TypeOK, Placed, IndexInv, ReadInv, Stamped, MarkIsProjected, [Next]_vars,
                      reader.step = "decide", reader'.answer = "projected",
                      attacher.step = "done", raced = {},
                      NEW v \in DOMAIN stamps[reader.dpp],
                      v > reader.entry.version, stamps[reader.dpp][v] <= reader.last
               PROVE  \E x \in Dpps : \E w \in DOMAIN stamps[x] :
                        /\ w <= entries[x].version
                        /\ stamps[reader.dpp][v] - stamps[x][w] <= MaxLag
    OBVIOUS
  <2> DEFINE d == reader.dpp
  <2>1. d \in Dpps /\ reader.answer = "none"
    BY DEF Placed, ReadInv
  <2>2. Lag(reader.entry, reader.last) <= MaxLag
    <3>1. CASE UNCHANGED reader
      BY <2>1, <3>1
    <3>2. CASE Decide
      <4>1. reader'.answer = IF Lag(reader.entry, reader.last) > MaxLag THEN "refused" ELSE "projected"
        BY <3>2 DEF Decide, TypeOK
      <4>2. Lag(reader.entry, reader.last) \in Int
        <5>1. reader.entry \in EntryType(now) /\ reader.last \in 0..now
          BY DEF TypeOK, EntryType
        <5>2. reader.entry.generated \in Int /\ reader.entry.committed \in Int /\ reader.last \in Int
          BY <5>1, Numbers DEF EntryType
        <5> QED
          BY <5>2, Numbers DEF Lag, Larger
      <4> QED
        BY <4>1, <4>2, LagAssumption
    <3> QED
      BY <3>1, <3>2
      DEF Next, vars, Tick, CommitRecord, CommitStamp, CommitNotify, Subscribe, Snapshot, ProjectRecord,
          Attached, Displaced, BeginRead, ReadEntry, ReadStrong, ReadLastCommit
  <2>3. reader.last - caughtUp <= MaxLag /\ reader.last \in Nat /\ caughtUp \in Nat
    <3>1. reader.entry \in EntryType(now) /\ reader.last \in 0..now
      BY DEF TypeOK, EntryType
    <3>2. reader.entry.generated \in Int /\ reader.entry.committed \in Int /\ reader.last \in Nat
      BY <3>1, Numbers DEF EntryType
    <3> QED
      BY <2>2, <3>2, Numbers, LagAssumption DEF Lag, Larger
  <2>4. /\ \A x \in Dpps : stamps[x] \in Seq(1..now) /\ DOMAIN stamps[x] = 1..Len(stamps[x]) /\ Len(stamps[x]) \in Nat
        /\ \A x \in Dpps : \A w \in DOMAIN stamps[x] : stamps[x][w] \in 1..now
    <3>1. \A x \in Dpps : stamps[x] \in Seq(1..now) /\ DOMAIN stamps[x] = 1..Len(stamps[x]) /\ Len(stamps[x]) \in Nat
      BY StampsKept
    <3> QED
      BY <3>1, ElementOfSeq
  <2>5. CASE caughtUp = 0
    <3> DEFINE w == reader.entry.version
    <3>1. w >= 1 /\ w <= entries[d].version /\ w \in Nat
      <4>1. reader.entry \in EntryType(now)
        BY DEF TypeOK, EntryType
      <4> QED
        BY <2>1, <4>1, VersionAssumption DEF ReadInv, EntryType
    <3>2. w \in DOMAIN stamps[d]
      BY <2>1, <2>4, <3>1
    <3>3. stamps[d][v] \in Nat /\ stamps[d][w] \in Nat
      BY <2>1, <2>4, <3>2
    <3>4. stamps[d][v] - stamps[d][w] <= MaxLag
      BY <2>3, <2>5, <3>3, LagAssumption
    <3> QED
      BY <2>1, <3>1, <3>2, <3>4
  <2>6. CASE caughtUp # 0
    <3>1. PICK x \in Dpps : \E w \in DOMAIN stamps[x] : stamps[x][w] = caughtUp /\ w <= entries[x].version
      BY <2>6 DEF MarkIsProjected
    <3>2. PICK w \in DOMAIN stamps[x] : stamps[x][w] = caughtUp /\ w <= entries[x].version
      BY <3>1
    <3>3. stamps[d][v] \in Nat
      BY <2>1, <2>4
    <3>4. stamps[d][v] - stamps[x][w] <= MaxLag
      BY <2>3, <3>2, <3>3, LagAssumption
    <3> QED
      BY <3>2, <3>4
  <2> QED
    BY <2>5, <2>6
<1>2. Spec => [][Bounded]_vars
  <2> HIDE DEF Bounded
  <2> QED
    BY <1>1, IndexHolds, ReadsHold, MarksHold, PTL DEF Spec
<1> QED
  BY <1>2 DEF StaleOnlyWithinLimit


=============================================================================
