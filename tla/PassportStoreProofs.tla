------------------------ MODULE PassportStoreProofs ------------------------
(***************************************************************************)
(* Theorems about the passport store, for every set of passports,          *)
(* identifiers, request bodies and every bound on the number of commits.   *)
(***************************************************************************)
EXTENDS PassportStore, TLAPS

-----------------------------------------------------------------------------
(* What the operations write is a well-typed record. *)

LEMMA DigestTyped == \A r \in Record : Digest(r) \in DigestType
  BY DEF Record, Digest, DigestType, Collections

(* Updating a member of a record with a value of its type. *)
LEMMA MemberUpdate ==
  ASSUME NEW r \in Record
  PROVE  /\ \A v \in Nat : [r EXCEPT !.recordVersion = v] \in Record
         /\ \A v \in Epcs : [r EXCEPT !.epc = v] \in Record
         /\ \A v \in Seq(Binding) : [r EXCEPT !.carriers = v] \in Record
         /\ \A v \in [Collections -> Seq(Entry)] : [r EXCEPT !.log = v] \in Record
<1>1. \A v \in Nat : [r EXCEPT !.recordVersion = v] \in Record
  BY DEF Record
<1>2. \A v \in Epcs : [r EXCEPT !.epc = v] \in Record
  BY DEF Record
<1>3. \A v \in Seq(Binding) : [r EXCEPT !.carriers = v] \in Record
  BY DEF Record
<1>4. \A v \in [Collections -> Seq(Entry)] : [r EXCEPT !.log = v] \in Record
  BY DEF Record
<1> QED
  BY <1>1, <1>2, <1>3, <1>4

LEMMA CreatedTyped ==
  ASSUME NEW p \in Payloads
  PROVE  [p EXCEPT !.recordVersion = 1] \in Record
  BY PayloadAssumption DEF Record

LEMMA MergeTyped ==
  ASSUME NEW r \in Record, NEW p \in Patches
  PROVE  Merge(r, p) \in Record
<1> USE PatchAssumption DEF Record
<1>1. PatchTyped(p)
  OBVIOUS
<1>2. [c \in Collections |-> Overlay(p, c, r.log[c])] \in [Collections -> Seq(Entry)]
  BY <1>1 DEF PatchTyped, Overlay
<1> QED
  BY <1>1, <1>2 DEF PatchTyped, Overlay, Merge

LEMMA AppendedTyped ==
  ASSUME NEW r \in Record, NEW c \in Collections, NEW e \in Entry
  PROVE  /\ Appended(r, c, e) \in Record
         /\ Appended(r, c, e).log = [k \in Collections |-> IF k = c THEN Append(r.log[c], e) ELSE r.log[k]]
<1>1. r.log \in [Collections -> Seq(Entry)]
  BY DEF Record
<1>2. Append(r.log[c], e) \in Seq(Entry)
  BY <1>1
<1>3. [k \in Collections |-> IF k = c THEN Append(r.log[c], e) ELSE r.log[k]] \in [Collections -> Seq(Entry)]
  BY <1>1, <1>2
<1>4. [r.log EXCEPT ![c] = Append(r.log[c], e)]
        = [k \in Collections |-> IF k = c THEN Append(r.log[c], e) ELSE r.log[k]]
  BY <1>1
<1> DEFINE r1 == [r EXCEPT !.recordVersion = r.recordVersion + 1]
           l == [r.log EXCEPT ![c] = Append(r.log[c], e)]
<1>5. r.recordVersion + 1 \in Nat
  BY DEF Record
<1>6. r1 \in Record
  BY <1>5, MemberUpdate
<1>7. [r1 EXCEPT !.log = l] \in Record /\ [r1 EXCEPT !.log = l].log = l
  <2>1. l \in [Collections -> Seq(Entry)]
    BY <1>3, <1>4
  <2> HIDE DEF r1, l
  <2>2. [r1 EXCEPT !.log = l] \in Record
    BY <1>6, <2>1, MemberUpdate
  <2>3. [r1 EXCEPT !.log = l].log = l
    BY <1>6 DEF Record
  <2> QED
    BY <2>2, <2>3
<1> QED
  BY <1>4, <1>7 DEF Appended

(* Closing keeps the number of bindings and their identifiers. *)
LEMMA CloseTyped ==
  ASSUME NEW carriers \in Seq(Binding)
  PROVE  /\ Close(carriers) \in Seq(Binding)
         /\ Len(Close(carriers)) = Len(carriers)
         /\ \A i \in 1..Len(carriers) :
              /\ Close(carriers)[i].encodedIdentifier = carriers[i].encodedIdentifier
              /\ ~IsCommissioned(Close(carriers)[i])
<1>1. \A i \in 1..Len(carriers) : carriers[i] \in Binding
  OBVIOUS
<1>2. \A i \in 1..Len(carriers) : Close(carriers)[i] \in Binding
  BY <1>1 DEF Close, Binding, BindingStatuses
<1>3. DOMAIN Close(carriers) = 1..Len(carriers)
  BY DEF Close
<1>4. Close(carriers) \in [1..Len(carriers) -> Binding]
  BY <1>2, <1>3 DEF Close
<1>5. Close(carriers) \in Seq(Binding) /\ Len(Close(carriers)) = Len(carriers)
  BY <1>4
<1>6. \A b \in Binding : [b EXCEPT !.bindingStatus = "replaced"].bindingStatus = "replaced"
                      /\ [b EXCEPT !.bindingStatus = "replaced"].encodedIdentifier = b.encodedIdentifier
  BY DEF Binding
<1>7. \A i \in 1..Len(carriers) :
        Close(carriers)[i] = IF IsCommissioned(carriers[i])
                             THEN [carriers[i] EXCEPT !.bindingStatus = "replaced"]
                             ELSE carriers[i]
  BY DEF Close
<1> QED
  BY <1>1, <1>5, <1>6, <1>7 DEF IsCommissioned

LEMMA ReboundTyped ==
  ASSUME NEW r \in Record, NEW e \in Epcs
  PROVE  Rebound(r, e) \in Record
<1>1. Close(r.carriers) \in Seq(Binding)
  BY CloseTyped DEF Record
<1>2. [encodedIdentifier |-> e, bindingStatus |-> "commissioned"] \in Binding
  BY DEF Binding, BindingStatuses
<1>3. Append(Close(r.carriers), [encodedIdentifier |-> e, bindingStatus |-> "commissioned"]) \in Seq(Binding)
  BY <1>1, <1>2
<1> DEFINE r1 == [r EXCEPT !.recordVersion = r.recordVersion + 1]
           r2 == [r1 EXCEPT !.epc = e]
           cs == Append(Close(r.carriers), [encodedIdentifier |-> e, bindingStatus |-> "commissioned"])
<1>4. r.recordVersion + 1 \in Nat
  BY DEF Record
<1>5. r1 \in Record
  BY <1>4, MemberUpdate
<1>6. r2 \in Record
  <2> HIDE DEF r1
  <2> QED
    BY <1>5, MemberUpdate
<1>7. [r2 EXCEPT !.carriers = cs] \in Record
  <2>1. cs \in Seq(Binding)
    BY <1>3
  <2> HIDE DEF r2, cs
  <2> QED
    BY <1>6, <2>1, MemberUpdate
<1> QED
  BY <1>7 DEF Rebound

(* What each operation leaves of the record it starts from. *)
LEMMA CreatedKeeps ==
  ASSUME NEW p \in Record
  PROVE  LET r == [p EXCEPT !.recordVersion = 1]
         IN  r.dppId = p.dppId /\ r.recordVersion = 1 /\ r.carriers = p.carriers /\ r.log = p.log
  BY DEF Record

LEMMA AppendedKeeps ==
  ASSUME NEW r \in Record, NEW c \in Collections, NEW e \in Entry
  PROVE  /\ Appended(r, c, e).dppId = r.dppId
         /\ Appended(r, c, e).recordVersion = r.recordVersion + 1
         /\ Appended(r, c, e).carriers = r.carriers
  BY DEF Record, Appended

LEMMA ReboundKeeps ==
  ASSUME NEW r \in Record, NEW e \in Epcs
  PROVE  /\ Rebound(r, e).dppId = r.dppId
         /\ Rebound(r, e).recordVersion = r.recordVersion + 1
         /\ Rebound(r, e).log = r.log
         /\ Rebound(r, e).carriers = Append(Close(r.carriers), [encodedIdentifier |-> e,
                                                               bindingStatus |-> "commissioned"])
  BY DEF Record, Rebound

-----------------------------------------------------------------------------
(* Type correctness. *)

OutboxEntry == [dppId : Dpps, subjectVersion : Nat, digestValue : DigestType]

(* A commit of a well-typed record keeps the three variables it writes     *)
(* well typed.                                                             *)
LEMMA CommitTyped ==
  ASSUME TypeOK, NEW r \in Record, Commit(r)
  PROVE  /\ DOMAIN records' \subseteq Dpps
         /\ \A d \in DOMAIN records' : records'[d] \in Record /\ records'[d].dppId = d
         /\ history' \in [Dpps -> Seq(Record)]
         /\ outbox' \in Seq(OutboxEntry)
<1>1. r.dppId \in Dpps /\ r.recordVersion \in Nat
  BY DEF Record
<1>2. records' = Put(records, r.dppId, r)
  BY DEF Commit
<1>3. DOMAIN records' \subseteq Dpps
  BY <1>1, <1>2 DEF TypeOK, Put
<1>4. \A d \in DOMAIN records' : records'[d] \in Record /\ records'[d].dppId = d
  BY <1>1, <1>2 DEF TypeOK, Put
<1>5. history' \in [Dpps -> Seq(Record)]
  BY <1>1 DEF TypeOK, Commit
<1>6. [dppId |-> r.dppId, subjectVersion |-> r.recordVersion, digestValue |-> Digest(r)] \in OutboxEntry
  BY <1>1, DigestTyped DEF OutboxEntry
<1>7. outbox \in Seq(OutboxEntry)
  BY DEF TypeOK, OutboxEntry
<1>8. outbox' \in Seq(OutboxEntry)
  BY <1>6, <1>7 DEF Commit
<1> QED
  BY <1>3, <1>4, <1>5, <1>8

(* The two carrier tables keep their types under the updates that          *)
(* commission_carrier makes.                                               *)
LEMMA TablesTyped ==
  ASSUME NEW f, f \in [DOMAIN f -> Dpps], DOMAIN f \subseteq Epcs,
         NEW S \in SUBSET Epcs, NEW e \in Epcs, NEW d \in Dpps
  PROVE  /\ Drop(f, S) \in [DOMAIN Drop(f, S) -> Dpps] /\ DOMAIN Drop(f, S) \subseteq Epcs
         /\ Put(f, e, d) \in [DOMAIN Put(f, e, d) -> Dpps] /\ DOMAIN Put(f, e, d) \subseteq Epcs
         /\ PutAll(f, S, d) \in [DOMAIN PutAll(f, S, d) -> Dpps] /\ DOMAIN PutAll(f, S, d) \subseteq Epcs
<1>1. Drop(f, S) \in [DOMAIN Drop(f, S) -> Dpps] /\ DOMAIN Drop(f, S) \subseteq Epcs
  BY DEF Drop
<1>2. Put(f, e, d) \in [DOMAIN Put(f, e, d) -> Dpps] /\ DOMAIN Put(f, e, d) \subseteq Epcs
  BY DEF Put
<1>3. PutAll(f, S, d) \in [DOMAIN PutAll(f, S, d) -> Dpps] /\ DOMAIN PutAll(f, S, d) \subseteq Epcs
  BY DEF PutAll
<1> QED
  BY <1>1, <1>2, <1>3

LEMMA TypeInit == Init => TypeOK
  BY DEF Init, TypeOK, OutboxEntry

LEMMA TypeStep ==
  ASSUME TypeOK, [Next]_vars
  PROVE  TypeOK'
<1>1. ASSUME NEW p \in Payloads, Create(p)
      PROVE  TypeOK'
  <2>1. [p EXCEPT !.recordVersion = 1] \in Record
    BY CreatedTyped
  <2>2. Commit([p EXCEPT !.recordVersion = 1]) /\ UNCHANGED <<carrierIndex, retiredCarriers>>
    BY <1>1 DEF Create
  <2> QED
    BY <2>1, <2>2, CommitTyped DEF TypeOK, OutboxEntry
<1>2. ASSUME NEW d \in Dpps, NEW p \in Patches, Patch(d, p)
      PROVE  TypeOK'
  <2>1. Merge(records[d], p) \in Record
    BY <1>2, MergeTyped DEF Patch, TypeOK
  <2>2. Commit(Merge(records[d], p)) /\ UNCHANGED <<carrierIndex, retiredCarriers>>
    BY <1>2 DEF Patch
  <2> QED
    BY <2>1, <2>2, CommitTyped DEF TypeOK, OutboxEntry
<1>3. ASSUME NEW d \in Dpps, NEW c \in Collections, NEW e \in Entry, AppendEntry(d, c, e)
      PROVE  TypeOK'
  <2>1. Appended(records[d], c, e) \in Record
    BY <1>3, AppendedTyped DEF AppendEntry, TypeOK
  <2>2. Commit(Appended(records[d], c, e)) /\ UNCHANGED <<carrierIndex, retiredCarriers>>
    BY <1>3 DEF AppendEntry
  <2> QED
    BY <2>1, <2>2, CommitTyped DEF TypeOK, OutboxEntry
<1>4. ASSUME NEW d \in Dpps, NEW c \in CarrierRequests, CommissionCarrier(d, c)
      PROVE  TypeOK'
  <2> DEFINE e == c.encodedIdentifier
             open == CommissionedIn(records[d])
  <2>1. e \in Epcs
    BY RequestAssumption
  <2>2. records[d] \in Record /\ open \in SUBSET Epcs
    BY <1>4 DEF CommissionCarrier, TypeOK, CommissionedIn
  <2>3. Rebound(records[d], e) \in Record
    BY <2>1, <2>2, ReboundTyped
  <2>4. /\ Commit(Rebound(records[d], e))
        /\ carrierIndex' = Put(Drop(carrierIndex, open), e, d)
        /\ retiredCarriers' = PutAll(retiredCarriers, open, d)
    BY <1>4 DEF CommissionCarrier
  <2> HIDE DEF e, open
  <2>5. /\ Drop(carrierIndex, open) \in [DOMAIN Drop(carrierIndex, open) -> Dpps]
        /\ DOMAIN Drop(carrierIndex, open) \subseteq Epcs
    BY <2>1, <2>2, TablesTyped DEF TypeOK
  <2>6. carrierIndex' \in [DOMAIN carrierIndex' -> Dpps] /\ DOMAIN carrierIndex' \subseteq Epcs
    BY <2>1, <2>2, <2>4, <2>5, TablesTyped
  <2>7. retiredCarriers' \in [DOMAIN retiredCarriers' -> Dpps] /\ DOMAIN retiredCarriers' \subseteq Epcs
    BY <2>1, <2>2, <2>4, TablesTyped DEF TypeOK
  <2> QED
    BY <2>3, <2>4, <2>6, <2>7, CommitTyped DEF TypeOK, OutboxEntry
<1>5. ASSUME NEW d \in Dpps, NEW c \in CarrierRequests, CommissionFails(d, c)
      PROVE  TypeOK'
  <2> DEFINE open == CommissionedIn(records[d])
  <2>1. open \in SUBSET Epcs /\ c.encodedIdentifier \in Epcs
    BY RequestAssumption DEF CommissionedIn
  <2>2. /\ carrierIndex' = Drop(carrierIndex, open)
        /\ retiredCarriers' = PutAll(retiredCarriers, open, d)
        /\ UNCHANGED <<records, history, outbox>>
    BY <1>5 DEF CommissionFails
  <2> HIDE DEF open
  <2>3. /\ carrierIndex' \in [DOMAIN carrierIndex' -> Dpps] /\ DOMAIN carrierIndex' \subseteq Epcs
        /\ retiredCarriers' \in [DOMAIN retiredCarriers' -> Dpps] /\ DOMAIN retiredCarriers' \subseteq Epcs
    BY <2>1, <2>2, TablesTyped DEF TypeOK
  <2> QED
    BY <2>2, <2>3 DEF TypeOK
<1>6. CASE UNCHANGED vars
  BY <1>6 DEF TypeOK, vars
<1> QED
  BY <1>1, <1>2, <1>3, <1>4, <1>5, <1>6 DEF Next

(* Every reachable state is well typed: whatever clients send, the store   *)
(* keeps each passport under its own identifier, and its carrier tables    *)
(* and outbox name passports that can exist.                               *)
THEOREM TypeCorrect == Spec => []TypeOK
<1>1. Init => TypeOK
  BY TypeInit
<1>2. TypeOK /\ [Next]_vars => TypeOK'
  BY TypeStep
<1> QED
  BY <1>1, <1>2, PTL DEF Spec

-----------------------------------------------------------------------------
(* Versions and their history. *)

(* The record r becomes the next version of the passport it names, whose   *)
(* logs it continues.                                                      *)
NextVersion(r) ==
  /\ Commit(r)
  /\ \/ r.dppId \notin DOMAIN records /\ r.recordVersion = 1
     \/ /\ r.dppId \in DOMAIN records /\ r.recordVersion = records[r.dppId].recordVersion + 1
        /\ GuardAppendOnly(records[r.dppId], r)

LEMMA PrefixOfItself == ASSUME NEW S, NEW s \in Seq(S) PROVE IsPrefix(s, s)
  BY DEF IsPrefix

LEMMA PrefixOfAppended == ASSUME NEW S, NEW s \in Seq(S), NEW x \in S PROVE IsPrefix(s, Append(s, x))
<1>1. Append(s, x) \in Seq(S) /\ Len(Append(s, x)) = Len(s) + 1 /\ Len(s) \in Nat
  OBVIOUS
<1>2. \A i \in 1..Len(s) : Append(s, x)[i] = s[i]
  OBVIOUS
<1>3. SubSeq(s, 1, Len(s)) = [i \in 1..Len(s) |-> s[i]]
  OBVIOUS
<1>4. SubSeq(Append(s, x), 1, Len(s)) = [i \in 1..Len(s) |-> Append(s, x)[i]]
  BY <1>1
<1> QED
  BY <1>1, <1>2, <1>3, <1>4 DEF IsPrefix

LEMMA PrefixIsTransitive ==
  ASSUME NEW S, NEW s \in Seq(S), NEW t \in Seq(S), NEW u \in Seq(S), IsPrefix(s, t), IsPrefix(t, u)
  PROVE  IsPrefix(s, u)
<1>1. Len(s) \in Nat /\ Len(t) \in Nat /\ Len(u) \in Nat /\ Len(s) <= Len(t) /\ Len(t) <= Len(u)
  BY DEF IsPrefix
<1>2. \A i \in 1..Len(s) : s[i] = t[i]
  <2>1. SubSeq(s, 1, Len(s)) = SubSeq(t, 1, Len(s))
    BY DEF IsPrefix
  <2>2. \A i \in 1..Len(s) : SubSeq(s, 1, Len(s))[i] = s[i] /\ SubSeq(t, 1, Len(s))[i] = t[i]
    BY <1>1
  <2> QED
    BY <2>1, <2>2
<1>3. \A i \in 1..Len(t) : t[i] = u[i]
  <2>1. SubSeq(t, 1, Len(t)) = SubSeq(u, 1, Len(t))
    BY DEF IsPrefix
  <2>2. \A i \in 1..Len(t) : SubSeq(t, 1, Len(t))[i] = t[i] /\ SubSeq(u, 1, Len(t))[i] = u[i]
    BY <1>1
  <2> QED
    BY <2>1, <2>2
<1>4. \A i \in 1..Len(s) : s[i] = u[i]
  BY <1>1, <1>2, <1>3
<1>5. SubSeq(s, 1, Len(s)) = [i \in 1..Len(s) |-> s[i]] /\ SubSeq(u, 1, Len(s)) = [i \in 1..Len(s) |-> u[i]]
  BY <1>1
<1> QED
  BY <1>1, <1>4, <1>5 DEF IsPrefix

LEMMA AppendedContinues ==
  ASSUME NEW r \in Record, NEW c \in Collections, NEW e \in Entry
  PROVE  GuardAppendOnly(r, Appended(r, c, e))
<1> SUFFICES ASSUME NEW k \in Collections PROVE IsPrefix(r.log[k], Appended(r, c, e).log[k])
  BY DEF GuardAppendOnly
<1>0. Appended(r, c, e).log = [j \in Collections |-> IF j = c THEN Append(r.log[c], e) ELSE r.log[j]]
  BY AppendedTyped
<1>1. Appended(r, c, e).log[k] = IF k = c THEN Append(r.log[c], e) ELSE r.log[k]
  BY <1>0
<1>2. r.log[k] \in Seq(Entry)
  BY DEF Record
<1> QED
  BY <1>1, <1>2, PrefixOfItself, PrefixOfAppended

LEMMA SameLogContinues ==
  ASSUME NEW r \in Record, NEW q \in Record, q.log = r.log
  PROVE  GuardAppendOnly(r, q)
<1>1. \A k \in Collections : r.log[k] \in Seq(Entry)
  BY DEF Record
<1> QED
  BY <1>1, PrefixOfItself DEF GuardAppendOnly

(* A step that writes a record writes the next version of its passport, as *)
(* long as no patch may move a record to another dppId.                    *)
LEMMA StepIsNextVersion ==
  ASSUME PatchesKeepDppId, TypeOK, Next
  PROVE  UNCHANGED <<records, history, outbox>> \/ \E r \in Record : NextVersion(r)
<1>1. ASSUME NEW p \in Payloads, Create(p)
      PROVE  \E r \in Record : NextVersion(r)
  <2> DEFINE r == [p EXCEPT !.recordVersion = 1]
  <2>1. r \in Record /\ r.dppId = p.dppId /\ r.recordVersion = 1
    BY CreatedTyped, CreatedKeeps, PayloadAssumption
  <2>2. Commit(r) /\ p.dppId \notin DOMAIN records
    BY <1>1 DEF Create
  <2> HIDE DEF r
  <2> QED
    BY <2>1, <2>2 DEF NextVersion
<1>2. ASSUME NEW d \in Dpps, NEW p \in Patches, Patch(d, p)
      PROVE  \E r \in Record : NextVersion(r)
  <2> DEFINE r == Merge(records[d], p)
  <2>1. d \in DOMAIN records /\ records[d] \in Record /\ records[d].dppId = d
    BY <1>2 DEF Patch, TypeOK
  <2>2. "dppId" \notin DOMAIN p
    BY <1>2 DEF Patch, PatchesKeepDppId
  <2>3. r \in Record
    BY <2>1, MergeTyped
  <2>4. r.dppId = d /\ r.recordVersion = records[d].recordVersion + 1
    BY <2>1, <2>2 DEF Merge, Overlay
  <2>5. Commit(r) /\ GuardAppendOnly(records[d], r)
    BY <1>2 DEF Patch
  <2> HIDE DEF r
  <2> QED
    BY <2>1, <2>3, <2>4, <2>5 DEF NextVersion
<1>3. ASSUME NEW d \in Dpps, NEW c \in Collections, NEW e \in Entry, AppendEntry(d, c, e)
      PROVE  \E r \in Record : NextVersion(r)
  <2> DEFINE r == Appended(records[d], c, e)
  <2>1. d \in DOMAIN records /\ records[d] \in Record /\ records[d].dppId = d
    BY <1>3 DEF AppendEntry, TypeOK
  <2>2. r \in Record /\ r.dppId = d /\ r.recordVersion = records[d].recordVersion + 1
    BY <2>1, AppendedTyped, AppendedKeeps
  <2>3. Commit(r) /\ GuardAppendOnly(records[d], r)
    BY <1>3, <2>1, AppendedContinues DEF AppendEntry
  <2> HIDE DEF r
  <2> QED
    BY <2>1, <2>2, <2>3 DEF NextVersion
<1>4. ASSUME NEW d \in Dpps, NEW c \in CarrierRequests, CommissionCarrier(d, c)
      PROVE  \E r \in Record : NextVersion(r)
  <2> DEFINE r == Rebound(records[d], c.encodedIdentifier)
  <2>1. d \in DOMAIN records /\ records[d] \in Record /\ records[d].dppId = d
    BY <1>4 DEF CommissionCarrier, TypeOK
  <2>2. c.encodedIdentifier \in Epcs
    BY RequestAssumption
  <2>3. r \in Record /\ r.dppId = d /\ r.recordVersion = records[d].recordVersion + 1
    BY <2>1, <2>2, ReboundTyped, ReboundKeeps
  <2>4. Commit(r) /\ GuardAppendOnly(records[d], r)
    BY <1>4, <2>1, <2>2, ReboundTyped, ReboundKeeps, SameLogContinues DEF CommissionCarrier
  <2> HIDE DEF r
  <2> QED
    BY <2>1, <2>3, <2>4 DEF NextVersion
<1>5. ASSUME NEW d \in Dpps, NEW c \in CarrierRequests, CommissionFails(d, c)
      PROVE  UNCHANGED <<records, history, outbox>>
  BY <1>5 DEF CommissionFails
<1> QED
  BY <1>1, <1>2, <1>3, <1>4, <1>5 DEF Next

(* What committing a next version does to the current records and to the   *)
(* histories.                                                              *)
LEMMA NextVersionWrites ==
  ASSUME TypeOK, HistoryRetained, NEW r \in Record, NextVersion(r)
  PROVE  /\ r.dppId \in Dpps
         /\ DOMAIN records' = DOMAIN records \cup {r.dppId}
         /\ records'[r.dppId] = r
         /\ \A d \in DOMAIN records : d # r.dppId => records'[d] = records[d]
         /\ \A d \in Dpps : d # r.dppId => history'[d] = history[d]
         /\ history'[r.dppId] = Append(history[r.dppId], r)
         /\ r.recordVersion = Len(history[r.dppId]) + 1
<1>1. r.dppId \in Dpps
  BY DEF Record
<1>2. records' = Put(records, r.dppId, r) /\ history' = [history EXCEPT ![r.dppId] = Append(@, r)]
  BY DEF NextVersion, Commit
<1>3. history[r.dppId] \in Seq(Record)
  BY <1>1 DEF TypeOK
<1>4. CASE r.dppId \notin DOMAIN records /\ r.recordVersion = 1
  <2>1. history[r.dppId] = <<>>
    BY <1>1, <1>4 DEF HistoryRetained
  <2> QED
    BY <1>1, <1>2, <1>4, <2>1 DEF Put, TypeOK
<1>5. CASE r.dppId \in DOMAIN records /\ r.recordVersion = records[r.dppId].recordVersion + 1
  <2>1. history[r.dppId] # <<>> /\ records[r.dppId] = history[r.dppId][Len(history[r.dppId])]
    BY <1>1, <1>5 DEF HistoryRetained
  <2>2. Len(history[r.dppId]) \in DOMAIN history[r.dppId]
    BY <1>3, <2>1
  <2>3. records[r.dppId].recordVersion = Len(history[r.dppId])
    BY <1>1, <2>1, <2>2 DEF HistoryRetained
  <2> QED
    BY <1>1, <1>2, <1>5, <2>3 DEF Put, TypeOK
<1> QED
  BY <1>4, <1>5 DEF NextVersion

LEMMA HistoryStep ==
  ASSUME PatchesKeepDppId, TypeOK, HistoryRetained, [Next]_vars
  PROVE  HistoryRetained'
<1>1. CASE UNCHANGED <<records, history, outbox>>
  BY <1>1 DEF HistoryRetained
<1>2. ASSUME NEW r \in Record, NextVersion(r)
      PROVE  HistoryRetained'
  <2> SUFFICES ASSUME NEW d \in Dpps
               PROVE  /\ \A v \in DOMAIN history'[d] : history'[d][v].recordVersion = v
                      /\ d \in DOMAIN records' <=> history'[d] # <<>>
                      /\ d \in DOMAIN records' => records'[d] = history'[d][Len(history'[d])]
    BY DEF HistoryRetained
  <2>1. history[d] \in Seq(Record)
    BY DEF TypeOK
  <2>2. CASE d # r.dppId
    <3>1. history'[d] = history[d]
      BY <1>2, <2>2, NextVersionWrites
    <3>2. d \in DOMAIN records' <=> d \in DOMAIN records
      <4>1. DOMAIN records' = DOMAIN records \cup {r.dppId}
        BY <1>2, NextVersionWrites
      <4> QED
        BY <2>2, <4>1
    <3>3. d \in DOMAIN records => records'[d] = records[d]
      BY <1>2, <2>2, NextVersionWrites
    <3> QED
      BY <3>1, <3>2, <3>3 DEF HistoryRetained
  <2>3. CASE d = r.dppId
    <3>1. history'[d] = Append(history[d], r) /\ r.recordVersion = Len(history[d]) + 1
      BY <1>2, <2>3, NextVersionWrites
    <3>2. records'[d] = r /\ d \in DOMAIN records'
      BY <1>2, <2>3, NextVersionWrites
    <3>3. Len(history'[d]) = Len(history[d]) + 1 /\ history'[d][Len(history[d]) + 1] = r
      BY <2>1, <3>1
    <3>4. \A v \in DOMAIN history'[d] : v \in DOMAIN history[d] \/ v = Len(history[d]) + 1
      BY <2>1, <3>1
    <3>5. \A v \in DOMAIN history[d] : history'[d][v] = history[d][v]
      BY <2>1, <3>1
    <3> QED
      BY <2>1, <3>1, <3>2, <3>3, <3>4, <3>5 DEF HistoryRetained
  <2> QED
    BY <2>2, <2>3
<1> QED
  BY <1>1, <1>2, StepIsNextVersion DEF vars

(* Every accepted write retains the prior version and numbers the new one  *)
(* next, for every mixture of creations, patches, appends, commissionings  *)
(* and failed commissionings, as long as no patch changes dppId.           *)
THEOREM HistoryIsRetained == PatchesKeepDppId => (Spec => []HistoryRetained)
<1> SUFFICES ASSUME PatchesKeepDppId
             PROVE  Spec => []HistoryRetained
  OBVIOUS
<1>1. Init => HistoryRetained
  BY DEF Init, HistoryRetained
<1>2. TypeOK /\ HistoryRetained /\ [Next]_vars => HistoryRetained'
  BY HistoryStep
<1> QED
  BY <1>1, <1>2, TypeCorrect, PTL DEF Spec

-----------------------------------------------------------------------------
(* Carrier bindings. *)

(* At most one binding of a list is commissioned. *)
OneOpen(carriers) ==
  \A i, j \in DOMAIN carriers : IsCommissioned(carriers[i]) /\ IsCommissioned(carriers[j]) => i = j

LEMMA ReboundOneOpen ==
  ASSUME NEW r \in Record, NEW e \in Epcs
  PROVE  OneOpen(Rebound(r, e).carriers)
<1> DEFINE closed == Close(r.carriers)
           b == [encodedIdentifier |-> e, bindingStatus |-> "commissioned"]
<1>1. closed \in Seq(Binding) /\ \A i \in 1..Len(closed) : ~IsCommissioned(closed[i])
  BY CloseTyped DEF Record
<1>2. Rebound(r, e).carriers = Append(closed, b)
  BY ReboundKeeps
<1> HIDE DEF closed, b
<1>3. DOMAIN Append(closed, b) = 1..(Len(closed) + 1)
  BY <1>1
<1>4. \A i \in 1..Len(closed) : Append(closed, b)[i] = closed[i]
  BY <1>1
<1>5. \A i \in DOMAIN Append(closed, b) :
        IsCommissioned(Append(closed, b)[i]) => i = Len(closed) + 1
  BY <1>1, <1>3, <1>4
<1> QED
  BY <1>2, <1>5 DEF OneOpen

(* The record a commit writes has one open binding if the others have. *)
LEMMA CommitOneOpen ==
  ASSUME OneCommissioned, NEW r, Commit(r), OneOpen(r.carriers)
  PROVE  OneCommissioned'
<1>1. \A d \in DOMAIN records' : records'[d] = r \/ (d \in DOMAIN records /\ records'[d] = records[d])
  BY DEF Commit, Put
<1>2. \A d \in DOMAIN records : OneOpen(records[d].carriers)
  BY DEF OneCommissioned, OneOpen
<1>3. \A d \in DOMAIN records' : OneOpen(records'[d].carriers)
  BY <1>1, <1>2
<1> QED
  BY <1>3 DEF OneCommissioned, OneOpen

LEMMA OneCommissionedStep ==
  ASSUME CarriersOnlyCommissioned, TypeOK, OneCommissioned, [Next]_vars
  PROVE  OneCommissioned'
<1>0. \A d \in DOMAIN records : OneOpen(records[d].carriers)
  BY DEF OneCommissioned, OneOpen
<1>1. ASSUME NEW p \in Payloads, Create(p)
      PROVE  OneCommissioned'
  <2> DEFINE r == [p EXCEPT !.recordVersion = 1]
  <2>1. r.carriers = <<>>
    BY PayloadAssumption, CreatedKeeps DEF CarriersOnlyCommissioned
  <2>2. Commit(r)
    BY <1>1 DEF Create
  <2> HIDE DEF r
  <2>3. OneOpen(r.carriers)
    BY <2>1 DEF OneOpen
  <2> QED
    BY <2>2, <2>3, CommitOneOpen
<1>2. ASSUME NEW d \in Dpps, NEW p \in Patches, Patch(d, p)
      PROVE  OneCommissioned'
  <2> DEFINE r == Merge(records[d], p)
  <2>1. "carriers" \notin DOMAIN p
    BY <1>2 DEF Patch, CarriersOnlyCommissioned
  <2>2. r.carriers = records[d].carriers
    BY <2>1 DEF Merge, Overlay
  <2>3. Commit(r) /\ d \in DOMAIN records
    BY <1>2 DEF Patch
  <2> HIDE DEF r
  <2> QED
    BY <1>0, <2>2, <2>3, CommitOneOpen
<1>3. ASSUME NEW d \in Dpps, NEW c \in Collections, NEW e \in Entry, AppendEntry(d, c, e)
      PROVE  OneCommissioned'
  <2> DEFINE r == Appended(records[d], c, e)
  <2>1. Commit(r) /\ d \in DOMAIN records
    BY <1>3 DEF AppendEntry
  <2>2. r.carriers = records[d].carriers
    BY <2>1, AppendedKeeps DEF TypeOK
  <2> HIDE DEF r
  <2> QED
    BY <1>0, <2>1, <2>2, CommitOneOpen
<1>4. ASSUME NEW d \in Dpps, NEW c \in CarrierRequests, CommissionCarrier(d, c)
      PROVE  OneCommissioned'
  <2> DEFINE r == Rebound(records[d], c.encodedIdentifier)
  <2>1. Commit(r) /\ d \in DOMAIN records
    BY <1>4 DEF CommissionCarrier
  <2>2. OneOpen(r.carriers)
    BY <2>1, RequestAssumption, ReboundOneOpen DEF TypeOK
  <2> HIDE DEF r
  <2> QED
    BY <2>1, <2>2, CommitOneOpen
<1>5. ASSUME NEW d \in Dpps, NEW c \in CarrierRequests, CommissionFails(d, c)
      PROVE  OneCommissioned'
  BY <1>5 DEF CommissionFails, OneCommissioned
<1>6. CASE UNCHANGED vars
  BY <1>6 DEF vars, OneCommissioned
<1> QED
  BY <1>1, <1>2, <1>3, <1>4, <1>5, <1>6 DEF Next

(* A passport never shows two commissioned bindings, also after failed     *)
(* commissionings, provided that bindings enter and leave the carriers     *)
(* member through commission_carrier alone.                                *)
THEOREM AtMostOneCommissioned == CarriersOnlyCommissioned => (Spec => []OneCommissioned)
<1> SUFFICES ASSUME CarriersOnlyCommissioned
             PROVE  Spec => []OneCommissioned
  OBVIOUS
<1>1. Init => OneCommissioned
  BY DEF Init, OneCommissioned
<1>2. TypeOK /\ OneCommissioned /\ [Next]_vars => OneCommissioned'
  BY OneCommissionedStep
<1> QED
  BY <1>1, <1>2, TypeCorrect, PTL DEF Spec

-----------------------------------------------------------------------------
(* Identifiers are never reassigned. *)

(* Moving a passport's open bindings from the index to the retired table   *)
(* forgets nothing about who owns which identifier.                        *)
LEMMA TablesKeepOwners ==
  ASSUME NEW index, NEW retired, NEW open, NEW d, Agree(index, retired),
         \A e \in open : BoundIn(index, retired, e, d)
  PROVE  /\ Agree(Drop(index, open), PutAll(retired, open, d))
         /\ \A e, o : BoundIn(index, retired, e, o) =>
                      BoundIn(Drop(index, open), PutAll(retired, open, d), e, o)
<1>1. \A e \in open : \A o : BoundIn(index, retired, e, o) => o = d
  BY DEF BoundIn, Agree
<1>2. Agree(Drop(index, open), PutAll(retired, open, d))
  BY DEF Agree, Drop, PutAll
<1>3. ASSUME NEW e, NEW o, BoundIn(index, retired, e, o)
      PROVE  BoundIn(Drop(index, open), PutAll(retired, open, d), e, o)
  <2>1. CASE e \in open
    BY <1>1, <1>3, <2>1 DEF BoundIn, PutAll
  <2>2. CASE e \notin open
    BY <1>3, <2>2 DEF BoundIn, Drop, PutAll
  <2> QED
    BY <2>1, <2>2
<1> QED
  BY <1>2, <1>3

(* Entering identifier e for passport d is harmless when neither table     *)
(* gives e to another passport.                                            *)
LEMMA IndexKeepsOwners ==
  ASSUME NEW index, NEW retired, NEW e, NEW d, Agree(index, retired),
         \A o : BoundIn(index, retired, e, o) => o = d
  PROVE  /\ Agree(Put(index, e, d), retired)
         /\ BoundIn(Put(index, e, d), retired, e, d)
         /\ \A x, o : BoundIn(index, retired, x, o) => BoundIn(Put(index, e, d), retired, x, o)
  BY DEF Agree, BoundIn, Put

(* The bindings of a current record are those of its last version. *)
LEMMA CurrentIsOwned ==
  ASSUME TypeOK, HistoryRetained, OwnershipRecorded, NEW d \in DOMAIN records
  PROVE  \A e \in EverBoundIn(records[d]) : BoundIn(carrierIndex, retiredCarriers, e, d)
<1>1. d \in Dpps /\ history[d] \in Seq(Record) /\ history[d] # <<>>
  BY DEF TypeOK, HistoryRetained
<1>2. records[d] = history[d][Len(history[d])] /\ Len(history[d]) \in DOMAIN history[d]
  BY <1>1 DEF HistoryRetained
<1> QED
  BY <1>1, <1>2 DEF OwnershipRecorded

(* A commit keeps ownership recorded if the tables forget no owner and     *)
(* know those of the record it writes.                                     *)
LEMMA CommitKeepsOwnership ==
  ASSUME TypeOK, OwnershipRecorded, NEW r \in Record, Commit(r),
         Agree(carrierIndex', retiredCarriers'),
         \A e, o : BoundIn(carrierIndex, retiredCarriers, e, o) =>
                   BoundIn(carrierIndex', retiredCarriers', e, o),
         \A e \in EverBoundIn(r) : BoundIn(carrierIndex', retiredCarriers', e, r.dppId)
  PROVE  OwnershipRecorded'
<1> SUFFICES ASSUME NEW d \in Dpps, NEW v \in DOMAIN history'[d], NEW e \in EverBoundIn(history'[d][v])
             PROVE  BoundIn(carrierIndex', retiredCarriers', e, d)
  BY DEF OwnershipRecorded
<1>1. history' = [history EXCEPT ![r.dppId] = Append(@, r)] /\ r.dppId \in Dpps
  BY DEF Commit, Record
<1>2. history[d] \in Seq(Record)
  BY DEF TypeOK
<1>3. CASE v \in DOMAIN history[d] /\ history'[d][v] = history[d][v]
  BY <1>3 DEF OwnershipRecorded
<1>4. CASE d = r.dppId /\ history'[d][v] = r
  BY <1>4
<1>5. CASE d # r.dppId
  <2>1. history'[d] = history[d]
    BY <1>1, <1>5 DEF TypeOK
  <2> QED
    BY <1>3, <2>1
<1>6. CASE d = r.dppId
  <2>1. history'[d] = Append(history[d], r)
    BY <1>1, <1>6 DEF TypeOK
  <2>2. v \in DOMAIN history[d] \/ v = Len(history[d]) + 1
    BY <1>2, <2>1
  <2>3. v \in DOMAIN history[d] => history'[d][v] = history[d][v]
    BY <1>2, <2>1
  <2>4. v = Len(history[d]) + 1 => history'[d][v] = r
    BY <1>2, <2>1
  <2> QED
    BY <1>3, <1>4, <1>6, <2>2, <2>3, <2>4
<1> QED
  BY <1>5, <1>6

(* A rebound record carries the identifiers it had and the new one. *)
LEMMA ReboundBindings ==
  ASSUME NEW r \in Record, NEW e \in Epcs
  PROVE  EverBoundIn(Rebound(r, e)) \subseteq EverBoundIn(r) \cup {e}
<1> DEFINE closed == Close(r.carriers)
           b == [encodedIdentifier |-> e, bindingStatus |-> "commissioned"]
<1>1. /\ closed \in Seq(Binding) /\ Len(closed) = Len(r.carriers)
      /\ \A i \in 1..Len(r.carriers) : closed[i].encodedIdentifier = r.carriers[i].encodedIdentifier
      /\ DOMAIN r.carriers = 1..Len(r.carriers) /\ Len(r.carriers) \in Nat
  BY CloseTyped DEF Record
<1>2. Rebound(r, e).carriers = Append(closed, b) /\ b.encodedIdentifier = e
  BY ReboundKeeps
<1> HIDE DEF closed, b
<1>3. \A i \in DOMAIN Append(closed, b) :
        \/ i \in DOMAIN r.carriers /\ Append(closed, b)[i] = closed[i]
        \/ Append(closed, b)[i] = b
  BY <1>1
<1> QED
  BY <1>1, <1>2, <1>3 DEF EverBoundIn, Shows

LEMMA OwnershipStep ==
  ASSUME PatchesKeepDppId, CarriersOnlyCommissioned,
         TypeOK, HistoryRetained, OwnershipRecorded, [Next]_vars
  PROVE  OwnershipRecorded'
<1>0. Agree(carrierIndex, retiredCarriers)
  BY DEF OwnershipRecorded
<1>1. ASSUME NEW p \in Payloads, Create(p)
      PROVE  OwnershipRecorded'
  <2> DEFINE r == [p EXCEPT !.recordVersion = 1]
  <2>1. r \in Record /\ r.carriers = <<>>
    BY PayloadAssumption, CreatedTyped, CreatedKeeps DEF CarriersOnlyCommissioned
  <2>2. Commit(r) /\ UNCHANGED <<carrierIndex, retiredCarriers>>
    BY <1>1 DEF Create
  <2> HIDE DEF r
  <2>3. EverBoundIn(r) = {}
    BY <2>1 DEF EverBoundIn
  <2> QED
    BY <1>0, <2>1, <2>2, <2>3, CommitKeepsOwnership
<1>2. ASSUME NEW d \in Dpps, NEW p \in Patches, Patch(d, p)
      PROVE  OwnershipRecorded'
  <2> DEFINE r == Merge(records[d], p)
  <2>1. d \in DOMAIN records /\ records[d] \in Record /\ records[d].dppId = d
    BY <1>2 DEF Patch, TypeOK
  <2>2. r \in Record
    BY <2>1, MergeTyped
  <2>3. "carriers" \notin DOMAIN p /\ "dppId" \notin DOMAIN p
    BY <1>2 DEF Patch, CarriersOnlyCommissioned, PatchesKeepDppId
  <2>4. r.carriers = records[d].carriers /\ r.dppId = d
    BY <2>1, <2>3 DEF Merge, Overlay
  <2>5. Commit(r) /\ UNCHANGED <<carrierIndex, retiredCarriers>>
    BY <1>2 DEF Patch
  <2> HIDE DEF r
  <2>6. EverBoundIn(r) = EverBoundIn(records[d])
    BY <2>4 DEF EverBoundIn
  <2>7. \A e \in EverBoundIn(r) : BoundIn(carrierIndex, retiredCarriers, e, d)
    BY <2>1, <2>6, CurrentIsOwned
  <2> QED
    BY <1>0, <2>2, <2>4, <2>5, <2>7, CommitKeepsOwnership
<1>3. ASSUME NEW d \in Dpps, NEW c \in Collections, NEW e \in Entry, AppendEntry(d, c, e)
      PROVE  OwnershipRecorded'
  <2> DEFINE r == Appended(records[d], c, e)
  <2>1. d \in DOMAIN records /\ records[d] \in Record /\ records[d].dppId = d
    BY <1>3 DEF AppendEntry, TypeOK
  <2>2. r \in Record /\ r.carriers = records[d].carriers /\ r.dppId = d
    BY <2>1, AppendedTyped, AppendedKeeps
  <2>3. Commit(r) /\ UNCHANGED <<carrierIndex, retiredCarriers>>
    BY <1>3 DEF AppendEntry
  <2> HIDE DEF r
  <2>4. EverBoundIn(r) = EverBoundIn(records[d])
    BY <2>2 DEF EverBoundIn
  <2>5. \A x \in EverBoundIn(r) : BoundIn(carrierIndex, retiredCarriers, x, d)
    BY <2>1, <2>4, CurrentIsOwned
  <2> QED
    BY <1>0, <2>2, <2>3, <2>5, CommitKeepsOwnership
<1>4. ASSUME NEW d \in Dpps, NEW c \in CarrierRequests, CommissionCarrier(d, c)
      PROVE  OwnershipRecorded'
  <2> DEFINE e == c.encodedIdentifier
             open == CommissionedIn(records[d])
             r == Rebound(records[d], e)
             index == Drop(carrierIndex, open)
  <2>1. d \in DOMAIN records /\ records[d] \in Record /\ records[d].dppId = d /\ e \in Epcs
    BY <1>4, RequestAssumption DEF CommissionCarrier, TypeOK
  <2>2. r \in Record /\ r.dppId = d /\ EverBoundIn(r) \subseteq EverBoundIn(records[d]) \cup {e}
    BY <2>1, ReboundTyped, ReboundKeeps, ReboundBindings
  <2>3. /\ Commit(r) /\ Available(d, e)
        /\ carrierIndex' = Put(index, e, d)
        /\ retiredCarriers' = PutAll(retiredCarriers, open, d)
    BY <1>4 DEF CommissionCarrier
  <2>4. \A x \in EverBoundIn(records[d]) : BoundIn(carrierIndex, retiredCarriers, x, d)
    BY <2>1, CurrentIsOwned
  <2>5. open \subseteq EverBoundIn(records[d])
    BY DEF CommissionedIn, EverBoundIn
  <2> HIDE DEF e, open, r
  <2>6. /\ Agree(index, retiredCarriers')
        /\ \A x, o : BoundIn(carrierIndex, retiredCarriers, x, o) => BoundIn(index, retiredCarriers', x, o)
    BY <1>0, <2>3, <2>4, <2>5, TablesKeepOwners
  <2>7. \A o : BoundIn(index, retiredCarriers', e, o) => o = d
    BY <2>3 DEF Available, BoundIn, Drop, PutAll
  <2> HIDE DEF index
  <2>8. /\ Agree(carrierIndex', retiredCarriers')
        /\ BoundIn(carrierIndex', retiredCarriers', e, d)
        /\ \A x, o : BoundIn(index, retiredCarriers', x, o) => BoundIn(carrierIndex', retiredCarriers', x, o)
    BY <2>3, <2>6, <2>7, IndexKeepsOwners
  <2>9. \A x \in EverBoundIn(r) : BoundIn(carrierIndex', retiredCarriers', x, d)
    BY <2>2, <2>4, <2>6, <2>8
  <2> QED
    BY <2>2, <2>3, <2>6, <2>8, <2>9, CommitKeepsOwnership
<1>5. ASSUME NEW d \in Dpps, NEW c \in CarrierRequests, CommissionFails(d, c)
      PROVE  OwnershipRecorded'
  <2> DEFINE open == CommissionedIn(records[d])
  <2>1. /\ d \in DOMAIN records
        /\ carrierIndex' = Drop(carrierIndex, open)
        /\ retiredCarriers' = PutAll(retiredCarriers, open, d)
        /\ UNCHANGED history
    BY <1>5 DEF CommissionFails
  <2>2. \A x \in open : BoundIn(carrierIndex, retiredCarriers, x, d)
    BY <2>1, CurrentIsOwned DEF CommissionedIn, EverBoundIn
  <2> HIDE DEF open
  <2>3. /\ Agree(carrierIndex', retiredCarriers')
        /\ \A x, o : BoundIn(carrierIndex, retiredCarriers, x, o) => BoundIn(carrierIndex', retiredCarriers', x, o)
    BY <1>0, <2>1, <2>2, TablesKeepOwners
  <2> QED
    BY <2>1, <2>3 DEF OwnershipRecorded
<1>6. CASE UNCHANGED vars
  BY <1>6 DEF vars, OwnershipRecorded
<1> QED
  BY <1>1, <1>2, <1>3, <1>4, <1>5, <1>6 DEF Next

(* The tables' record of ownership rules out a second owner. *)
LEMMA OwnershipExcludes ==
  ASSUME OwnershipRecorded
  PROVE  NeverReassigned
<1> SUFFICES ASSUME NEW d1 \in Dpps, NEW d2 \in Dpps,
                    NEW v \in DOMAIN history[d1], NEW w \in DOMAIN history[d2],
                    NEW e \in EverBoundIn(history[d1][v]) \cap EverBoundIn(history[d2][w])
             PROVE  d1 = d2
  BY DEF NeverReassigned
<1>1. BoundIn(carrierIndex, retiredCarriers, e, d1) /\ BoundIn(carrierIndex, retiredCarriers, e, d2)
  BY DEF OwnershipRecorded
<1> QED
  BY <1>1 DEF OwnershipRecorded, BoundIn, Agree

(* No identifier is ever bound to two passports, in any of their versions, *)
(* although a failed commissioning leaves the carrier tables ahead of the  *)
(* records: the tables may forget that a binding is in service, never whom *)
(* it belongs to.                                                          *)
THEOREM IdentifiersNeverReassigned ==
  PatchesKeepDppId /\ CarriersOnlyCommissioned => (Spec => []NeverReassigned)
<1> SUFFICES ASSUME PatchesKeepDppId, CarriersOnlyCommissioned
             PROVE  Spec => []NeverReassigned
  OBVIOUS
<1>1. Init => OwnershipRecorded
  BY DEF Init, OwnershipRecorded, Agree
<1>2. TypeOK /\ HistoryRetained /\ OwnershipRecorded /\ [Next]_vars => OwnershipRecorded'
  BY OwnershipStep
<1>3. OwnershipRecorded => NeverReassigned
  BY OwnershipExcludes
<1>4. Spec => []HistoryRetained
  BY HistoryIsRetained
<1> QED
  BY <1>1, <1>2, <1>3, <1>4, TypeCorrect, PTL DEF Spec

-----------------------------------------------------------------------------
(* Evidence. *)

(* Every outbox entry names a retained version and carries its digest.     *)
EvidenceNamesVersion ==
  \A n \in DOMAIN outbox :
    LET e == outbox[n] IN  /\ e.subjectVersion \in DOMAIN history[e.dppId]
                           /\ Digest(history[e.dppId][e.subjectVersion]) = e.digestValue

(* A commit extends one history and the outbox, and alters neither.        *)
LEMMA NextVersionExtends ==
  ASSUME TypeOK, HistoryRetained, NEW r \in Record, NextVersion(r)
  PROVE  /\ \A d \in Dpps : \A v \in DOMAIN history[d] :
              v \in DOMAIN history'[d] /\ history'[d][v] = history[d][v]
         /\ r.recordVersion \in DOMAIN history'[r.dppId]
         /\ history'[r.dppId][r.recordVersion] = r
         /\ \A d \in Dpps : \A v \in DOMAIN history'[d] :
              \/ v \in DOMAIN history[d]
              \/ d = r.dppId /\ v = r.recordVersion /\ v \notin DOMAIN history[d]
         /\ DOMAIN outbox' = DOMAIN outbox \cup {Len(outbox) + 1}
         /\ Len(outbox) + 1 \notin DOMAIN outbox
         /\ \A n \in DOMAIN outbox : outbox'[n] = outbox[n]
         /\ outbox'[Len(outbox) + 1] = [dppId |-> r.dppId, subjectVersion |-> r.recordVersion,
                                        digestValue |-> Digest(r)]
<1>1. /\ r.dppId \in Dpps /\ r.recordVersion = Len(history[r.dppId]) + 1
      /\ history'[r.dppId] = Append(history[r.dppId], r)
      /\ \A d \in Dpps : d # r.dppId => history'[d] = history[d]
  BY NextVersionWrites
<1>2. \A d \in Dpps : history[d] \in Seq(Record)
  BY DEF TypeOK
<1> DEFINE h == history[r.dppId]
<1>3. h \in Seq(Record)
  BY <1>1, <1>2
<1>4. /\ DOMAIN Append(h, r) = DOMAIN h \cup {Len(h) + 1} /\ Len(h) + 1 \notin DOMAIN h
      /\ \A v \in DOMAIN h : Append(h, r)[v] = h[v]
      /\ Append(h, r)[Len(h) + 1] = r
  BY <1>3
<1> HIDE DEF h
<1>5. /\ \A d \in Dpps : \A v \in DOMAIN history[d] :
           v \in DOMAIN history'[d] /\ history'[d][v] = history[d][v]
      /\ r.recordVersion \in DOMAIN history'[r.dppId]
      /\ history'[r.dppId][r.recordVersion] = r
      /\ \A d \in Dpps : \A v \in DOMAIN history'[d] :
           \/ v \in DOMAIN history[d]
           \/ d = r.dppId /\ v = r.recordVersion /\ v \notin DOMAIN history[d]
  BY <1>1, <1>4 DEF h
<1> DEFINE x == [dppId |-> r.dppId, subjectVersion |-> r.recordVersion, digestValue |-> Digest(r)]
<1>6. outbox \in Seq(OutboxEntry) /\ outbox' = Append(outbox, x)
  BY DEF TypeOK, OutboxEntry, NextVersion, Commit
<1> HIDE DEF x
<1>7. /\ DOMAIN outbox' = DOMAIN outbox \cup {Len(outbox) + 1} /\ Len(outbox) + 1 \notin DOMAIN outbox
      /\ \A n \in DOMAIN outbox : outbox'[n] = outbox[n]
      /\ outbox'[Len(outbox) + 1] = x
  BY <1>6
<1> QED
  BY <1>5, <1>7 DEF x

LEMMA OutboxNamesPassports == ASSUME TypeOK, NEW n \in DOMAIN outbox PROVE outbox[n].dppId \in Dpps
<1>1. outbox \in Seq(OutboxEntry)
  BY DEF TypeOK, OutboxEntry
<1>2. outbox[n] \in OutboxEntry
  BY <1>1
<1> QED
  BY <1>2 DEF OutboxEntry

(* What EvidenceNamesVersion says of one entry. *)
Names(h, e) == e.subjectVersion \in DOMAIN h[e.dppId] /\ Digest(h[e.dppId][e.subjectVersion]) = e.digestValue

LEMMA EvidenceStep ==
  ASSUME PatchesKeepDppId, TypeOK, HistoryRetained, EvidenceNamesVersion, [Next]_vars
  PROVE  EvidenceNamesVersion'
<1>1. CASE UNCHANGED <<records, history, outbox>>
  BY <1>1 DEF EvidenceNamesVersion
<1>2. ASSUME NEW r \in Record, NextVersion(r)
      PROVE  EvidenceNamesVersion'
  <2> SUFFICES ASSUME NEW n \in DOMAIN outbox' PROVE Names(history', outbox'[n])
    BY DEF EvidenceNamesVersion, Digest, Names
  <2>0. \A d \in Dpps : \A v \in DOMAIN history[d] :
          v \in DOMAIN history'[d] /\ history'[d][v] = history[d][v]
    BY <1>2, NextVersionExtends
  <2>1. CASE n \in DOMAIN outbox
    <3>1. outbox'[n] = outbox[n]
      BY <1>2, <2>1, NextVersionExtends
    <3>2. Names(history, outbox[n])
      BY <2>1 DEF EvidenceNamesVersion, Names
    <3> DEFINE d == outbox[n].dppId
               v == outbox[n].subjectVersion
    <3>3. d \in Dpps /\ v \in DOMAIN history[d]
      BY <2>1, <3>2, OutboxNamesPassports DEF Names
    <3> HIDE DEF d, v
    <3>4. v \in DOMAIN history'[d] /\ history'[d][v] = history[d][v]
      BY <2>0, <3>3
    <3> QED
      BY <3>1, <3>2, <3>4 DEF Names, d, v
  <2>2. CASE n = Len(outbox) + 1
    <3> DEFINE x == [dppId |-> r.dppId, subjectVersion |-> r.recordVersion, digestValue |-> Digest(r)]
    <3>1. outbox'[n] = x
      BY <1>2, <2>2, NextVersionExtends
    <3>2. r.recordVersion \in DOMAIN history'[r.dppId] /\ history'[r.dppId][r.recordVersion] = r
      BY <1>2, NextVersionExtends
    <3>3. x.dppId = r.dppId /\ x.subjectVersion = r.recordVersion /\ x.digestValue = Digest(r)
      OBVIOUS
    <3> HIDE DEF x
    <3> QED
      BY <3>1, <3>2, <3>3 DEF Names
  <2>3. DOMAIN outbox' = DOMAIN outbox \cup {Len(outbox) + 1}
    BY <1>2, NextVersionExtends
  <2> QED
    BY <2>1, <2>2, <2>3
<1> QED
  BY <1>1, <1>2, StepIsNextVersion DEF vars

(* get_version returns the version with the number asked for. *)
LEMMA GetVersionFinds ==
  ASSUME HistoryRetained, TypeOK, NEW d \in Dpps, NEW v \in DOMAIN history[d]
  PROVE  GetVersion(d, v) = {history[d][v]}
<1> DEFINE matching == {i \in DOMAIN history[d] : history[d][i].recordVersion = v}
<1>1. matching = {v}
  BY DEF HistoryRetained
<1>2. v \in Nat
  BY DEF TypeOK
<1>3. Min({v}) = v
  BY <1>2 DEF Min
<1> HIDE DEF matching
<1>4. GetVersion(d, v) = IF matching = {} THEN {} ELSE {history[d][Min(matching)]}
  BY DEF GetVersion, matching
<1> QED
  BY <1>1, <1>3, <1>4

(* Whatever is written after it, what integrity verification recomputes    *)
(* for an evidence entry is the digest queued with it.                     *)
THEOREM EvidenceKeepsVerifying == PatchesKeepDppId => (Spec => []EvidenceVerifies)
<1> SUFFICES ASSUME PatchesKeepDppId
             PROVE  Spec => []EvidenceVerifies
  OBVIOUS
<1>1. Init => EvidenceNamesVersion
  BY DEF Init, EvidenceNamesVersion
<1>2. TypeOK /\ HistoryRetained /\ EvidenceNamesVersion /\ [Next]_vars => EvidenceNamesVersion'
  BY EvidenceStep
<1>3. TypeOK /\ HistoryRetained /\ EvidenceNamesVersion => EvidenceVerifies
  <2> SUFFICES ASSUME TypeOK, HistoryRetained, EvidenceNamesVersion, NEW n \in DOMAIN outbox
               PROVE  \E r \in GetVersion(outbox[n].dppId, outbox[n].subjectVersion) :
                        Digest(r) = outbox[n].digestValue
    BY DEF EvidenceVerifies
  <2>1. outbox[n].dppId \in Dpps
    BY OutboxNamesPassports
  <2>2. /\ outbox[n].subjectVersion \in DOMAIN history[outbox[n].dppId]
        /\ Digest(history[outbox[n].dppId][outbox[n].subjectVersion]) = outbox[n].digestValue
    BY DEF EvidenceNamesVersion
  <2> QED
    BY <2>1, <2>2, GetVersionFinds
<1>4. Spec => []HistoryRetained
  BY HistoryIsRetained
<1> QED
  BY <1>1, <1>2, <1>3, <1>4, TypeCorrect, PTL DEF Spec

-----------------------------------------------------------------------------
(* Records, versions and the outbox commit together. *)

(* Exactly one entry of the outbox names version v of passport d. *)
QueuedOnce(box, d, v) ==
  \E n \in DOMAIN box : \A m \in DOMAIN box : (box[m].dppId = d /\ box[m].subjectVersion = v) <=> m = n

LEMMA QueueStep ==
  ASSUME PatchesKeepDppId, TypeOK, HistoryRetained, CommittedTogether, [Next]_vars
  PROVE  CommittedTogether'
<1>1. CASE UNCHANGED <<records, history, outbox>>
  BY <1>1 DEF CommittedTogether
<1>2. ASSUME NEW r \in Record, NextVersion(r)
      PROVE  CommittedTogether'
  <2> DEFINE last == Len(outbox) + 1
             x == [dppId |-> r.dppId, subjectVersion |-> r.recordVersion, digestValue |-> Digest(r)]
  <2>1. /\ \A d \in Dpps : \A v \in DOMAIN history[d] : v \in DOMAIN history'[d]
        /\ r.recordVersion \in DOMAIN history'[r.dppId]
        /\ \A d \in Dpps : \A v \in DOMAIN history'[d] :
             \/ v \in DOMAIN history[d]
             \/ d = r.dppId /\ v = r.recordVersion /\ v \notin DOMAIN history[d]
    BY <1>2, NextVersionExtends
  <2>2. /\ DOMAIN outbox' = DOMAIN outbox \cup {last} /\ last \notin DOMAIN outbox
        /\ \A n \in DOMAIN outbox : outbox'[n] = outbox[n]
        /\ outbox'[last] = x
    BY <1>2, NextVersionExtends
  <2>3. x.dppId = r.dppId /\ x.subjectVersion = r.recordVersion
    OBVIOUS
  <2>4. \A n \in DOMAIN outbox : /\ outbox[n].dppId \in Dpps
                                 /\ outbox[n].subjectVersion \in DOMAIN history[outbox[n].dppId]
    BY OutboxNamesPassports DEF CommittedTogether
  <2>5. r.dppId \in Dpps /\ r.recordVersion \notin DOMAIN history[r.dppId]
    <3>1. r.dppId \in Dpps /\ r.recordVersion = Len(history[r.dppId]) + 1
      BY <1>2, NextVersionWrites
    <3>2. history[r.dppId] \in Seq(Record)
      BY <3>1 DEF TypeOK
    <3> QED
      BY <3>1, <3>2
  <2> HIDE DEF last, x
  <2>6. \A n \in DOMAIN outbox' : outbox'[n].subjectVersion \in DOMAIN history'[outbox'[n].dppId]
    BY <2>1, <2>2, <2>3, <2>4
  <2>7. ASSUME NEW d \in Dpps, NEW v \in DOMAIN history'[d]
        PROVE  QueuedOnce(outbox', d, v)
    <3>1. CASE v \in DOMAIN history[d]
      <4>1. QueuedOnce(outbox, d, v)
        BY <3>1 DEF CommittedTogether, QueuedOnce
      <4>2. ~(x.dppId = d /\ x.subjectVersion = v)
        BY <2>3, <2>5, <3>1
      <4> QED
        BY <2>2, <4>1, <4>2 DEF QueuedOnce
    <3>2. CASE d = r.dppId /\ v = r.recordVersion /\ v \notin DOMAIN history[d]
      <4>1. \A m \in DOMAIN outbox : ~(outbox[m].dppId = d /\ outbox[m].subjectVersion = v)
        BY <2>4, <3>2
      <4> QED
        BY <2>2, <2>3, <3>2, <4>1 DEF QueuedOnce
    <3> QED
      BY <2>1, <3>1, <3>2
  <2> QED
    BY <2>6, <2>7 DEF CommittedTogether, QueuedOnce
<1> QED
  BY <1>1, <1>2, StepIsNextVersion DEF vars

(* A version is retained if and only if evidence of it is queued, and it   *)
(* is queued once, whatever requests were refused in between.              *)
THEOREM VersionsAreQueuedOnce == PatchesKeepDppId => (Spec => []CommittedTogether)
<1> SUFFICES ASSUME PatchesKeepDppId
             PROVE  Spec => []CommittedTogether
  OBVIOUS
<1>1. Init => CommittedTogether
  BY DEF Init, CommittedTogether
<1>2. TypeOK /\ HistoryRetained /\ CommittedTogether /\ [Next]_vars => CommittedTogether'
  BY QueueStep
<1>3. Spec => []HistoryRetained
  BY HistoryIsRetained
<1> QED
  BY <1>1, <1>2, <1>3, TypeCorrect, PTL DEF Spec

-----------------------------------------------------------------------------
(* The logs. *)

LEMMA LogStep ==
  ASSUME PatchesKeepDppId, TypeOK, HistoryRetained, LogOnlyGrows, [Next]_vars
  PROVE  LogOnlyGrows'
<1>1. CASE UNCHANGED <<records, history, outbox>>
  BY <1>1 DEF LogOnlyGrows
<1>2. ASSUME NEW r \in Record, NextVersion(r)
      PROVE  LogOnlyGrows'
  <2> SUFFICES ASSUME NEW d \in Dpps, NEW v \in DOMAIN history'[d], NEW w \in DOMAIN history'[d], v <= w,
                      NEW c \in Collections
               PROVE  IsPrefix(history'[d][v].log[c], history'[d][w].log[c])
    BY DEF LogOnlyGrows
  <2> DEFINE h == history[d]
  <2>1. h \in Seq(Record) /\ Len(h) \in Nat
    BY DEF TypeOK
  <2>2. CASE d # r.dppId
    <3>1. history'[d] = h
      BY <1>2, <2>2, NextVersionWrites
    <3> QED
      BY <3>1 DEF LogOnlyGrows
  <2>3. CASE d = r.dppId
    <3>1. history'[d] = Append(h, r)
      BY <1>2, <2>3, NextVersionWrites
    <3>2. \A i \in DOMAIN h : h[i].log[c] \in Seq(Entry)
      <4>1. \A q \in Record : q.log[c] \in Seq(Entry)
        BY DEF Record
      <4>2. \A i \in DOMAIN h : h[i] \in Record
        BY <2>1
      <4> HIDE DEF h
      <4> QED
        BY <4>1, <4>2
    <3>3. r.log[c] \in Seq(Entry)
      BY DEF Record
    <3>4. \A i, j \in DOMAIN h : i <= j => IsPrefix(h[i].log[c], h[j].log[c])
      BY DEF LogOnlyGrows
    <3>5. ASSUME h # <<>> PROVE Len(h) \in DOMAIN h /\ IsPrefix(h[Len(h)].log[c], r.log[c])
      <4>1. d \in DOMAIN records /\ records[d] = h[Len(h)]
        BY <3>5 DEF HistoryRetained
      <4> QED
        BY <1>2, <2>1, <2>3, <3>5, <4>1 DEF NextVersion, GuardAppendOnly
    <3> HIDE DEF h
    <3>6. /\ DOMAIN Append(h, r) = 1..(Len(h) + 1) /\ DOMAIN h = 1..Len(h)
          /\ \A i \in 1..Len(h) : Append(h, r)[i] = h[i]
          /\ Append(h, r)[Len(h) + 1] = r
      BY <2>1
    <3>7. CASE w \in 1..Len(h)
      <4>1. v \in 1..Len(h)
        BY <2>1, <3>1, <3>6, <3>7
      <4> QED
        BY <3>1, <3>4, <3>6, <3>7, <4>1
    <3>8. CASE w = Len(h) + 1 /\ v \in 1..Len(h)
      <4>1. h # <<>>
        BY <2>1, <3>8
      <4>2. IsPrefix(h[v].log[c], h[Len(h)].log[c])
        BY <2>1, <3>4, <3>5, <3>6, <3>8, <4>1
      <4>3. IsPrefix(h[v].log[c], r.log[c])
        BY <3>2, <3>3, <3>5, <3>6, <3>8, <4>1, <4>2, PrefixIsTransitive
      <4> QED
        BY <3>1, <3>6, <3>8, <4>3
    <3>9. CASE w = Len(h) + 1 /\ v = Len(h) + 1
      BY <3>1, <3>3, <3>6, <3>9, PrefixOfItself
    <3> QED
      BY <2>1, <3>1, <3>6, <3>7, <3>8, <3>9
  <2> QED
    BY <2>2, <2>3
<1> QED
  BY <1>1, <1>2, StepIsNextVersion DEF vars

(* No version of a passport lacks, reorders or alters an observation or an *)
(* event that an earlier version holds, whether patches, appended entries  *)
(* or commissionings lie between them.                                     *)
THEOREM LogsOnlyGrow == PatchesKeepDppId => (Spec => []LogOnlyGrows)
<1> SUFFICES ASSUME PatchesKeepDppId
             PROVE  Spec => []LogOnlyGrows
  OBVIOUS
<1>1. Init => LogOnlyGrows
  BY DEF Init, LogOnlyGrows
<1>2. TypeOK /\ HistoryRetained /\ LogOnlyGrows /\ [Next]_vars => LogOnlyGrows'
  BY LogStep
<1>3. Spec => []HistoryRetained
  BY HistoryIsRetained
<1> QED
  BY <1>1, <1>2, <1>3, TypeCorrect, PTL DEF Spec

-----------------------------------------------------------------------------
(* Bindings. *)

(* The list after continues the list before, closing bindings at most.    *)
Continues(before, after) ==
  \A k \in DOMAIN before :
    /\ k \in DOMAIN after
    /\ after[k].encodedIdentifier = before[k].encodedIdentifier
    /\ after[k].bindingStatus # before[k].bindingStatus => IsCommissioned(before[k]) /\ ~IsCommissioned(after[k])

LEMMA ReboundContinues ==
  ASSUME NEW r \in Record, NEW e \in Epcs
  PROVE  Continues(r.carriers, Rebound(r, e).carriers)
<1> DEFINE closed == Close(r.carriers)
           b == [encodedIdentifier |-> e, bindingStatus |-> "commissioned"]
<1>1. r.carriers \in Seq(Binding)
  BY DEF Record
<1>2. /\ closed \in Seq(Binding) /\ Len(closed) = Len(r.carriers)
      /\ \A i \in 1..Len(r.carriers) : /\ closed[i].encodedIdentifier = r.carriers[i].encodedIdentifier
                                       /\ ~IsCommissioned(closed[i])
  BY <1>1, CloseTyped
<1>3. \A i \in 1..Len(r.carriers) : ~IsCommissioned(r.carriers[i]) => closed[i] = r.carriers[i]
  BY <1>1 DEF Close
<1>4. Rebound(r, e).carriers = Append(closed, b)
  BY ReboundKeeps
<1> HIDE DEF closed, b
<1>5. /\ DOMAIN r.carriers = 1..Len(r.carriers)
      /\ \A i \in 1..Len(r.carriers) : i \in DOMAIN Append(closed, b) /\ Append(closed, b)[i] = closed[i]
  BY <1>1, <1>2
<1> QED
  BY <1>2, <1>3, <1>4, <1>5 DEF Continues

(* Bindings stay when a commit continues the list of its passport. *)
LEMMA CommitKeepsBindings ==
  ASSUME NEW r, Commit(r), r.dppId \in DOMAIN records => Continues(records[r.dppId].carriers, r.carriers)
  PROVE  BindingsStay
<1>1. \A d \in DOMAIN records : records'[d] = IF d = r.dppId THEN r ELSE records[d]
  BY DEF Commit, Put
<1>2. \A d \in DOMAIN records : Continues(records[d].carriers, records'[d].carriers)
  BY <1>1 DEF Continues
<1> QED
  BY <1>2 DEF Continues, BindingsStay

LEMMA BindingsStep ==
  ASSUME PatchesKeepDppId, CarriersOnlyCommissioned, TypeOK, Next
  PROVE  BindingsStay
<1>1. ASSUME NEW p \in Payloads, Create(p)
      PROVE  BindingsStay
  <2> DEFINE r == [p EXCEPT !.recordVersion = 1]
  <2>1. r.dppId = p.dppId
    BY PayloadAssumption, CreatedKeeps
  <2>2. Commit(r) /\ p.dppId \notin DOMAIN records
    BY <1>1 DEF Create
  <2> HIDE DEF r
  <2> QED
    BY <2>1, <2>2, CommitKeepsBindings
<1>2. ASSUME NEW d \in Dpps, NEW p \in Patches, Patch(d, p)
      PROVE  BindingsStay
  <2> DEFINE r == Merge(records[d], p)
  <2>1. d \in DOMAIN records /\ records[d].dppId = d /\ Commit(r)
    BY <1>2 DEF Patch, TypeOK
  <2>2. "carriers" \notin DOMAIN p /\ "dppId" \notin DOMAIN p
    BY <1>2 DEF Patch, CarriersOnlyCommissioned, PatchesKeepDppId
  <2>3. r.carriers = records[d].carriers /\ r.dppId = d
    BY <2>1, <2>2 DEF Merge, Overlay
  <2> HIDE DEF r
  <2>4. Continues(records[d].carriers, r.carriers)
    BY <2>3 DEF Continues
  <2> QED
    BY <2>1, <2>3, <2>4, CommitKeepsBindings
<1>3. ASSUME NEW d \in Dpps, NEW c \in Collections, NEW e \in Entry, AppendEntry(d, c, e)
      PROVE  BindingsStay
  <2> DEFINE r == Appended(records[d], c, e)
  <2>1. d \in DOMAIN records /\ records[d] \in Record /\ records[d].dppId = d /\ Commit(r)
    BY <1>3 DEF AppendEntry, TypeOK
  <2>2. r.carriers = records[d].carriers /\ r.dppId = d
    BY <2>1, AppendedKeeps
  <2> HIDE DEF r
  <2>3. Continues(records[d].carriers, r.carriers)
    BY <2>2 DEF Continues
  <2> QED
    BY <2>1, <2>2, <2>3, CommitKeepsBindings
<1>4. ASSUME NEW d \in Dpps, NEW c \in CarrierRequests, CommissionCarrier(d, c)
      PROVE  BindingsStay
  <2> DEFINE r == Rebound(records[d], c.encodedIdentifier)
  <2>1. d \in DOMAIN records /\ records[d] \in Record /\ records[d].dppId = d /\ Commit(r)
    BY <1>4 DEF CommissionCarrier, TypeOK
  <2>2. c.encodedIdentifier \in Epcs
    BY RequestAssumption
  <2>3. r.dppId = d /\ Continues(records[d].carriers, r.carriers)
    BY <2>1, <2>2, ReboundKeeps, ReboundContinues
  <2> HIDE DEF r
  <2> QED
    BY <2>1, <2>3, CommitKeepsBindings
<1>5. ASSUME NEW d \in Dpps, NEW c \in CarrierRequests, CommissionFails(d, c)
      PROVE  BindingsStay
  BY <1>5 DEF CommissionFails, BindingsStay
<1> QED
  BY <1>1, <1>2, <1>3, <1>4, <1>5 DEF Next

(* No write drops, moves, renames or reopens a binding of any passport, as *)
(* long as bindings are written by commission_carrier alone.               *)
THEOREM BindingsAreKept == PatchesKeepDppId /\ CarriersOnlyCommissioned => (Spec => BindingsOnlyClose)
<1> SUFFICES ASSUME PatchesKeepDppId, CarriersOnlyCommissioned
             PROVE  Spec => BindingsOnlyClose
  OBVIOUS
<1>1. TypeOK /\ [Next]_vars => [BindingsStay]_vars
  BY BindingsStep
<1> QED
  BY <1>1, TypeCorrect, PTL DEF Spec, BindingsOnlyClose

-----------------------------------------------------------------------------
(* The store implements the carrier registry, for every set of passports,  *)
(* identifiers and request bodies, as long as carrier requests validate    *)
(* and bindings enter records through commission_carrier alone.            *)

(* The condition store_malformed violates.                                 *)
RequestsValidate == \A c \in CarrierRequests : c.wellFormed

(* The index is the inverse of what the records show as commissioned.      *)
IndexMirrorsRecords ==
  /\ \A e \in DOMAIN carrierIndex : carrierIndex[e] \in DOMAIN records
  /\ \A d \in DOMAIN records : \A e \in Epcs :
       e \in CommissionedIn(records[d]) <=> (e \in DOMAIN carrierIndex /\ carrierIndex[e] = d)

LEMMA ReboundCommissions ==
  ASSUME NEW r \in Record, NEW e \in Epcs
  PROVE  CommissionedIn(Rebound(r, e)) = {e}
<1> DEFINE closed == Close(r.carriers)
           b == [encodedIdentifier |-> e, bindingStatus |-> "commissioned"]
<1>1. closed \in Seq(Binding) /\ \A i \in 1..Len(closed) : ~IsCommissioned(closed[i])
  BY CloseTyped DEF Record
<1>2. Rebound(r, e).carriers = Append(closed, b)
  BY ReboundKeeps
<1>3. Shows(b, e) /\ IsCommissioned(b) /\ \A x : Shows(b, x) => x = e
  BY DEF Shows, IsCommissioned
<1> HIDE DEF closed, b
<1>4. /\ DOMAIN Append(closed, b) = 1..Len(closed) \cup {Len(closed) + 1}
      /\ \A i \in 1..Len(closed) : Append(closed, b)[i] = closed[i]
      /\ Append(closed, b)[Len(closed) + 1] = b
  BY <1>1
<1> QED
  BY <1>1, <1>2, <1>3, <1>4 DEF CommissionedIn

(* A commit that shows the bindings of its passport as before mirrors the  *)
(* same index.                                                             *)
LEMMA SameBindingsMirror ==
  ASSUME IndexMirrorsRecords, NEW r, Commit(r), UNCHANGED carrierIndex,
         IF r.dppId \in DOMAIN records THEN CommissionedIn(r) = CommissionedIn(records[r.dppId])
         ELSE CommissionedIn(r) = {}
  PROVE  IndexMirrorsRecords'
<1>1. /\ DOMAIN records' = DOMAIN records \cup {r.dppId} /\ records'[r.dppId] = r
      /\ \A d \in DOMAIN records : d # r.dppId => records'[d] = records[d]
  BY DEF Commit, Put
<1>2. \A e \in DOMAIN carrierIndex' : carrierIndex'[e] \in DOMAIN records'
  BY <1>1 DEF IndexMirrorsRecords
<1>3. ASSUME NEW d \in DOMAIN records', NEW e \in Epcs
      PROVE  e \in CommissionedIn(records'[d]) <=> (e \in DOMAIN carrierIndex /\ carrierIndex[e] = d)
  <2>1. CASE d \in DOMAIN records
    <3>1. CommissionedIn(records'[d]) = CommissionedIn(records[d])
      BY <1>1, <2>1
    <3> QED
      BY <2>1, <3>1 DEF IndexMirrorsRecords
  <2>2. CASE d \notin DOMAIN records
    <3>1. CommissionedIn(records'[d]) = {}
      BY <1>1, <2>2
    <3> QED
      BY <2>2, <3>1 DEF IndexMirrorsRecords
  <2> QED
    BY <2>1, <2>2
<1> QED
  BY <1>2, <1>3 DEF IndexMirrorsRecords, CommissionedIn

(* What commissioning does to the two tables: the passport's identifiers   *)
(* leave the index, the new one enters it.                                 *)
LEMMA CommissionedTables ==
  ASSUME TypeOK, IndexMirrorsRecords, NEW d \in Dpps, NEW c \in CarrierRequests, CommissionCarrier(d, c)
  PROVE  LET e == c.encodedIdentifier
             open == {x \in DOMAIN carrierIndex : carrierIndex[x] = d}
         IN  /\ e \in Epcs /\ d \in DOMAIN records /\ records[d].dppId = d /\ records[d] \in Record
             /\ Commit(Rebound(records[d], e))
             /\ Available(d, e)
             /\ carrierIndex' = Put(Drop(carrierIndex, open), e, d)
             /\ retiredCarriers' = PutAll(retiredCarriers, open, d)
<1>1. c.encodedIdentifier \in Epcs
  BY RequestAssumption
<1>2. d \in DOMAIN records /\ records[d].dppId = d /\ records[d] \in Record
  BY DEF CommissionCarrier, TypeOK
<1>3. CommissionedIn(records[d]) = {x \in DOMAIN carrierIndex : carrierIndex[x] = d}
  <2>1. DOMAIN carrierIndex \subseteq Epcs /\ CommissionedIn(records[d]) \subseteq Epcs
    BY DEF TypeOK, CommissionedIn
  <2> QED
    BY <1>2, <2>1 DEF IndexMirrorsRecords
<1> QED
  BY <1>1, <1>2, <1>3 DEF CommissionCarrier

LEMMA MirrorStep ==
  ASSUME PatchesKeepDppId, CarriersOnlyCommissioned, RequestsValidate,
         TypeOK, IndexMirrorsRecords, [Next]_vars
  PROVE  IndexMirrorsRecords'
<1>1. ASSUME NEW p \in Payloads, Create(p)
      PROVE  IndexMirrorsRecords'
  <2> DEFINE r == [p EXCEPT !.recordVersion = 1]
  <2>1. r.carriers = <<>> /\ r.dppId = p.dppId
    BY PayloadAssumption, CreatedKeeps DEF CarriersOnlyCommissioned
  <2>2. Commit(r) /\ UNCHANGED carrierIndex /\ p.dppId \notin DOMAIN records
    BY <1>1 DEF Create
  <2> HIDE DEF r
  <2>3. CommissionedIn(r) = {}
    BY <2>1 DEF CommissionedIn
  <2> QED
    BY <2>1, <2>2, <2>3, SameBindingsMirror
<1>2. ASSUME NEW d \in Dpps, NEW p \in Patches, Patch(d, p)
      PROVE  IndexMirrorsRecords'
  <2> DEFINE r == Merge(records[d], p)
  <2>1. d \in DOMAIN records /\ records[d].dppId = d
    BY <1>2 DEF Patch, TypeOK
  <2>2. "carriers" \notin DOMAIN p /\ "dppId" \notin DOMAIN p
    BY <1>2 DEF Patch, CarriersOnlyCommissioned, PatchesKeepDppId
  <2>3. r.carriers = records[d].carriers /\ r.dppId = d
    BY <2>1, <2>2 DEF Merge, Overlay
  <2>4. Commit(r) /\ UNCHANGED carrierIndex
    BY <1>2 DEF Patch
  <2> HIDE DEF r
  <2>5. CommissionedIn(r) = CommissionedIn(records[d])
    BY <2>3 DEF CommissionedIn
  <2> QED
    BY <2>1, <2>3, <2>4, <2>5, SameBindingsMirror
<1>3. ASSUME NEW d \in Dpps, NEW c \in Collections, NEW e \in Entry, AppendEntry(d, c, e)
      PROVE  IndexMirrorsRecords'
  <2> DEFINE r == Appended(records[d], c, e)
  <2>1. d \in DOMAIN records /\ records[d] \in Record /\ records[d].dppId = d
    BY <1>3 DEF AppendEntry, TypeOK
  <2>2. r.carriers = records[d].carriers /\ r.dppId = d
    BY <2>1, AppendedKeeps
  <2>3. Commit(r) /\ UNCHANGED carrierIndex
    BY <1>3 DEF AppendEntry
  <2> HIDE DEF r
  <2>4. CommissionedIn(r) = CommissionedIn(records[d])
    BY <2>2 DEF CommissionedIn
  <2> QED
    BY <2>1, <2>2, <2>3, <2>4, SameBindingsMirror
<1>4. ASSUME NEW d \in Dpps, NEW c \in CarrierRequests, CommissionCarrier(d, c)
      PROVE  IndexMirrorsRecords'
  <2> DEFINE e == c.encodedIdentifier
             open == {x \in DOMAIN carrierIndex : carrierIndex[x] = d}
             r == Rebound(records[d], e)
  <2>1. /\ e \in Epcs /\ d \in DOMAIN records /\ records[d].dppId = d /\ records[d] \in Record
        /\ Commit(r) /\ Available(d, e)
        /\ carrierIndex' = Put(Drop(carrierIndex, open), e, d)
    BY <1>4, CommissionedTables
  <2>2. r.dppId = d /\ CommissionedIn(r) = {e}
    BY <2>1, ReboundKeeps, ReboundCommissions
  <2> HIDE DEF r, e
  <2>3. /\ DOMAIN records' = DOMAIN records /\ records'[d] = r
        /\ \A x \in DOMAIN records : x # d => records'[x] = records[x]
    BY <2>1, <2>2 DEF Commit, Put
  <2>4. \A x : (x \in DOMAIN carrierIndex' /\ carrierIndex'[x] = d) <=> x = e
    BY <2>1 DEF Put, Drop
  <2>5. \A x, o : o # d => ((x \in DOMAIN carrierIndex' /\ carrierIndex'[x] = o)
                              <=> (x \in DOMAIN carrierIndex /\ carrierIndex[x] = o))
    BY <2>1 DEF Put, Drop, Available
  <2>6. \A x \in DOMAIN carrierIndex' : carrierIndex'[x] \in DOMAIN records'
    BY <2>1, <2>3, <2>5 DEF IndexMirrorsRecords
  <2>7. ASSUME NEW o \in DOMAIN records', NEW x \in Epcs
        PROVE  x \in CommissionedIn(records'[o]) <=> (x \in DOMAIN carrierIndex' /\ carrierIndex'[x] = o)
    <3>1. CASE o = d
      BY <2>2, <2>3, <2>4, <3>1
    <3>2. CASE o # d
      <4>1. records'[o] = records[o] /\ o \in DOMAIN records
        BY <2>3, <3>2
      <4> QED
        BY <2>5, <3>2, <4>1 DEF IndexMirrorsRecords
    <3> QED
      BY <3>1, <3>2
  <2> QED
    BY <2>6, <2>7 DEF IndexMirrorsRecords, CommissionedIn
<1>5. ASSUME NEW d \in Dpps, NEW c \in CarrierRequests, CommissionFails(d, c)
      PROVE  FALSE
  BY <1>5 DEF CommissionFails, RequestsValidate
<1>6. CASE UNCHANGED vars
  BY <1>6 DEF vars, IndexMirrorsRecords, CommissionedIn
<1> QED
  BY <1>1, <1>2, <1>3, <1>4, <1>5, <1>6 DEF Next

-----------------------------------------------------------------------------
(* Every accepted commissioning is a binding of the registry.              *)
LEMMA CommissionBinds ==
  ASSUME TypeOK, IndexMirrorsRecords, NEW d \in Dpps, NEW c \in CarrierRequests, CommissionCarrier(d, c)
  PROVE  Registry!Bind(d, c.encodedIdentifier)
<1> DEFINE e == c.encodedIdentifier
           open == {x \in DOMAIN carrierIndex : carrierIndex[x] = d}
<1>1. /\ Available(d, e)
      /\ carrierIndex' = Put(Drop(carrierIndex, open), e, d)
      /\ retiredCarriers' = PutAll(retiredCarriers, open, d)
  BY CommissionedTables
<1> HIDE DEF e
<1>2. e \in DOMAIN OwnerOf => OwnerOf[e] = d
  BY <1>1 DEF Available, OwnerOf
<1>3. OwnerOf' = [x \in DOMAIN OwnerOf \cup {e} |-> IF x = e THEN d ELSE OwnerOf[x]]
  <2>1. /\ DOMAIN carrierIndex' = (DOMAIN carrierIndex \ open) \cup {e}
        /\ DOMAIN retiredCarriers' = DOMAIN retiredCarriers \cup open
    BY <1>1 DEF Put, Drop, PutAll
  <2>2. DOMAIN carrierIndex' \cup DOMAIN retiredCarriers' = DOMAIN OwnerOf \cup {e}
    BY <2>1 DEF OwnerOf
  <2>3. ASSUME NEW x \in DOMAIN OwnerOf \cup {e}
        PROVE  (IF x \in DOMAIN carrierIndex' THEN carrierIndex'[x] ELSE retiredCarriers'[x])
                 = IF x = e THEN d ELSE OwnerOf[x]
    BY <1>1, <2>1 DEF Put, Drop, PutAll, OwnerOf
  <2> QED
    BY <2>2, <2>3 DEF OwnerOf
<1>4. ActiveOf' = [x \in DOMAIN ActiveOf \cup {d} |-> IF x = d THEN {e} ELSE ActiveOf[x]]
  <2>1. {x \in DOMAIN carrierIndex' : carrierIndex'[x] = d} = {e}
    BY <1>1 DEF Put, Drop
  <2>2. ASSUME NEW o, o # d
        PROVE  {x \in DOMAIN carrierIndex' : carrierIndex'[x] = o}
                 = {x \in DOMAIN carrierIndex : carrierIndex[x] = o}
    BY <1>1, <2>2 DEF Put, Drop, Available
  <2>3. {carrierIndex'[x] : x \in DOMAIN carrierIndex'} = DOMAIN ActiveOf \cup {d}
    <3>1. \A o : o \in {carrierIndex'[x] : x \in DOMAIN carrierIndex'}
                   <=> {x \in DOMAIN carrierIndex' : carrierIndex'[x] = o} # {}
      OBVIOUS
    <3>2. \A o : o \in DOMAIN ActiveOf <=> {x \in DOMAIN carrierIndex : carrierIndex[x] = o} # {}
      BY DEF ActiveOf
    <3> QED
      BY <2>1, <2>2, <3>1, <3>2
  <2>4. ASSUME NEW o \in DOMAIN ActiveOf \cup {d}
        PROVE  {x \in DOMAIN carrierIndex' : carrierIndex'[x] = o} = IF o = d THEN {e} ELSE ActiveOf[o]
    BY <2>1, <2>2 DEF ActiveOf
  <2> QED
    BY <2>3, <2>4 DEF ActiveOf
<1> QED
  BY <1>2, <1>3, <1>4 DEF Registry!Bind, e

LEMMA StepIsRegistryStep ==
  ASSUME RequestsValidate, TypeOK, IndexMirrorsRecords, [Next]_vars
  PROVE  [Registry!Next]_<<OwnerOf, ActiveOf>>
<1>1. CASE UNCHANGED <<carrierIndex, retiredCarriers>>
  BY <1>1 DEF OwnerOf, ActiveOf
<1>2. ASSUME NEW d \in Dpps, NEW c \in CarrierRequests, CommissionCarrier(d, c)
      PROVE  Registry!Next
  <2>1. c.encodedIdentifier \in Epcs
    BY RequestAssumption
  <2> QED
    BY <1>2, <2>1, CommissionBinds DEF Registry!Next
<1> QED
  BY <1>1, <1>2 DEF Next, vars, Create, Patch, AppendEntry, CommissionFails, RequestsValidate

(* The store keeps what the registry promises: an identifier, once owned,  *)
(* stays with its passport, and a passport with a carrier answers to       *)
(* exactly one, through creations, patches, appends and commissionings of  *)
(* any number of passports.                                                *)
THEOREM StoreImplementsRegistry ==
  PatchesKeepDppId /\ CarriersOnlyCommissioned /\ RequestsValidate => (Spec => ImplementsRegistry)
<1> SUFFICES ASSUME PatchesKeepDppId, CarriersOnlyCommissioned, RequestsValidate
             PROVE  Spec => ImplementsRegistry
  OBVIOUS
<1>1. Init => IndexMirrorsRecords /\ Registry!Init
  BY DEF Init, IndexMirrorsRecords, Registry!Init, OwnerOf, ActiveOf
<1>2. TypeOK /\ IndexMirrorsRecords /\ [Next]_vars => IndexMirrorsRecords'
  BY MirrorStep
<1>3. TypeOK /\ IndexMirrorsRecords /\ [Next]_vars => [Registry!Next]_<<OwnerOf, ActiveOf>>
  BY StepIsRegistryStep
<1> QED
  BY <1>1, <1>2, <1>3, TypeCorrect, PTL DEF Spec, ImplementsRegistry, Registry!Spec

=============================================================================
