--------------------------- MODULE PassportStore ---------------------------
(***************************************************************************)
(* The authoritative passport store: sort4circ_dpp/store.py, with the      *)
(* PATCH path check of access.py that api.py runs in front of it.          *)
(*                                                                         *)
(* Every write takes the store's re-entrant lock for its whole body, so a  *)
(* write is one action.  A Python dict is a function whose domain is the   *)
(* set of its keys.  Timestamps, generated URNs, schema and access-policy  *)
(* versions, and the members no write inspects are left out; `product' and *)
(* the value of an entry stand for whole documents.  A request that is     *)
(* refused before it changes anything is a stuttering step and has no      *)
(* action; the one refusal that does change state (CommissionFails) has.   *)
(***************************************************************************)
EXTENDS Integers, SequencesExt

CONSTANTS
  Dpps,             \* passport identifiers (dppId)
  Epcs,             \* values encoded on carriers (encodedIdentifier)
  NoEpc,            \* identity.epc is absent
  Products,         \* contents of the product member
  EntryIds,         \* eventId / observationId values
  EntryValues,      \* the rest of an event or an observation
  Payloads,         \* bodies clients POST to /v1/dpps
  Patches,          \* bodies clients PATCH: a function from members to values
  Roles,            \* roles of the callers that PATCH
  CarrierRequests,  \* bodies clients POST to /v1/dpps/{id}/carriers
  MaxCommits        \* bound on the number of commits (the code has none)

Collections == {"materialObservations", "lifecycleEvents"}
Statuses == {"draft", "active", "superseded", "retired"}
BindingStatuses == {"commissioned", "replaced", "retired", "failed"}

Entry == [id : EntryIds, value : EntryValues]
Binding == [encodedIdentifier : Epcs, bindingStatus : BindingStatuses]
Record == [dppId : Dpps,
           recordVersion : Nat,
           status : Statuses,
           epc : Epcs \cup {NoEpc},
           product : Products,
           carriers : Seq(Binding),
           log : [Collections -> Seq(Entry)]]

Members == {"dppId", "status", "epc", "product", "carriers"} \cup Collections

(* What validate_payload lets through: a patched member has its type.  A   *)
(* null value removes a member, which the schema refuses for a required    *)
(* one and which is the empty sequence for a collection.                   *)
PatchTyped(p) ==
  /\ DOMAIN p \subseteq Members
  /\ "dppId" \in DOMAIN p => p["dppId"] \in Dpps
  /\ "status" \in DOMAIN p => p["status"] \in Statuses
  /\ "epc" \in DOMAIN p => p["epc"] \in Epcs
  /\ "product" \in DOMAIN p => p["product"] \in Products
  /\ "carriers" \in DOMAIN p => p["carriers"] \in Seq(Binding)
  /\ \A c \in Collections : c \in DOMAIN p => p[c] \in Seq(Entry)

ASSUME NoEpcAssumption == NoEpc \notin Epcs
ASSUME PayloadAssumption == \A p \in Payloads : p \in Record
ASSUME PatchAssumption == \A p \in Patches : PatchTyped(p)
ASSUME RoleAssumption == Roles \subseteq {"brand", "administrator"}
ASSUME RequestAssumption ==
  CarrierRequests \subseteq [encodedIdentifier : Epcs, wellFormed : BOOLEAN]
ASSUME BoundAssumption == MaxCommits \in Nat

VARIABLES
  records,          \* _records: dppId -> the current record
  history,          \* _history: dppId -> its versions, oldest first
  carrierIndex,     \* _carrier_index: encodedIdentifier -> dppId
  retiredCarriers,  \* _retired_carriers: encodedIdentifier -> dppId
  outbox            \* outbox: the evidence entries, in commit order

vars == <<records, history, carrierIndex, retiredCarriers, outbox>>

-----------------------------------------------------------------------------
(* Helpers over records. *)

Put(f, k, v) == [x \in DOMAIN f \cup {k} |-> IF x = k THEN v ELSE f[x]]
Drop(f, S) == [x \in DOMAIN f \ S |-> f[x]]
PutAll(f, S, v) == [x \in DOMAIN f \cup S |-> IF x \in S THEN v ELSE f[x]]

IsCommissioned(b) == b.bindingStatus = "commissioned"

(* The encoded identifiers a record shows as commissioned, and as ever bound. *)
Shows(b, e) == b.encodedIdentifier = e
CommissionedIn(r) ==
  {e \in Epcs : \E i \in DOMAIN r.carriers : Shows(r.carriers[i], e) /\ IsCommissioned(r.carriers[i])}
EverBoundIn(r) ==
  {e \in Epcs : \E i \in DOMAIN r.carriers : Shows(r.carriers[i], e)}

IdsIn(entries) == {entries[i].id : i \in DOMAIN entries}

(* canonical.integrity_projection: what the digest covers.  Carriers,      *)
(* status and lifecycle events are outside it.  SHA-256 is taken as        *)
(* collision free, so the digest is its projection.                        *)
Digest(r) == [dppId |-> r.dppId,
              recordVersion |-> r.recordVersion,
              epc |-> r.epc,
              product |-> r.product,
              materialObservations |-> r.log["materialObservations"]]
DigestType == [dppId : Dpps, recordVersion : Nat, epc : Epcs \cup {NoEpc},
               product : Products, materialObservations : Seq(Entry)]

(* Faulty variant: the outbox entry is left to a later call. *)
CommitUnqueued(r) ==
  /\ records' = Put(records, r.dppId, r)
  /\ history' = [history EXCEPT ![r.dppId] = Append(@, r)]
  /\ UNCHANGED outbox

(* PassportStore._commit: record, history and outbox entry in one step. *)
Commit(r) ==
  /\ Len(outbox) < MaxCommits
  /\ records' = Put(records, r.dppId, r)
  /\ history' = [history EXCEPT ![r.dppId] = Append(@, r)]
  /\ outbox' = Append(outbox, [dppId |-> r.dppId,
                               subjectVersion |-> r.recordVersion,
                               digestValue |-> Digest(r)])

-----------------------------------------------------------------------------
(* Operations. *)

(* POST /v1/dpps.  The version a client sends is overwritten. *)
Create(p) ==
  /\ p.dppId \notin DOMAIN records
  /\ Commit([p EXCEPT !.recordVersion = 1])
  /\ UNCHANGED <<carrierIndex, retiredCarriers>>

(* access.check_patch_paths.  The brand's path identity.sourceRecordId is  *)
(* compared by its first segment, so the whole identity, epc included, is  *)
(* writable.                                                               *)
BrandMembers == {"product", "epc"}
PatchAllowed(role, p) == role = "administrator" \/ DOMAIN p \subseteq BrandMembers

Overlay(p, m, old) == IF m \in DOMAIN p THEN p[m] ELSE old

Merge(r, p) ==
  [dppId |-> Overlay(p, "dppId", r.dppId),
   recordVersion |-> r.recordVersion + 1,
   status |-> Overlay(p, "status", r.status),
   epc |-> Overlay(p, "epc", r.epc),
   product |-> Overlay(p, "product", r.product),
   carriers |-> Overlay(p, "carriers", r.carriers),
   log |-> [c \in Collections |-> Overlay(p, c, r.log[c])]]

(* Faulty variant: only the number of entries is compared. *)
GuardLengths(before, after) ==
  \A c \in Collections : Len(before.log[c]) <= Len(after.log[c])

GuardAppendOnly(before, after) ==
  \A c \in Collections : IsPrefix(before.log[c], after.log[c])

(* PATCH /v1/dpps/{id}.  If-Match is the caller's: every version has a tag *)
(* that matches it, so the precondition excludes no patch here.  The       *)
(* merged record is committed under the dppId it then carries.             *)
Patch(d, p) ==
  /\ \E role \in Roles : PatchAllowed(role, p)
  /\ d \in DOMAIN records
  /\ GuardAppendOnly(records[d], Merge(records[d], p))
  /\ Commit(Merge(records[d], p))
  /\ UNCHANGED <<carrierIndex, retiredCarriers>>

(* Faulty variant: the version is not incremented. *)
AppendedInPlace(r, c, e) == [r EXCEPT !.log = [r.log EXCEPT ![c] = Append(r.log[c], e)]]

Appended(r, c, e) ==
  [r EXCEPT !.recordVersion = @ + 1,
            !.log = [r.log EXCEPT ![c] = Append(r.log[c], e)]]

(* POST /v1/dpps/{id}/events and /observations.  An entry whose identifier *)
(* the collection already holds returns the record unchanged.              *)
AppendEntry(d, c, e) ==
  /\ d \in DOMAIN records
  /\ e.id \notin IdsIn(records[d].log[c])
  /\ Commit(Appended(records[d], c, e))
  /\ UNCHANGED <<carrierIndex, retiredCarriers>>

(* Faulty variant: only open bindings are checked. *)
AvailableNow(d, e) == e \in DOMAIN carrierIndex => carrierIndex[e] = d

(* The two duplicate checks of commission_carrier. *)
Available(d, e) ==
  /\ e \in DOMAIN carrierIndex => carrierIndex[e] = d
  /\ e \in DOMAIN retiredCarriers => retiredCarriers[e] = d

(* Faulty variants of Close: it keeps the open binding open, gives it a    *)
(* status outside the vocabulary, or deletes it.                           *)
CloseNothing(carriers) == carriers
CloseAsSuperseded(carriers) ==
  [i \in DOMAIN carriers |->
     IF IsCommissioned(carriers[i])
     THEN [carriers[i] EXCEPT !.bindingStatus = "superseded"] ELSE carriers[i]]
CloseByRemoval(carriers) == SelectSeq(carriers, LAMBDA b : ~IsCommissioned(b))

Close(carriers) ==
  [i \in DOMAIN carriers |->
     IF IsCommissioned(carriers[i])
     THEN [carriers[i] EXCEPT !.bindingStatus = "replaced"]
     ELSE carriers[i]]

Rebound(r, e) ==
  [r EXCEPT !.recordVersion = @ + 1,
            !.epc = e,
            !.carriers = Append(Close(@), [encodedIdentifier |-> e,
                                           bindingStatus |-> "commissioned"])]

(* POST /v1/dpps/{id}/carriers, accepted. *)
CommissionCarrier(d, c) ==
  /\ d \in DOMAIN records
  /\ Available(d, c.encodedIdentifier)
  /\ c.wellFormed
  /\ Commit(Rebound(records[d], c.encodedIdentifier))
  /\ carrierIndex' = Put(Drop(carrierIndex, CommissionedIn(records[d])), c.encodedIdentifier, d)
  /\ retiredCarriers' = PutAll(retiredCarriers, CommissionedIn(records[d]), d)

(* POST /v1/dpps/{id}/carriers with a body that lacks a required member or *)
(* fails the schema or a vocabulary: the error is raised after the loop    *)
(* has moved the open bindings from the index to the retired carriers.     *)
CommissionFails(d, c) ==
  /\ d \in DOMAIN records
  /\ Available(d, c.encodedIdentifier)
  /\ ~c.wellFormed
  /\ carrierIndex' = Drop(carrierIndex, CommissionedIn(records[d]))
  /\ retiredCarriers' = PutAll(retiredCarriers, CommissionedIn(records[d]), d)
  /\ UNCHANGED <<records, history, outbox>>

Init ==
  /\ records = [d \in {} |-> d]
  /\ history = [d \in Dpps |-> <<>>]
  /\ carrierIndex = [e \in {} |-> e]
  /\ retiredCarriers = [e \in {} |-> e]
  /\ outbox = <<>>

Next ==
  \/ \E p \in Payloads : Create(p)
  \/ \E d \in Dpps, p \in Patches : Patch(d, p)
  \/ \E d \in Dpps, c \in Collections, e \in Entry : AppendEntry(d, c, e)
  \/ \E d \in Dpps, c \in CarrierRequests : CommissionCarrier(d, c)
  \/ \E d \in Dpps, c \in CarrierRequests : CommissionFails(d, c)

Spec == Init /\ [][Next]_vars

-----------------------------------------------------------------------------
(* Reads. *)

(* Faulty variant: whatever version is asked for, the current record. *)
GetCurrent(d, v) == IF history[d] = <<>> THEN {} ELSE {history[d][Len(history[d])]}

(* PassportStore.get_version: the first version with that number. *)
GetVersion(d, v) ==
  LET matching == {i \in DOMAIN history[d] : history[d][i].recordVersion = v}
  IN  IF matching = {} THEN {} ELSE {history[d][Min(matching)]}

-----------------------------------------------------------------------------
(* Conditions on the request bodies that some properties need.  The code   *)
(* enforces neither of them for every caller.                              *)

PatchesKeepDppId ==
  \A p \in Patches, role \in Roles : PatchAllowed(role, p) => "dppId" \notin DOMAIN p

CarriersOnlyCommissioned ==
  /\ \A p \in Payloads : p.carriers = <<>>
  /\ \A p \in Patches, role \in Roles : PatchAllowed(role, p) => "carriers" \notin DOMAIN p

-----------------------------------------------------------------------------
(* Properties. *)

(* Every variable stays inside its type; a record is stored under its own  *)
(* dppId.                                                                  *)
TypeOK ==
  /\ DOMAIN records \subseteq Dpps
  /\ \A d \in DOMAIN records : records[d] \in Record /\ records[d].dppId = d
  /\ history \in [Dpps -> Seq(Record)]
  /\ carrierIndex \in [DOMAIN carrierIndex -> Dpps] /\ DOMAIN carrierIndex \subseteq Epcs
  /\ retiredCarriers \in [DOMAIN retiredCarriers -> Dpps] /\ DOMAIN retiredCarriers \subseteq Epcs
  /\ outbox \in Seq([dppId : Dpps, subjectVersion : Nat,
                     digestValue : DigestType])

(* "Every accepted write increments recordVersion and retains the prior    *)
(* version" (store.py:7): a passport's history is its versions 1, 2, ...   *)
(* without a gap, and its current record is the last of them.              *)
HistoryRetained ==
  \A d \in Dpps :
    /\ \A v \in DOMAIN history[d] : history[d][v].recordVersion = v
    /\ d \in DOMAIN records <=> history[d] # <<>>
    /\ d \in DOMAIN records => records[d] = history[d][Len(history[d])]

(* "Material observations, lifecycle events ... are append only"           *)
(* (store.py:8): no later version of a passport lacks, reorders or alters  *)
(* an entry an earlier version held, whichever operation wrote it.         *)
LogOnlyGrows ==
  \A d \in Dpps : \A v, w \in DOMAIN history[d] :
    v <= w => \A c \in Collections : IsPrefix(history[d][v].log[c], history[d][w].log[c])

(* "The passport update and its evidence-queue entry commit together"      *)
(* (store.py:12): each retained version has exactly one outbox entry and   *)
(* each outbox entry names a retained version.                             *)
CommittedTogether ==
  /\ \A n \in DOMAIN outbox : outbox[n].subjectVersion \in DOMAIN history[outbox[n].dppId]
  /\ \A d \in Dpps : \A v \in DOMAIN history[d] :
       \E n \in DOMAIN outbox : \A m \in DOMAIN outbox :
         (outbox[m].dppId = d /\ outbox[m].subjectVersion = v) <=> m = n

(* What POST .../integrity/verify recomputes for an evidence entry is the  *)
(* digest taken at its commit, however far the passport has moved on: the  *)
(* verdict is never mismatch and never unverifiable for want of a version. *)
EvidenceVerifies ==
  \A n \in DOMAIN outbox :
    \E r \in GetVersion(outbox[n].dppId, outbox[n].subjectVersion) :
      Digest(r) = outbox[n].digestValue

(* "At most one carrier binding per passport is in the commissioned state" *)
(* (store.py:10).                                                          *)
OneCommissioned ==
  \A d \in DOMAIN records : \A i, j \in DOMAIN records[d].carriers :
    IsCommissioned(records[d].carriers[i]) /\ IsCommissioned(records[d].carriers[j]) => i = j

(* "An identifier is never reassigned to a different product"              *)
(* (store.py:11): no two passports hold, in any of their versions, a       *)
(* binding of the same identifier.                                         *)
NeverReassigned ==
  \A d1, d2 \in Dpps : \A v \in DOMAIN history[d1], w \in DOMAIN history[d2] :
    EverBoundIn(history[d1][v]) \cap EverBoundIn(history[d2][w]) # {} => d1 = d2

(* Why NeverReassigned holds.  The two tables together remember, under one *)
(* passport, every identifier any retained version ever carried: the       *)
(* duplicate checks see all of history although they read the tables only. *)
BoundIn(index, retired, e, d) ==
  \/ e \in DOMAIN index /\ index[e] = d
  \/ e \in DOMAIN retired /\ retired[e] = d
Agree(index, retired) == \A e \in DOMAIN index \cap DOMAIN retired : index[e] = retired[e]
OwnershipRecorded ==
  /\ \A d \in Dpps : \A v \in DOMAIN history[d] : \A e \in EverBoundIn(history[d][v]) :
       BoundIn(carrierIndex, retiredCarriers, e, d)
  /\ Agree(carrierIndex, retiredCarriers)

(* "Either the binding, the encoded value and the status are all created,  *)
(* or nothing is" (store.py:212): a binding a record shows as commissioned *)
(* is in the index that resolution reads.                                  *)
CommissionedIsResolvable ==
  \A d \in DOMAIN records : \A e \in CommissionedIn(records[d]) :
    e \in DOMAIN carrierIndex /\ carrierIndex[e] = d

BindingsStay ==
  \A d \in DOMAIN records : \A k \in DOMAIN records[d].carriers :
    LET old == records[d].carriers[k]
        new == records'[d].carriers[k]
    IN  /\ k \in DOMAIN records'[d].carriers
        /\ new.encodedIdentifier = old.encodedIdentifier
        /\ new.bindingStatus # old.bindingStatus => IsCommissioned(old) /\ ~IsCommissioned(new)

(* A write keeps every binding of a record in place and can only close it: *)
(* the list is the passport's whole binding history, and nothing reopens.  *)
BindingsOnlyClose == [][BindingsStay]_vars

-----------------------------------------------------------------------------
(* The store implements the carrier registry a reader relies on: an        *)
(* identifier's owner is whoever either table names, and a passport's      *)
(* active identifier is the one the index resolves to it.                  *)
OwnerOf ==
  [e \in DOMAIN carrierIndex \cup DOMAIN retiredCarriers |->
     IF e \in DOMAIN carrierIndex THEN carrierIndex[e] ELSE retiredCarriers[e]]
ActiveOf ==
  [d \in {carrierIndex[e] : e \in DOMAIN carrierIndex} |->
     {e \in DOMAIN carrierIndex : carrierIndex[e] = d}]

Registry == INSTANCE CarrierRegistry WITH owner <- OwnerOf, active <- ActiveOf

(* Every step of the store is a binding in the registry or changes nothing *)
(* a reader of carriers can see: an identifier, once owned, stays owned by *)
(* the same passport, and a passport's carrier answers until the passport  *)
(* gets another one.                                                       *)
ImplementsRegistry == Registry!Spec

=============================================================================
