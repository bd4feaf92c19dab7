---------------------------- MODULE AccessViews ----------------------------
(***************************************************************************)
(* Views of a passport (sort4circ_dpp/access.py): which view a caller is   *)
(* given, and which members of a record the view shows.  A record is the   *)
(* set of its members; a list the code filters is a member for each kind   *)
(* of element it keeps or drops.                                           *)
(***************************************************************************)
EXTENDS Integers

(* VIEW_RANK, "from narrowest to widest". *)
VIEW_RANK == [integrityOnly |-> 0, public |-> 1, partner |-> 2, sorting |-> 3,
              recycler |-> 4, authority |-> 5, full |-> 6]

Views == DOMAIN VIEW_RANK
NotRequested == "none"   \* no view in the request
Forbidden == "forbidden" \* S4C-AUTHZ-VIEW-FORBIDDEN

(* The roles of spec/access-matrix.json with their default views; each of  *)
(* them holds the scope dpp.read.                                          *)
DefaultView ==
  [public |-> "public", consumer |-> "public", brand |-> "full", collector |-> "partner",
   sortingOperator |-> "sorting", pssrSystem |-> "sorting", recycler |-> "recycler",
   authority |-> "authority", administrator |-> "full", integrityVerifier |-> "integrityOnly"]

(* Faulty variant: any known view is given as requested. *)
ResolveAsRequested(role, requested) ==
  IF requested = NotRequested THEN DefaultView[role]
  ELSE IF requested \in Views THEN requested ELSE Forbidden

(* resolve_view: a wider view is narrowed to the default. *)
ResolveView(role, requested) ==
  LET default == DefaultView[role]
  IN  CASE requested = NotRequested -> default
        [] requested \notin Views \cup {NotRequested} -> Forbidden
        [] role = "integrityVerifier" /\ requested \in Views \ {"integrityOnly"} -> Forbidden
        [] OTHER -> IF VIEW_RANK[requested] > VIEW_RANK[default] THEN default ELSE requested

-----------------------------------------------------------------------------
Envelope == {"dppId", "schemaVersion", "recordVersion", "accessPolicyVersion"}
PublicProduct == {"articleClass", "fabricConstruction", "technicalFlags"}
SortingProduct == PublicProduct \cup {"colourPrimary", "condition", "mass"}

(* _observation_for: what was measured, and for some views who measured    *)
(* it; the public view's mark that this is withheld is no member.          *)
ObservationFor(view) ==
  {"fibreType", "percentage"}
    \cup (IF view \in {"sorting", "recycler", "authority", "full"}
          THEN {"confidence", "sourceOrganisationId", "evidenceRef"} ELSE {})

(* What the "full" view, a copy of the record, shows. *)
AllMembers ==
  Envelope \cup SortingProduct \cup ObservationFor("full") \cup
  {"status", "granularity", "modelId", "batchId", "itemId", "epc", "sourceRecordId",
   "responsibleOperatorId", "registryIdentifier", "environmentalValues",
   "ownEvents", "otherEvents", "sortingDecisions", "components", "integrity",
   "openCarriers", "closedCarriers"}

(* project, for a caller with an organisation or without one. *)
Project(view, organised) ==
  CASE view = "full" -> AllMembers
    [] view = "integrityOnly" -> Envelope \cup {"integrity"}
    [] OTHER ->
         Envelope \cup {"status", "granularity"} \cup ObservationFor(view)
         \cup (IF view = "public" THEN PublicProduct ELSE SortingProduct)
         \cup (IF view = "partner" THEN {"modelId", "batchId"} ELSE {})
         \cup (IF view = "partner" /\ organised THEN {"ownEvents"} ELSE {})
         \cup (IF view \in {"sorting", "recycler", "authority"}
               THEN {"itemId", "epc", "sortingDecisions", "openCarriers"} ELSE {})
         \cup (IF view \in {"recycler", "authority"} THEN {"components"} ELSE {})
         \cup (IF view = "authority"
               THEN {"ownEvents", "otherEvents", "integrity", "modelId", "batchId",
                     "sourceRecordId", "environmentalValues"} ELSE {})

-----------------------------------------------------------------------------
(* The views of spec/access-matrix.json, as docs/security.md's table of    *)
(* views spells them out.  The public view, and with it the partner's,     *)
(* withholds who measured; the others have the observations whole.  The    *)
(* environmental values of the authority are in the table only.            *)
PublicGrants ==
  {"dppId", "schemaVersion", "recordVersion", "status", "granularity", "articleClass",
   "fabricConstruction", "technicalFlags", "fibreType", "percentage", "confidence", "evidenceRef"}

SortingGrants ==
  PublicGrants \cup {"sourceOrganisationId", "itemId", "epc", "colourPrimary", "condition",
                     "sortingDecisions", "openCarriers"}

RecyclerGrants == SortingGrants \cup {"components", "mass"}

(* What a view is to hold, for a caller with an organisation or without    *)
(* one: own events are those of the caller's organisation.                 *)
Granted(view, organised) ==
  CASE view = "integrityOnly" -> {"dppId", "integrity"}
    [] view = "public" -> PublicGrants
    [] view = "partner" -> PublicGrants \cup {"modelId", "batchId"}
                             \cup (IF organised THEN {"ownEvents"} ELSE {})
    [] view = "sorting" -> SortingGrants
    [] view = "recycler" -> RecyclerGrants
    [] view = "authority" -> RecyclerGrants \cup
         {"ownEvents", "otherEvents", "integrity", "modelId", "batchId", "sourceRecordId",
          "closedCarriers", "environmentalValues"}
    [] view = "full" -> AllMembers

=============================================================================
