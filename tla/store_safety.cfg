\* Brands and administrators, well-formed and malformed carrier requests.
CONSTANTS
  d1 = d1
  d2 = d2
  e1 = e1
  e2 = e2
  p1 = p1
  p2 = p2
  NoEpc = NoEpc
  Dpps <- MCDpps
  Epcs <- MCEpcs
  Products <- MCProducts
  EntryIds = {"evt-1", "evt-2"}
  EntryValues = {"a"}
  Payloads <- MCPlainPayloads
  Patches <- MCAllPatches
  Roles = {"brand", "administrator"}
  CarrierRequests <- MCAnyRequests
  MaxCommits = 5
SPECIFICATION Spec
INVARIANT TypeOK
INVARIANT HistoryRetained
INVARIANT CommittedTogether
INVARIANT EvidenceVerifies
INVARIANT LogOnlyGrows
INVARIANT OneCommissioned
INVARIANT NeverReassigned
PROPERTY BindingsOnlyClose
\* The bound on commits stops the instance; the store itself never stops.
CHECK_DEADLOCK FALSE
