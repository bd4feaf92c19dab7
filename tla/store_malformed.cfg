\* A commissioning that fails validation.
CONSTANTS
  d1 = d1
  d2 = d2
  e1 = e1
  e2 = e2
  p1 = p1
  p2 = p2
  NoEpc = NoEpc
  Dpps <- MCDpps
  Epcs <- MCEpcs
  Products <- MCProducts
  EntryIds = {"evt-1"}
  EntryValues = {"a"}
  Payloads <- MCPlainPayloads
  Patches <- MCProductPatches
  Roles = {"brand"}
  CarrierRequests <- MCAnyRequests
  MaxCommits = 4
SPECIFICATION Spec
SYMMETRY MCSymmetry
INVARIANT CommissionedIsResolvable
\* The bound on commits stops the instance; the store itself never stops.
CHECK_DEADLOCK FALSE
