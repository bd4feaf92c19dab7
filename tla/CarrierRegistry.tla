-------------------------- MODULE CarrierRegistry --------------------------
(***************************************************************************)
(* What carrier binding promises a reader of tags (docs/carrier-binding.md *)
(* and the docstring of PassportStore.commission_carrier), without records *)
(* or versions: every identifier has at most one owner, for ever, and a    *)
(* passport with a carrier always has exactly one that answers.            *)
(***************************************************************************)
EXTENDS Naturals

CONSTANTS
  Dpps,    \* passport identifiers
  Epcs     \* encoded identifiers

VARIABLES
  owner,   \* identifier -> the passport it was first bound to
  active   \* passport -> the set of its identifiers that answer a read

Init ==
  /\ owner = [e \in {} |-> e]
  /\ active = [d \in {} |-> d]

(* Passport d gets identifier e, which no other passport has ever had; the *)
(* identifier it answered to before stops answering and keeps its owner.   *)
Bind(d, e) ==
  /\ e \in DOMAIN owner => owner[e] = d
  /\ owner' = [x \in DOMAIN owner \cup {e} |-> IF x = e THEN d ELSE owner[x]]
  /\ active' = [x \in DOMAIN active \cup {d} |-> IF x = d THEN {e} ELSE active[x]]

Next == \E d \in Dpps, e \in Epcs : Bind(d, e)

Spec == Init /\ [][Next]_<<owner, active>>

=============================================================================
