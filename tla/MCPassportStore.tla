-------------------------- MODULE MCPassportStore --------------------------
(* Small instances of PassportStore: two passports, two identifiers, and   *)
(* the request bodies each run feeds it.                                   *)
EXTENDS PassportStore, TLC

CONSTANTS d1, d2, e1, e2, p1, p2

MCDpps == {d1, d2}
MCEpcs == {e1, e2}
MCProducts == {p1, p2}
MCSymmetry == Permutations({d1, d2}) \cup Permutations({e1, e2})

EmptyLog == [c \in Collections |-> <<>>]
EventA == [id |-> "evt-1", value |-> "a"]
EventB == [id |-> "evt-2", value |-> "a"]

PlainPayload(d) ==
  [dppId |-> d, recordVersion |-> 7, status |-> "active", epc |-> NoEpc,
   product |-> p1, carriers |-> <<>>, log |-> EmptyLog]

(* Bodies as the fixtures and the synthetic factory build them: no carriers. *)
MCPlainPayloads == {PlainPayload(d) : d \in MCDpps}

MCProductPatch == [m \in {"product"} |-> p2]
MCEpcPatches == {[m \in {"epc"} |-> e] : e \in MCEpcs}
MCLogPatches == {[m \in {"lifecycleEvents"} |-> s] : s \in {<<>>, <<EventA>>, <<EventB>>, <<EventA, EventB>>}}
MCRetirePatch == [m \in {"status"} |-> "retired"]

MCProductPatches == {MCProductPatch}
MCBrandPatches == {MCProductPatch} \cup MCEpcPatches
MCAllPatches == MCBrandPatches \cup {MCRetirePatch} \cup MCLogPatches

MCWellFormed == [encodedIdentifier : MCEpcs, wellFormed : {TRUE}]
MCAnyRequests == [encodedIdentifier : MCEpcs, wellFormed : BOOLEAN]

=============================================================================
