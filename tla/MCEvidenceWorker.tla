-------------------------- MODULE MCEvidenceWorker --------------------------
(* Small instances of EvidenceWorker; the cfg files give the constants. *)
EXTENDS EvidenceWorker, TLC

(* A ledger that confirms at once or later. *)
MCEither == {"submitted", "confirmed"}

=============================================================================
