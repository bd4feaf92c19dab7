-------------------------- MODULE MCPassportReads --------------------------
(* Small instances of PassportReads. *)
EXTENDS PassportReads

MCCallers == {[role |-> "public", organised |-> FALSE],
              [role |-> "collector", organised |-> FALSE],
              [role |-> "sortingOperator", organised |-> TRUE]}

=============================================================================
