--------------------------- MODULE MCExchangeApi ---------------------------
(* Small instances of ExchangeApi: the calls clients make in each run.     *)
EXTENDS ExchangeApi, TLC

CONSTANTS t1, t2

Posted(op, key, body, id) == [op |-> op, key |-> key, body |-> body, id |-> id]
Id1 == <<"given", 1>>

(* Two bodies under one key, a client that gives the event's identifier    *)
(* instead of a key, one that creates a passport under a chosen dppId, and *)
(* one that patches what it read.                                          *)
MCCalls ==
  {Posted("event", "k1", "b1", NoId),
   Posted("event", "k1", "b2", Id1),
   Posted("event", "none", "b1", Id1),
   Posted("create", "k1", "b1", Id1),
   Posted("carrier", "k1", "b1", Id1),
   Posted("patch", "none", "b1", NoId)}

MCOneCall == {Posted("event", "k1", "b1", NoId)}

MCThreads == {t1, t2}
MCSymmetry == Permutations(MCThreads)

=============================================================================
