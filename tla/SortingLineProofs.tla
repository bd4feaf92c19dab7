------------------------ MODULE SortingLineProofs ------------------------
(***************************************************************************)
(* Theorems about the sorting line, for every set of passports and         *)
(* identifiers and every window: a lookup made without the lock never      *)
(* mixes two instants, no item passes unseen, and what a lookup answers is *)
(* exact when no commissioning overlapped it.                              *)
(***************************************************************************)
EXTENDS SortingLine, TLAPS

WriterSteps ==
  \/ \E d \in Dpps : (\E e \in Epcs : Commission(d, e)) \/ (\E s \in {"active", "retired"} : PatchStatus(d, s))
  \/ \E e \in Epcs : Unindex(e)
  \/ Retire \/ CommissionFails \/ CommitRecord \/ IndexCarrier

LineSteps ==
  \/ \E e \in Epcs : LookUp(e) \/ LookUpRetired(e) \/ GetRecord(e)
  \/ \E reads \in Detections : Accept(reads) \/ Reject(reads)
  \/ CallFails \/ Actuate \/ Tick

LEMMA StepSplits == Next => WriterSteps \/ LineSteps
  BY DEF Next, Step, WriterSteps, LineSteps

(* The history is written by the calls that end and by time alone. *)
LEMMA HistorySplits == Next => (Step /\ Remember) \/ Tick
  BY DEF Next

(* A single tag is a tag. *)
LEMMA SingleTag ==
  ASSUME NEW reads \in Detections, Len(reads) = 1
  PROVE  reads[1].epc \in Epcs \cup {BadEpc}
<1>1. CASE reads = <<>>
  BY <1>1
<1>2. CASE \E t \in Tags : reads = <<t>>
  BY <1>2 DEF Tags
<1>3. CASE \E t, u \in Tags : reads = <<t, u>>
  BY <1>3
<1> QED
  BY <1>1, <1>2, <1>3 DEF Detections

(* A detection is accepted only of a single well-formed identifier. *)
LEMMA AcceptedIsSingle ==
  ASSUME NEW reads \in Detections, Evaluate(reads) = "accepted"
  PROVE  reads[1].epc \in Epcs
<1>1. \/ reads = <<>> \/ \E t \in Tags : reads = <<t>> \/ \E t2, u \in Tags : reads = <<t2, u>>
  BY DEF Detections
<1>2. CASE reads = <<>>
  BY <1>2 DEF Evaluate
<1>3. CASE \E t \in Tags : reads = <<t>>
  <2>1. Len(reads) = 1 /\ reads # <<>>
    BY <1>3
  <2>2. reads[1].epc # BadEpc
    BY <2>1 DEF Evaluate
  <2> QED
    BY <2>1, <2>2, SingleTag
<1>4. CASE \E t, u \in Tags : reads = <<t, u>>
  BY <1>4 DEF Evaluate
<1> QED
  BY <1>2, <1>3, <1>4 DEF Detections

(* What evaluate answers otherwise is one of its five codes. *)
Verdicts == {"S4C-IDENT-UNKNOWN", "S4C-IDENT-AMBIGUOUS", "S4C-IDENT-MALFORMED",
             "S4C-READ-WEAK-SIGNAL", "S4C-READ-SUPPRESSED-DUPLICATE"}
LEMMA RejectionHasCode ==
  ASSUME NEW reads \in Detections, Evaluate(reads) # "accepted"
  PROVE  Evaluate(reads) \in Verdicts
<1>1. CASE reads = <<>>
  BY <1>1 DEF Evaluate, Verdicts
<1>2. CASE \E t \in Tags : reads = <<t>>
  <2>1. Len(reads) = 1 /\ reads # <<>>
    BY <1>2
  <2> QED
    BY <2>1 DEF Evaluate, Verdicts
<1>3. CASE \E t, u \in Tags : reads = <<t, u>>
  <2>1. Len(reads) = 2 /\ reads # <<>>
    BY <1>3
  <2> QED
    BY <2>1 DEF Evaluate, Verdicts
<1> QED
  BY <1>1, <1>2, <1>3 DEF Detections

LEMMA InitTypeOK == Init => TypeOK
  BY EpcAssumption, WindowAssumption, DppAssumption
  DEF Init, TypeOK, Unlocked, Waiting, Resolving

HistoryTyped == sinceHandled \in [Epcs -> 0..Window] /\ backedOff \subseteq Epcs

LEMMA HistoryKeepsTypes == TypeOK /\ Next => HistoryTyped'
<1> SUFFICES ASSUME TypeOK, Next PROVE HistoryTyped'
  OBVIOUS
<1>1. 0 \in 0..Window /\ Window \in 0..Window /\ \A t \in 0..Window : Older(t) \in 0..Window
  BY WindowAssumption DEF Older
<1>2. CASE Remember
  BY <1>1, <1>2 DEF Remember, Kept, HistoryTyped, TypeOK
<1>3. CASE Tick
  BY <1>1, <1>3 DEF Tick, Kept, HistoryTyped, TypeOK
<1> QED
  BY <1>2, <1>3, HistorySplits

LEMMA WriterKeepsTypes == TypeOK /\ WriterSteps /\ HistoryTyped' => TypeOK'
<1> SUFFICES ASSUME TypeOK, WriterSteps, HistoryTyped' PROVE TypeOK'
  OBVIOUS
<1> DEFINE Working == [step : {"close", "retire", "index"}, dpp : Dpps, epc : Epcs,
                       todo : SUBSET Epcs, closing : Epcs \cup {NoEpc}]
<1> USE DEF TypeOK, HistoryTyped, Unlocked, Resolving, tables, records
<1>1. ASSUME NEW d \in Dpps, NEW e \in Epcs, Commission(d, e) PROVE TypeOK'
  BY <1>1 DEF Commission
<1>2. ASSUME NEW d \in Dpps, NEW s \in {"active", "retired"}, PatchStatus(d, s) PROVE TypeOK'
  BY <1>2 DEF PatchStatus
<1>3. ASSUME NEW x \in Epcs, Unindex(x) PROVE TypeOK'
  <2>1. writer \in Working
    BY <1>3 DEF Unindex
  <2>2. writer' \in Working /\ writer'.closing = x /\ carrierIndex' \in [Epcs -> Dpps \cup {NoDpp}]
    BY <1>3, <2>1 DEF Unindex
  <2> QED
    BY <1>3, <2>2 DEF Unindex
<1>4. CASE Retire
  <2>1. writer \in Working /\ writer.closing \in Epcs
    BY <1>4 DEF Retire
  <2>2. /\ writer' \in Working /\ writer'.step = "close"
        /\ retiredCarriers' \in [Epcs -> Dpps \cup {NoDpp}]
    BY <1>4, <2>1 DEF Retire
  <2> QED
    BY <1>4, <2>2 DEF Retire
<1>5. CASE CommissionFails
  BY <1>5 DEF CommissionFails
<1>6. CASE CommitRecord
  BY <1>6 DEF CommitRecord
<1>7. CASE IndexCarrier
  BY <1>7 DEF IndexCarrier
<1> QED
  BY <1>1, <1>2, <1>3, <1>4, <1>5, <1>6, <1>7 DEF WriterSteps

LEMMA LineKeepsTypes == TypeOK /\ LineSteps /\ HistoryTyped' => TypeOK'
<1> SUFFICES ASSUME TypeOK, LineSteps, HistoryTyped' PROVE TypeOK'
  OBVIOUS
<1> USE DEF TypeOK, HistoryTyped, Resolving, tables, records
<1>1. ASSUME NEW e \in Epcs, LookUp(e) PROVE TypeOK'
  BY <1>1 DEF LookUp
<1>2. ASSUME NEW e \in Epcs, LookUpRetired(e) PROVE TypeOK'
  BY <1>2 DEF LookUpRetired, Done
<1>3. ASSUME NEW e \in Epcs, GetRecord(e) PROVE TypeOK'
  BY <1>3 DEF GetRecord, Done
<1>4. ASSUME NEW reads \in Detections, Accept(reads) PROVE TypeOK'
  <2>1. reads[1].epc \in Epcs
    BY <1>4, AcceptedIsSingle DEF Accept
  <2> QED
    BY <1>4, <2>1, WindowAssumption DEF Accept
<1>5. ASSUME NEW reads \in Detections, Reject(reads) PROVE TypeOK'
  <2>1. Evaluate(reads) \in Verdicts
    BY <1>5, RejectionHasCode DEF Reject
  <2>2. (IF Len(reads) = 1 THEN reads[1].epc ELSE NoEpc) \in Epcs \cup {NoEpc, BadEpc}
    BY SingleTag
  <2> QED
    BY <1>5, <2>1, <2>2 DEF Reject, Done, Verdicts
<1>6. CASE CallFails
  BY <1>6 DEF CallFails, Done, CallFailures
<1>7. CASE Actuate
  BY <1>7 DEF Actuate, Waiting
<1>8. CASE Tick
  <2>1. \A t \in 0..Window : Older(t) \in 0..Window
    BY WindowAssumption DEF Older
  <2> QED
    BY <1>8, <2>1 DEF Tick
<1> QED
  BY <1>1, <1>2, <1>3, <1>4, <1>5, <1>6, <1>7, <1>8 DEF LineSteps

(* Every reachable state is inside the types, whatever the constants. *)
THEOREM TypesHold == Spec => []TypeOK
<1>1. TypeOK /\ [Next]_vars => TypeOK'
  <2>1. CASE Next
    BY <2>1, WriterKeepsTypes, LineKeepsTypes, HistoryKeepsTypes, StepSplits
  <2>2. CASE UNCHANGED vars
    BY <2>2 DEF vars, tables, records, history, TypeOK, Resolving
  <2> QED
    BY <2>1, <2>2
<1> QED
  BY <1>1, InitTypeOK, PTL DEF Spec

-----------------------------------------------------------------------------
(* Between the lookups the line knows something that was true meanwhile:   *)
(* the owner it read, or what the retired carriers say now.  The second    *)
(* survives a closing because the binding has left the index by then.      *)
LookupsWereTrue ==
  /\ writer.step = "retire" => carrierIndex[writer.closing] = NoDpp
  /\ line.step = "record" => <<"open", line.dpp>> \in seen
  /\ line.step = "retired" =>
       IF retiredCarriers[line.epc] = NoDpp THEN <<"unknown", NoDpp>> \in seen
       ELSE <<"closed", retiredCarriers[line.epc]>> \in seen

LEMMA WriterKeepsLookups ==
  TypeOK /\ LookupsWereTrue /\ WriterSteps /\ Observe => LookupsWereTrue'
<1> SUFFICES ASSUME TypeOK, LookupsWereTrue, WriterSteps, Observe PROVE LookupsWereTrue'
  OBVIOUS
<1>1. line' = line
  BY DEF WriterSteps, Commission, PatchStatus, Unindex, Retire, CommissionFails, CommitRecord, IndexCarrier
<1>2. line.step \in {"record", "retired"} => seen' = seen \cup {Fact(line.epc)'}
  BY <1>1 DEF Observe, Resolving
<1>3. (line.step = "record" => <<"open", line.dpp>> \in seen)'
  BY <1>1, <1>2 DEF LookupsWereTrue
<1> DEFINE Settled == line.step = "retired" =>
             IF retiredCarriers[line.epc] = NoDpp THEN <<"unknown", NoDpp>> \in seen
             ELSE <<"closed", retiredCarriers[line.epc]>> \in seen
           Unindexed == writer.step = "retire" => carrierIndex[writer.closing] = NoDpp
<1>4. ASSUME retiredCarriers' = retiredCarriers PROVE Settled'
  BY <1>1, <1>2, <1>4 DEF LookupsWereTrue
<1>5. ASSUME NEW d \in Dpps, NEW e \in Epcs, Commission(d, e) PROVE LookupsWereTrue'
  BY <1>3, <1>4, <1>5 DEF Commission, tables, LookupsWereTrue
<1>6. ASSUME NEW d \in Dpps, NEW s \in {"active", "retired"}, PatchStatus(d, s) PROVE LookupsWereTrue'
  BY <1>3, <1>4, <1>6 DEF PatchStatus, tables, LookupsWereTrue
<1>7. ASSUME NEW x \in Epcs, Unindex(x) PROVE LookupsWereTrue'
  <2>1. writer'.closing = x /\ carrierIndex'[x] = NoDpp
    BY <1>7 DEF Unindex, TypeOK, Unlocked
  <2> QED
    BY <1>3, <1>4, <1>7, <2>1 DEF Unindex, LookupsWereTrue
<1>8. CASE Retire
  <2>1. writer'.step = "close"
    BY <1>8 DEF Retire, TypeOK, Unlocked
  <2>2. writer.closing \in Epcs /\ writer.dpp \in Dpps /\ writer.dpp # NoDpp
    BY <1>8, DppAssumption DEF Retire, TypeOK, Unlocked
  <2>3. ASSUME line.step = "retired" PROVE Settled'
    <3>1. line.epc \in Epcs
      BY <2>3 DEF TypeOK, Resolving
    <3>2. CASE line.epc = writer.closing
      <4>1. retiredCarriers'[line.epc] = writer.dpp /\ carrierIndex'[line.epc] = NoDpp
        BY <1>8, <2>2, <3>2 DEF Retire, TypeOK, LookupsWereTrue
      <4>2. Fact(line.epc)' = <<"closed", writer.dpp>>
        BY <1>1, <2>2, <4>1 DEF Fact
      <4> QED
        BY <1>1, <1>2, <2>2, <2>3, <4>1, <4>2
    <3>3. CASE line.epc # writer.closing
      <4>1. retiredCarriers'[line.epc] = retiredCarriers[line.epc]
        BY <1>8, <3>1, <3>3 DEF Retire, TypeOK
      <4> QED
        BY <1>1, <1>2, <4>1 DEF LookupsWereTrue
    <3> QED
      BY <3>2, <3>3
  <2> QED
    BY <1>1, <1>3, <2>1, <2>3 DEF LookupsWereTrue
<1>9. CASE CommissionFails
  BY <1>3, <1>4, <1>9 DEF CommissionFails, Unlocked, tables, LookupsWereTrue
<1>10. CASE CommitRecord
  <2>1. writer'.step = "index"
    BY <1>10 DEF CommitRecord, TypeOK, Unlocked
  <2> QED
    BY <1>3, <1>4, <1>10, <2>1 DEF CommitRecord, tables, LookupsWereTrue
<1>11. CASE IndexCarrier
  BY <1>3, <1>4, <1>11 DEF IndexCarrier, Unlocked, LookupsWereTrue
<1> QED
  BY <1>5, <1>6, <1>7, <1>8, <1>9, <1>10, <1>11 DEF WriterSteps

LEMMA LineKeepsLookups ==
  TypeOK /\ LookupsWereTrue /\ LineSteps /\ Observe => LookupsWereTrue'
<1> SUFFICES ASSUME TypeOK, LookupsWereTrue, LineSteps, Observe PROVE LookupsWereTrue'
  OBVIOUS
<1>1. UNCHANGED tables /\ UNCHANGED writer
  BY DEF LineSteps, LookUp, LookUpRetired, GetRecord, Accept, Reject, CallFails, Actuate, Tick
<1>2. (writer.step = "retire" => carrierIndex[writer.closing] = NoDpp)'
  BY <1>1 DEF tables, LookupsWereTrue
<1>3. ASSUME NEW e \in Epcs, LookUp(e) PROVE LookupsWereTrue'
  <2>1. line'.epc = e /\ line.epc = e
    BY <1>3 DEF LookUp, TypeOK
  <2>2. carrierIndex' = carrierIndex /\ retiredCarriers' = retiredCarriers
    BY <1>1 DEF tables
  <2>3. line'.step \in {"record", "retired"} => Fact(line.epc)' \in seen'
    BY DEF Observe, Resolving
  <2>4. CASE carrierIndex[e] = NoDpp
    <3>1. line'.step = "retired"
      BY <1>3, <2>4 DEF LookUp, TypeOK
    <3>2. Fact(line.epc)' = IF retiredCarriers[e] # NoDpp THEN <<"closed", retiredCarriers[e]>>
                            ELSE <<"unknown", NoDpp>>
      BY <2>1, <2>2, <2>4 DEF Fact
    <3> QED
      BY <1>2, <2>1, <2>2, <2>3, <3>1, <3>2 DEF LookupsWereTrue
  <2>5. CASE carrierIndex[e] # NoDpp
    <3>1. line'.step = "record" /\ line'.dpp = carrierIndex[e]
      BY <1>3, <2>5 DEF LookUp, TypeOK
    <3>2. Fact(line.epc)' = <<"open", carrierIndex[e]>>
      BY <2>1, <2>2, <2>5 DEF Fact
    <3> QED
      BY <1>2, <2>3, <3>1, <3>2 DEF LookupsWereTrue
  <2> QED
    BY <2>4, <2>5
<1>4. ASSUME line'.step \notin {"record", "retired"} PROVE LookupsWereTrue'
  BY <1>2, <1>4 DEF LookupsWereTrue
<1>5. ASSUME NEW e \in Epcs, LookUpRetired(e) \/ GetRecord(e) PROVE LookupsWereTrue'
  BY <1>4, <1>5 DEF LookUpRetired, GetRecord, Done
<1>6. ASSUME NEW reads \in Detections, Accept(reads) \/ Reject(reads) PROVE LookupsWereTrue'
  BY <1>4, <1>6 DEF Accept, Reject, Done
<1>7. CASE CallFails \/ Actuate
  BY <1>4, <1>7 DEF CallFails, Actuate, Done, Waiting
<1>8. CASE Tick
  <2>1. line' = line
    BY <1>8 DEF Tick
  <2>2. line.step \in {"record", "retired"} => seen \subseteq seen'
    BY <2>1 DEF Observe, Resolving
  <2> QED
    BY <1>1, <1>2, <2>1, <2>2 DEF LookupsWereTrue, tables
<1> QED
  BY <1>3, <1>5, <1>6, <1>7, <1>8 DEF LineSteps

LEMMA LookupsHold == Spec => [](TypeOK /\ LookupsWereTrue)
<1>1. Init => TypeOK /\ LookupsWereTrue
  BY InitTypeOK DEF Init, Unlocked, Waiting, LookupsWereTrue
<1>2. TypeOK /\ LookupsWereTrue /\ [Next]_vars => LookupsWereTrue'
  <2>1. CASE UNCHANGED vars
    BY <2>1 DEF vars, tables, LookupsWereTrue
  <2>2. CASE Next
    BY <2>2, WriterKeepsLookups, LineKeepsLookups, StepSplits DEF Next
  <2> QED
    BY <2>1, <2>2
<1> QED
  BY <1>1, <1>2, TypesHold, PTL DEF Spec

(* Whatever is commissioned while an identifier is looked up without the   *)
(* lock, the answer is what both tables said at one instant of the call.   *)
THEOREM LookupsAreConsistent == Spec => AnswersWereTrue
<1>1. TypeOK /\ LookupsWereTrue /\ [Next]_vars => [AnswerWasTrue]_vars
  <2> SUFFICES ASSUME TypeOK, LookupsWereTrue, Next, Resolving, line' # line PROVE AnswerWasTrue
    BY DEF AnswerWasTrue, Answered, Resolving, vars, Next
  <2> USE DEF AnswerWasTrue, Answered
  <2>1. LineSteps
    BY StepSplits DEF Next, WriterSteps, Commission, PatchStatus, Unindex, Retire,
                      CommissionFails, CommitRecord, IndexCarrier
  <2>2. ASSUME NEW e \in Epcs, LookUp(e) PROVE AnswerWasTrue
    BY <2>2 DEF LookUp, TypeOK
  <2>3. ASSUME NEW e \in Epcs, LookUpRetired(e) PROVE AnswerWasTrue
    BY <2>3 DEF LookUpRetired, Done, LookupsWereTrue
  <2>4. ASSUME NEW e \in Epcs, GetRecord(e) PROVE AnswerWasTrue
    BY <2>4 DEF GetRecord, Done, LookupsWereTrue
  <2>5. ASSUME NEW reads \in Detections, Accept(reads) \/ Reject(reads) PROVE FALSE
    BY <2>5 DEF Accept, Reject, Resolving
  <2>6. CASE CallFails
    BY <2>6 DEF CallFails, CallFailures, Done
  <2>7. CASE Actuate
    BY <2>7 DEF Actuate, Waiting
  <2>8. ~Tick
    BY DEF Tick
  <2> QED
    BY <2>1, <2>2, <2>3, <2>4, <2>5, <2>6, <2>7, <2>8 DEF LineSteps
<1> QED
  BY <1>1, LookupsHold, PTL DEF Spec, AnswersWereTrue

-----------------------------------------------------------------------------
(* A running window was started by a call that is still being made, was    *)
(* refused for its rate, or has led to a command or a diversion since.     *)
WindowIsAccountedFor ==
  \A e \in Epcs : age[e] < Window =>
    e \in backedOff \/ sinceHandled[e] <= age[e] \/ (Resolving /\ line.epc = e)

(* A call of the line that ends, ends handled or refused for its rate. *)
LEMMA CallsEnd ==
  ASSUME TypeOK, LineSteps, Resolving, line'.step = "done"
  PROVE  Handled(line'.code) \/ line'.code = "S4C-RATE-LIMITED"
<1> USE DEF Handled, diverts, safe_action, DIVERTING_ACTIONS
<1>1. ASSUME NEW e \in Epcs, LookUp(e) PROVE FALSE
  BY <1>1 DEF LookUp, TypeOK
<1>2. ASSUME NEW e \in Epcs, LookUpRetired(e)
      PROVE  line'.code \in {"S4C-IDENT-UNKNOWN", "S4C-IDENT-RETIRED"}
  BY <1>2 DEF LookUpRetired, Done
<1>3. ASSUME NEW e \in Epcs, GetRecord(e)
      PROVE  line'.code \in {"answered", "S4C-IDENT-RETIRED"}
  BY <1>3 DEF GetRecord, Done
<1>4. ASSUME NEW reads \in Detections, Accept(reads) \/ Reject(reads) PROVE FALSE
  BY <1>4 DEF Accept, Reject, Resolving
<1>5. ASSUME CallFails PROVE line'.code \in CallFailures
  BY <1>5 DEF CallFails, Done
<1>6. ~Actuate /\ ~Tick
  BY DEF Actuate, Tick, Resolving
<1> QED
  BY <1>1, <1>2, <1>3, <1>4, <1>5, <1>6 DEF LineSteps, CallFailures

(* No step but an acceptance or time changes the age of an identifier. *)
LEMMA AgesStay ==
  ASSUME Step
  PROVE  \/ UNCHANGED age
         \/ \E reads \in Detections : Accept(reads)
  BY DEF Step, Commission, PatchStatus, Unindex, Retire, CommissionFails, CommitRecord, IndexCarrier,
         LookUp, LookUpRetired, GetRecord, Reject, CallFails, Actuate

(* While a call is made, the identifier stays the same. *)
LEMMA CallStays ==
  ASSUME TypeOK, Step, Resolving
  PROVE  line'.epc = line.epc /\ (Resolving' \/ line'.step = "done")
<1> USE DEF Resolving
<1>1. ASSUME NEW e \in Epcs, LookUp(e) PROVE line'.epc = line.epc /\ (Resolving' \/ line'.step = "done")
  BY <1>1 DEF LookUp, TypeOK
<1>2. ASSUME NEW e \in Epcs, LookUpRetired(e) \/ GetRecord(e)
      PROVE  line'.epc = line.epc /\ (Resolving' \/ line'.step = "done")
  BY <1>2 DEF LookUpRetired, GetRecord, Done
<1>3. ASSUME CallFails PROVE line'.epc = line.epc /\ (Resolving' \/ line'.step = "done")
  BY <1>3 DEF CallFails, Done
<1>4. ASSUME NEW reads \in Detections, Accept(reads) \/ Reject(reads) PROVE FALSE
  BY <1>4 DEF Accept, Reject
<1>5. ~Actuate
  BY DEF Actuate
<1>6. ASSUME WriterSteps PROVE UNCHANGED line
  BY <1>6 DEF WriterSteps, Commission, PatchStatus, Unindex, Retire, CommissionFails, CommitRecord, IndexCarrier
<1>7. ASSUME UNCHANGED line PROVE line'.epc = line.epc /\ (Resolving' \/ line'.step = "done")
  BY <1>7
<1> QED
  BY <1>1, <1>2, <1>3, <1>4, <1>5, <1>6, <1>7 DEF Step, WriterSteps

LEMMA AccountStep ==
  ASSUME TypeOK, WindowIsAccountedFor, Next
  PROVE  WindowIsAccountedFor'
<1>1. CASE Tick
  <2> SUFFICES ASSUME NEW e \in Epcs, age'[e] < Window
               PROVE  e \in backedOff' \/ sinceHandled'[e] <= age'[e] \/ (Resolving /\ line.epc = e)'
    BY DEF WindowIsAccountedFor
  <2>1. /\ age'[e] = Older(age[e]) /\ sinceHandled'[e] = Older(sinceHandled[e])
        /\ (e \in backedOff => e \in backedOff') /\ line' = line
    BY <1>1 DEF Tick, Kept
  <2>2. age[e] \in 0..Window /\ sinceHandled[e] \in 0..Window
    BY DEF TypeOK
  <2>3. age[e] < Window
    BY <2>1, <2>2, WindowAssumption DEF Older
  <2>4. sinceHandled[e] <= age[e] => Older(sinceHandled[e]) <= Older(age[e])
    BY <2>2, WindowAssumption DEF Older
  <2> QED
    BY <2>1, <2>3, <2>4 DEF WindowIsAccountedFor, Resolving
<1>2. CASE Step /\ Remember
  <2> SUFFICES ASSUME NEW e \in Epcs, age'[e] < Window
               PROVE  e \in backedOff' \/ sinceHandled'[e] <= age'[e] \/ (Resolving /\ line.epc = e)'
    BY DEF WindowIsAccountedFor
  <2>1. age[e] \in 0..Window
    BY DEF TypeOK
  <2>2. CASE Called(e)
    <3>1. UNCHANGED age
      BY <1>2, <2>2, AgesStay DEF Called, Accept, Resolving
    <3>2. LineSteps
      BY <1>2, <2>2, StepSplits DEF Called, Resolving, Next, WriterSteps, Commission, PatchStatus, Unindex,
                                    Retire, CommissionFails, CommitRecord, IndexCarrier
    <3>3. Handled(line'.code) => sinceHandled'[e] = 0
      BY <1>2, <2>2 DEF Remember, Kept
    <3>4. line'.code = "S4C-RATE-LIMITED" => e \in backedOff'
      BY <1>2, <2>2 DEF Remember
    <3> QED
      BY <2>1, <2>2, <3>1, <3>2, <3>3, <3>4, CallsEnd DEF Called
  <2>3. CASE Accepted(e)
    BY <2>3 DEF Accepted, Resolving
  <2>4. CASE ~Called(e) /\ ~Accepted(e)
    <3>1. sinceHandled'[e] = sinceHandled[e] /\ (e \in backedOff => e \in backedOff')
      BY <1>2, <2>4 DEF Remember, Kept
    <3>2. age'[e] = age[e]
      <4>1. ASSUME NEW reads \in Detections, Accept(reads) PROVE age'[e] = age[e]
        <5>1. /\ line.step = "idle" /\ line'.step = "index" /\ line'.epc = reads[1].epc
              /\ age' = [age EXCEPT ![reads[1].epc] = 0]
          BY <4>1 DEF Accept
        <5> QED
          BY <2>4, <5>1 DEF Accepted, TypeOK
      <4> QED
        BY <1>2, <4>1, AgesStay
    <3>3. Resolving /\ line.epc = e => (Resolving /\ line.epc = e)'
      BY <1>2, <2>4, CallStays DEF Called
    <3> QED
      BY <3>1, <3>2, <3>3 DEF WindowIsAccountedFor
  <2> QED
    BY <2>2, <2>3, <2>4
<1> QED
  BY <1>1, <1>2, HistorySplits

LEMMA AccountsHold == Spec => [](TypeOK /\ WindowIsAccountedFor)
<1>1. Init => WindowIsAccountedFor
  BY WindowAssumption DEF Init, WindowIsAccountedFor
<1>2. TypeOK /\ WindowIsAccountedFor /\ [Next]_vars => WindowIsAccountedFor'
  <2>1. CASE UNCHANGED vars
    BY <2>1 DEF vars, history, WindowIsAccountedFor, Resolving
  <2> QED
    BY <2>1, AccountStep
<1> QED
  BY <1>1, <1>2, TypesHold, PTL DEF Spec

(* Of the verdicts only suppression lets an item pass, and only of one     *)
(* whose window runs.                                                      *)
LEMMA OnlySuppressionPasses ==
  ASSUME TypeOK, NEW reads \in Detections, Evaluate(reads) # "accepted", ~diverts(Evaluate(reads))
  PROVE  /\ Evaluate(reads) = "S4C-READ-SUPPRESSED-DUPLICATE"
         /\ Len(reads) = 1 /\ reads[1].epc \in Epcs /\ age[reads[1].epc] < Window
<1>1. Evaluate(reads) = "S4C-READ-SUPPRESSED-DUPLICATE"
  BY RejectionHasCode DEF Verdicts, diverts, safe_action, DIVERTING_ACTIONS
<1>2. CASE reads = <<>>
  BY <1>1, <1>2 DEF Evaluate
<1>3. CASE \E t \in Tags : reads = <<t>>
  <2>1. Len(reads) = 1 /\ reads # <<>>
    BY <1>3
  <2>2. reads[1].epc # BadEpc
    BY <1>1, <2>1 DEF Evaluate
  <2> QED
    BY <1>1, <2>1, <2>2, SingleTag DEF Evaluate
<1>4. CASE \E t, u \in Tags : reads = <<t, u>>
  <2>1. Len(reads) = 2 /\ reads # <<>>
    BY <1>4
  <2> QED
    BY <1>1, <2>1 DEF Evaluate
<1> QED
  BY <1>2, <1>3, <1>4 DEF Detections

(* Whatever the tables say and however calls end, an item passes with      *)
(* neither a command nor a diversion only when the service refuses the     *)
(* call for its rate, or when its read repeats one whose call was refused  *)
(* so or led to a command or a diversion less than a window ago.           *)
THEOREM NothingPassesUnseen == Spec => NothingSlipsThrough
<1>1. TypeOK /\ WindowIsAccountedFor /\ [Next]_vars => [NothingSlips]_vars
  <2> SUFFICES ASSUME TypeOK, WindowIsAccountedFor, Next, Passes PROVE NothingSlips
    BY DEF NothingSlips
  <2>1. LineSteps
    BY StepSplits DEF Passes, WriterSteps, Commission, PatchStatus, Unindex, Retire,
                      CommissionFails, CommitRecord, IndexCarrier
  <2>2. CASE Resolving
    BY <2>1, <2>2, CallsEnd DEF Passes, NothingSlips
  <2>3. ASSUME ~Resolving, NEW e \in Epcs, LookUp(e) \/ LookUpRetired(e) \/ GetRecord(e) PROVE FALSE
    BY <2>3 DEF LookUp, LookUpRetired, GetRecord, Resolving
  <2>4. ASSUME NEW reads \in Detections, Accept(reads) PROVE FALSE
    BY <2>4 DEF Accept, Passes
  <2>5. ASSUME NEW reads \in Detections, Reject(reads) PROVE NothingSlips
    <3>1. line.step = "idle" /\ line'.code = Evaluate(reads) /\ Evaluate(reads) # "accepted"
          /\ line'.epc = IF Len(reads) = 1 THEN reads[1].epc ELSE NoEpc
      BY <2>5 DEF Reject, Done
    <3>2. ~diverts(Evaluate(reads))
      BY <3>1 DEF Passes, Handled
    <3>3. /\ line'.code = "S4C-READ-SUPPRESSED-DUPLICATE"
          /\ line'.epc \in Epcs /\ age[line'.epc] < Window
      BY <3>1, <3>2, OnlySuppressionPasses
    <3>4. line'.epc \in backedOff \/ sinceHandled[line'.epc] <= age[line'.epc]
      BY <3>1, <3>3 DEF WindowIsAccountedFor, Resolving
    <3>5. age[line'.epc] \in 0..Window /\ sinceHandled[line'.epc] \in 0..Window
      BY <3>3 DEF TypeOK
    <3> QED
      BY <3>3, <3>4, <3>5, WindowAssumption DEF NothingSlips
  <2>6. ASSUME ~Resolving, CallFails \/ Actuate \/ Tick PROVE FALSE
    BY <2>6 DEF CallFails, Actuate, Tick, Waiting, Passes
  <2> QED
    BY <2>1, <2>2, <2>3, <2>4, <2>5, <2>6 DEF LineSteps
<1> QED
  BY <1>1, AccountsHold, PTL DEF Spec, NothingSlipsThrough

-----------------------------------------------------------------------------
(* How the two tables lag behind the records while a passport is written.  *)

Writing(d) == writer.step # "idle" /\ writer.dpp = d

(* The index points to open bindings, of a passport that is written only   *)
(* to those the loop has still to close.                                   *)
IndexedIsOpen ==
  \A e \in Epcs, d \in Dpps :
    carrierIndex[e] = d => e \in open[d] /\ (Writing(d) => e \in writer.todo)
RetiredIsListed == \A e \in Epcs, d \in Dpps : retiredCarriers[e] = d => e \in listed[d]

(* What a record lists is in one of the tables, but for the identifier on  *)
(* its way from the one to the other, or from the record to the index.     *)
ListedIsKnown ==
  \A e \in Epcs, d \in Dpps :
    e \in listed[d] =>
      \/ carrierIndex[e] = d \/ retiredCarriers[e] = d
      \/ Writing(d) /\ writer.step = "retire" /\ writer.closing = e
      \/ Writing(d) /\ writer.step = "index" /\ writer.epc = e
ListedOnce == \A e \in Epcs, d1, d2 \in Dpps : e \in listed[d1] /\ e \in listed[d2] => d1 = d2

WriterHolds ==
  /\ \A d \in Dpps : open[d] \subseteq listed[d]
  /\ writer.step # "idle" => /\ writer.dpp \in Dpps /\ writer.epc \in Epcs
                             /\ writer.todo \subseteq open[writer.dpp]
                             /\ Available(writer.dpp, writer.epc)
  /\ writer.step = "retire" => writer.closing \in open[writer.dpp]
  /\ writer.step = "index" => writer.todo = {} /\ writer.epc \in open[writer.dpp]

TablesLag == IndexedIsOpen /\ RetiredIsListed /\ ListedIsKnown /\ ListedOnce /\ WriterHolds

LEMMA CommissionKeepsLag ==
  ASSUME TypeOK, TablesLag, NEW d \in Dpps, NEW e \in Epcs, Commission(d, e)
  PROVE  TablesLag'
<1>1. /\ UNCHANGED <<carrierIndex, retiredCarriers, listed, open>>
      /\ writer.step = "idle" /\ Available(d, e)
      /\ writer'.step = "close" /\ writer'.dpp = d /\ writer'.epc = e /\ writer'.todo = open[d]
  BY DEF Commission, tables, records
<1> USE DEF TablesLag, Writing
<1>2. IndexedIsOpen'
  BY <1>1 DEF IndexedIsOpen
<1>3. RetiredIsListed' /\ ListedOnce'
  BY <1>1 DEF RetiredIsListed, ListedOnce
<1>4. ListedIsKnown'
  BY <1>1 DEF ListedIsKnown
<1>5. WriterHolds'
  BY <1>1 DEF WriterHolds, Available
<1> QED
  BY <1>2, <1>3, <1>4, <1>5

LEMMA UnindexKeepsLag ==
  ASSUME TypeOK, TablesLag, NEW x \in Epcs, Unindex(x)
  PROVE  TablesLag'
<1> DEFINE d == writer.dpp
<1>1. /\ UNCHANGED <<retiredCarriers, listed, open>>
      /\ carrierIndex' = [carrierIndex EXCEPT ![x] = NoDpp]
      /\ writer.step = "close" /\ x \in writer.todo
      /\ writer' = [writer EXCEPT !.step = "retire", !.todo = @ \ {x}, !.closing = x]
  BY DEF Unindex, records
<1>2. /\ writer'.step = "retire" /\ writer'.dpp = d /\ writer'.epc = writer.epc
      /\ writer'.todo = writer.todo \ {x} /\ writer'.closing = x
  BY <1>1 DEF TypeOK, Unlocked
<1>3. \A y \in Epcs : carrierIndex'[y] = IF y = x THEN NoDpp ELSE carrierIndex[y]
  BY <1>1 DEF TypeOK
<1>4. d \in Dpps /\ x \in open[d] /\ x \in listed[d] /\ Available(d, writer.epc) /\ writer.epc \in Epcs
  BY <1>1 DEF TablesLag, WriterHolds
<1> HIDE DEF d
<1> USE DppAssumption DEF TablesLag, Writing
<1>5. IndexedIsOpen'
  BY <1>1, <1>2, <1>3 DEF IndexedIsOpen, d
<1>6. RetiredIsListed' /\ ListedOnce'
  BY <1>1 DEF RetiredIsListed, ListedOnce
<1>7. ListedIsKnown'
  <2> SUFFICES ASSUME NEW e \in Epcs, NEW o \in Dpps, e \in listed[o]
               PROVE  \/ carrierIndex'[e] = o \/ retiredCarriers[e] = o
                      \/ o = d /\ x = e
    BY <1>1, <1>2 DEF ListedIsKnown
  <2>1. CASE e = x
    BY <1>4, <2>1 DEF ListedOnce
  <2>2. CASE e # x
    BY <1>1, <1>3, <2>2 DEF ListedIsKnown
  <2> QED
    BY <2>1, <2>2
<1>8. WriterHolds'
  <2>1. Available(d, writer.epc)'
    BY <1>1, <1>2, <1>3, <1>4 DEF Available, d
  <2> QED
    BY <1>1, <1>2, <1>4, <2>1 DEF WriterHolds, Available, d
<1> QED
  BY <1>5, <1>6, <1>7, <1>8

LEMMA RetireKeepsLag ==
  ASSUME TypeOK, TablesLag, Retire
  PROVE  TablesLag'
<1> DEFINE d == writer.dpp
           x == writer.closing
<1>1. /\ UNCHANGED <<carrierIndex, listed, open>>
      /\ retiredCarriers' = [retiredCarriers EXCEPT ![x] = d]
      /\ writer.step = "retire"
      /\ writer' = [writer EXCEPT !.step = "close", !.closing = NoEpc]
  BY DEF Retire, records
<1>2. writer'.step = "close" /\ writer'.dpp = d /\ writer'.epc = writer.epc /\ writer'.todo = writer.todo
  BY <1>1 DEF TypeOK, Unlocked
<1>3. x \in Epcs /\ \A y \in Epcs : retiredCarriers'[y] = IF y = x THEN d ELSE retiredCarriers[y]
  BY <1>1 DEF TypeOK
<1>4. d \in Dpps /\ x \in open[d] /\ x \in listed[d] /\ Available(d, writer.epc) /\ writer.epc \in Epcs
  BY <1>1 DEF TablesLag, WriterHolds
<1> HIDE DEF x, d
<1> USE DEF TablesLag, Writing
<1>5. IndexedIsOpen'
  BY <1>1, <1>2 DEF IndexedIsOpen, d
<1>6. RetiredIsListed'
  BY <1>1, <1>3, <1>4 DEF RetiredIsListed
<1>7. ListedOnce'
  BY <1>1 DEF ListedOnce
<1>8. ListedIsKnown'
  <2> SUFFICES ASSUME NEW e \in Epcs, NEW o \in Dpps, e \in listed[o]
               PROVE  carrierIndex[e] = o \/ retiredCarriers'[e] = o
    BY <1>1 DEF ListedIsKnown
  <2>1. CASE e = x
    BY <1>3, <1>4, <2>1 DEF ListedOnce
  <2>2. CASE e # x
    BY <1>1, <1>3, <2>2 DEF ListedIsKnown, x
  <2> QED
    BY <2>1, <2>2
<1>9. WriterHolds'
  <2>1. Available(d, writer.epc)'
    BY <1>1, <1>2, <1>3, <1>4 DEF Available, d
  <2> QED
    BY <1>1, <1>2, <1>4, <2>1 DEF WriterHolds, Available, d
<1> QED
  BY <1>5, <1>6, <1>7, <1>8, <1>9

LEMMA CommitKeepsLag ==
  ASSUME TypeOK, TablesLag, CommitRecord
  PROVE  TablesLag'
<1> DEFINE d == writer.dpp
           x == writer.epc
<1>1. /\ UNCHANGED <<carrierIndex, retiredCarriers>>
      /\ listed' = [listed EXCEPT ![d] = @ \cup {x}]
      /\ open' = [open EXCEPT ![d] = {x}]
      /\ writer.step = "close" /\ writer.todo = {}
      /\ writer' = [writer EXCEPT !.step = "index"]
  BY DEF CommitRecord, tables
<1>2. writer'.step = "index" /\ writer'.dpp = d /\ writer'.epc = x /\ writer'.todo = {}
  BY <1>1 DEF TypeOK, Unlocked
<1>3. d \in Dpps /\ x \in Epcs /\ Available(d, x)
  BY <1>1 DEF TablesLag, WriterHolds
<1>4. \A o \in Dpps : /\ listed'[o] = IF o = d THEN listed[o] \cup {x} ELSE listed[o]
                      /\ open'[o] = IF o = d THEN {x} ELSE open[o]
  BY <1>1, <1>3 DEF TypeOK
<1> HIDE DEF x, d
<1> USE DEF TablesLag, Writing
<1>5. \A e \in Epcs : carrierIndex[e] # d
  BY <1>1, <1>3 DEF IndexedIsOpen, d
<1>6. IndexedIsOpen'
  BY <1>1, <1>2, <1>4, <1>5 DEF IndexedIsOpen, d
<1>7. RetiredIsListed'
  BY <1>1, <1>4 DEF RetiredIsListed
<1>8. \A o \in Dpps : x \in listed[o] => o = d
  BY <1>1, <1>3, DppAssumption DEF ListedIsKnown, Available
<1>9. ListedOnce'
  BY <1>4, <1>8 DEF ListedOnce
<1>10. ListedIsKnown'
  <2> SUFFICES ASSUME NEW e \in Epcs, NEW o \in Dpps, e \in listed'[o]
               PROVE  \/ carrierIndex[e] = o \/ retiredCarriers[e] = o
                      \/ o = d /\ x = e
    BY <1>1, <1>2 DEF ListedIsKnown
  <2> QED
    BY <1>1, <1>4 DEF ListedIsKnown
<1>11. WriterHolds'
  BY <1>1, <1>2, <1>3, <1>4 DEF WriterHolds, Available
<1> QED
  BY <1>6, <1>7, <1>9, <1>10, <1>11

LEMMA IndexKeepsLag ==
  ASSUME TypeOK, TablesLag, IndexCarrier
  PROVE  TablesLag'
<1> DEFINE d == writer.dpp
           x == writer.epc
<1>1. /\ UNCHANGED <<retiredCarriers, listed, open>>
      /\ carrierIndex' = [carrierIndex EXCEPT ![x] = d]
      /\ writer.step = "index" /\ writer'.step = "idle"
  BY DEF IndexCarrier, records, Unlocked
<1>2. d \in Dpps /\ x \in Epcs /\ x \in open[d] /\ writer.todo = {}
  BY <1>1 DEF TablesLag, WriterHolds
<1>3. \A y \in Epcs : carrierIndex'[y] = IF y = x THEN d ELSE carrierIndex[y]
  BY <1>1 DEF TypeOK
<1>4. carrierIndex[x] \in {NoDpp, d}
  BY <1>1 DEF TablesLag, WriterHolds, Available
<1> HIDE DEF x, d
<1> USE DppAssumption DEF TablesLag, Writing
<1>5. IndexedIsOpen'
  BY <1>1, <1>2, <1>3 DEF IndexedIsOpen
<1>6. RetiredIsListed' /\ ListedOnce'
  BY <1>1 DEF RetiredIsListed, ListedOnce
<1>7. ListedIsKnown'
  <2> SUFFICES ASSUME NEW e \in Epcs, NEW o \in Dpps, e \in listed[o]
               PROVE  carrierIndex'[e] = o \/ retiredCarriers[e] = o
    BY <1>1 DEF ListedIsKnown
  <2>1. CASE e = x
    BY <1>2, <1>3, <2>1 DEF ListedOnce, WriterHolds
  <2>2. CASE e # x
    BY <1>1, <1>3, <2>2 DEF ListedIsKnown, x
  <2> QED
    BY <2>1, <2>2
<1>8. WriterHolds'
  BY <1>1 DEF WriterHolds
<1> QED
  BY <1>5, <1>6, <1>7, <1>8

LEMMA LagStep ==
  ASSUME TypeOK, TablesLag, [Next]_vars
  PROVE  TablesLag'
<1>1. CASE UNCHANGED <<carrierIndex, retiredCarriers, listed, open, writer>>
  BY <1>1 DEF TablesLag, IndexedIsOpen, RetiredIsListed, ListedIsKnown, ListedOnce, WriterHolds, Writing, Available
<1>2. ASSUME LineSteps PROVE UNCHANGED <<carrierIndex, retiredCarriers, listed, open, writer>>
  BY <1>2 DEF LineSteps, LookUp, LookUpRetired, GetRecord, Accept, Reject, CallFails, Actuate, Tick, tables, records
<1>3. ASSUME NEW d \in Dpps, NEW s \in {"active", "retired"}, PatchStatus(d, s)
      PROVE  UNCHANGED <<carrierIndex, retiredCarriers, listed, open, writer>>
  BY <1>3 DEF PatchStatus, tables
<1>4. CASE CommissionFails
  <2>1. /\ UNCHANGED <<carrierIndex, retiredCarriers, listed, open>>
        /\ writer.step = "close" /\ writer'.step = "idle"
    BY <1>4 DEF CommissionFails, tables, records, Unlocked
  <2> USE DEF TablesLag, Writing
  <2>2. IndexedIsOpen' /\ RetiredIsListed' /\ ListedOnce'
    BY <2>1 DEF IndexedIsOpen, RetiredIsListed, ListedOnce
  <2>3. ListedIsKnown'
    BY <2>1 DEF ListedIsKnown
  <2>4. WriterHolds'
    BY <2>1 DEF WriterHolds
  <2> QED
    BY <2>2, <2>3, <2>4
<1>5. CASE UNCHANGED vars
  BY <1>1, <1>5 DEF vars, tables, records
<1> QED
  BY <1>1, <1>2, <1>3, <1>4, <1>5, StepSplits, CommissionKeepsLag, UnindexKeepsLag, RetireKeepsLag,
     CommitKeepsLag, IndexKeepsLag DEF Next, WriterSteps

-----------------------------------------------------------------------------
(* Reads no commissioning of their own passport overlaps. *)

(* What such a read learned from its first lookup is still so. *)
SettledLookups ==
  Resolving /\ ~disturbed =>
    /\ ~Touched
    /\ line.step = "record" => line.epc \in open[line.dpp]
    /\ line.step = "retired" => carrierIndex[line.epc] = NoDpp

LEMMA SettledStep ==
  ASSUME TypeOK, TablesLag, SettledLookups, Next
  PROVE  SettledLookups'
<1> SUFFICES ASSUME Resolving', ~disturbed'
             PROVE  /\ (line.step = "record" => line.epc \in open[line.dpp])'
                    /\ (line.step = "retired" => carrierIndex[line.epc] = NoDpp)'
  BY DEF SettledLookups, Next, Observe
<1>1. ~Touched' /\ (Resolving => ~disturbed)
  BY DEF Next, Observe
<1>2. ASSUME NEW e \in Epcs, LookUp(e)
      PROVE  /\ (line.step = "record" => line.epc \in open[line.dpp])'
             /\ (line.step = "retired" => carrierIndex[line.epc] = NoDpp)'
  <2>1. UNCHANGED <<carrierIndex, open>> /\ line.epc = e /\ line'.epc = e
    BY <1>2 DEF LookUp, tables, records, TypeOK
  <2>2. IF carrierIndex[e] = NoDpp THEN line'.step = "retired"
        ELSE line'.step = "record" /\ line'.dpp = carrierIndex[e] /\ carrierIndex[e] \in Dpps
    BY <1>2 DEF LookUp, TypeOK
  <2> QED
    BY <2>1, <2>2 DEF TablesLag, IndexedIsOpen
<1>3. ASSUME UNCHANGED <<carrierIndex, open, line>>
      PROVE  /\ (line.step = "record" => line.epc \in open[line.dpp])'
             /\ (line.step = "retired" => carrierIndex[line.epc] = NoDpp)'
  BY <1>1, <1>3 DEF SettledLookups, Resolving
<1>4. ASSUME line'.step \notin {"record", "retired"}
      PROVE  /\ (line.step = "record" => line.epc \in open[line.dpp])'
             /\ (line.step = "retired" => carrierIndex[line.epc] = NoDpp)'
  BY <1>4
<1>5. ASSUME NEW x \in Epcs, Unindex(x)
      PROVE  /\ (line.step = "record" => line.epc \in open[line.dpp])'
             /\ (line.step = "retired" => carrierIndex[line.epc] = NoDpp)'
  <2>1. UNCHANGED <<open, line>> /\ carrierIndex' = [carrierIndex EXCEPT ![x] = NoDpp]
    BY <1>5 DEF Unindex, records
  <2>2. line.epc \in Epcs
    BY <2>1 DEF TypeOK, Resolving
  <2> QED
    BY <1>1, <2>1, <2>2 DEF SettledLookups, Resolving, TypeOK
<1>6. CASE CommitRecord
  <2>1. /\ UNCHANGED <<carrierIndex, line>> /\ writer.step = "close"
        /\ open' = [open EXCEPT ![writer.dpp] = {writer.epc}]
    BY <1>6 DEF CommitRecord, tables
  <2>2. ASSUME line.step = "record" PROVE line.epc \in open'[line.dpp]
    <3>1. line.epc \in open[line.dpp] /\ ~Touched /\ line.dpp \in Dpps
      BY <1>1, <2>2 DEF SettledLookups, Resolving, TypeOK
    <3>2. line.dpp # writer.dpp
      BY <2>1, <3>1 DEF Touched, TablesLag, WriterHolds
    <3> QED
      BY <2>1, <3>1, <3>2 DEF TypeOK
  <2> QED
    BY <1>1, <2>1, <2>2 DEF SettledLookups, Resolving
<1>7. CASE IndexCarrier
  <2>1. /\ UNCHANGED <<open, line>> /\ writer.step = "index"
        /\ carrierIndex' = [carrierIndex EXCEPT ![writer.epc] = writer.dpp]
    BY <1>7 DEF IndexCarrier, records
  <2>2. Resolving /\ ~disturbed
    BY <1>1, <2>1 DEF Resolving
  <2>3. line.epc # writer.epc /\ line.epc \in Epcs
    BY <2>1, <2>2 DEF SettledLookups, Touched, TypeOK
  <2> QED
    BY <2>1, <2>2, <2>3 DEF SettledLookups, TypeOK
<1>8. ASSUME \E d \in Dpps : (\E e \in Epcs : Commission(d, e)) \/ (\E s \in {"active", "retired"} : PatchStatus(d, s))
      PROVE  UNCHANGED <<carrierIndex, open, line>>
  BY <1>8 DEF Commission, PatchStatus, tables, records
<1>9. ASSUME Retire \/ CommissionFails \/ Tick
      PROVE  UNCHANGED <<carrierIndex, open, line>>
  BY <1>9 DEF Retire, CommissionFails, Tick, tables, records
<1>10. ASSUME NEW e \in Epcs, LookUpRetired(e) \/ GetRecord(e)
       PROVE  line'.step \notin {"record", "retired"}
  BY <1>10 DEF LookUpRetired, GetRecord, Done
<1>11. ASSUME NEW reads \in Detections, Accept(reads) \/ Reject(reads)
       PROVE  line'.step \notin {"record", "retired"}
  BY <1>11 DEF Accept, Reject, Done
<1>12. ASSUME CallFails \/ Actuate
       PROVE  line'.step \notin {"record", "retired"}
  BY <1>12 DEF CallFails, Actuate, Done, Waiting
<1>13. CASE WriterSteps
  BY <1>3, <1>5, <1>6, <1>7, <1>8, <1>9, <1>13 DEF WriterSteps
<1>14. CASE LineSteps
  BY <1>2, <1>3, <1>4, <1>9, <1>10, <1>11, <1>12, <1>14 DEF LineSteps
<1> QED
  BY <1>13, <1>14, StepSplits DEF Next

(* A read that no commissioning of its own passport overlaps is answered   *)
(* as the records have it, whatever is commissioned elsewhere and however  *)
(* many requests failed before.                                            *)
THEOREM SettledReadsHold == Spec => SettledReadsAreExact
<1>1. Init => TablesLag /\ SettledLookups
  BY DppAssumption DEF Init, TablesLag, IndexedIsOpen, RetiredIsListed, ListedIsKnown, ListedOnce, WriterHolds,
                       Unlocked, Waiting, Resolving, SettledLookups
<1>2. TypeOK /\ TablesLag /\ [Next]_vars => TablesLag'
  BY LagStep
<1>3. TypeOK /\ TablesLag /\ SettledLookups /\ [Next]_vars => SettledLookups'
  <2> SUFFICES ASSUME TypeOK, TablesLag, SettledLookups, [Next]_vars PROVE SettledLookups'
    OBVIOUS
  <2>1. CASE UNCHANGED vars
    <3>1. UNCHANGED <<carrierIndex, open, line, disturbed>> /\ (Resolving' <=> Resolving)
      BY <2>1 DEF vars, tables, records, Resolving
    <3>2. Touched' <=> Touched
      BY <2>1 DEF vars, records, Touched
    <3> QED
      BY <2>1, <3>1, <3>2 DEF SettledLookups
  <2> QED
    BY <2>1, SettledStep
<1>4. TypeOK /\ TablesLag /\ SettledLookups /\ [Next]_vars => [SettledReadIsExact]_vars
  <2> SUFFICES ASSUME TypeOK, TablesLag, SettledLookups, Next, Resolving, ~disturbed, line' # line
               PROVE  SettledReadIsExact
    BY DEF SettledReadIsExact, Answered, Resolving, vars, Next
  <2> USE DEF SettledReadIsExact, Answered
  <2>1. LineSteps
    BY StepSplits DEF Next, WriterSteps, Commission, PatchStatus, Unindex, Retire,
                      CommissionFails, CommitRecord, IndexCarrier
  <2>2. ASSUME NEW e \in Epcs, LookUp(e) PROVE SettledReadIsExact
    BY <2>2 DEF LookUp, TypeOK
  <2>3. ASSUME NEW e \in Epcs, LookUpRetired(e) PROVE SettledReadIsExact
    <3>1. line.epc = e /\ line.step = "retired" /\ carrierIndex[e] = NoDpp /\ ~Touched
      BY <2>3 DEF LookUpRetired, SettledLookups
    <3>2. CASE retiredCarriers[e] = NoDpp
      <4>1. line'.code = "S4C-IDENT-UNKNOWN"
        BY <2>3, <3>2 DEF LookUpRetired, Done
      <4>2. \A d \in Dpps : e \notin listed[d]
        BY <3>1, <3>2, DppAssumption DEF TablesLag, ListedIsKnown, Writing, Touched
      <4> QED
        BY <3>1, <4>1, <4>2
    <3>3. CASE retiredCarriers[e] # NoDpp
      <4>1. line'.code = "S4C-IDENT-RETIRED" /\ line'.dpp = retiredCarriers[e] /\ retiredCarriers[e] \in Dpps
        BY <2>3, <3>3 DEF LookUpRetired, Done, TypeOK
      <4> QED
        BY <3>1, <4>1 DEF TablesLag, RetiredIsListed
    <3> QED
      BY <3>2, <3>3
  <2>4. ASSUME NEW e \in Epcs, GetRecord(e) PROVE SettledReadIsExact
    <3>1. line.dpp \in Dpps /\ line.epc \in open[line.dpp] /\ line'.dpp = line.dpp
          /\ line'.code \in {"answered", "S4C-IDENT-RETIRED"}
      BY <2>4 DEF GetRecord, Done, SettledLookups, TypeOK
    <3> QED
      BY <3>1 DEF TablesLag, WriterHolds
  <2>5. ASSUME NEW reads \in Detections, Accept(reads) \/ Reject(reads) PROVE FALSE
    BY <2>5 DEF Accept, Reject, Resolving
  <2>6. CASE CallFails
    BY <2>6 DEF CallFails, CallFailures, Done
  <2>7. ~Actuate /\ ~Tick
    BY DEF Actuate, Tick, Resolving
  <2> QED
    BY <2>1, <2>2, <2>3, <2>4, <2>5, <2>6, <2>7 DEF LineSteps
<1> QED
  BY <1>1, <1>2, <1>3, <1>4, TypesHold, PTL DEF Spec, SettledReadsAreExact

=============================================================================
