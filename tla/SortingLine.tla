---------------------------- MODULE SortingLine ----------------------------
(***************************************************************************)
(* A sorting line reads carriers while the store gives passports new ones. *)
(*                                                                         *)
(* The read-zone controls (gateway/readzone.py) decide locally whether a   *)
(* tag may be resolved.  GET /v1/identifiers/{id}/dpp then looks the       *)
(* identifier up in two tables and a record without the store's lock       *)
(* (PassportStore.resolve_carrier), while commission_carrier changes the   *)
(* same tables and the record one statement at a time.  PassportStore has  *)
(* the writes as single steps; here they are taken apart.                  *)
(*                                                                         *)
(* The clock is kept as the time since an identifier was last accepted,    *)
(* which nothing tells apart beyond the suppression window.  The line      *)
(* itself, which is not part of the repository, handles one detection at a *)
(* time, as docs/sorting-integration.md shows it.                          *)
(***************************************************************************)
EXTENDS Integers, Sequences

CONSTANTS
  Dpps,     \* passports; they exist, without carriers, from the start
  NoDpp,    \* None, where a passport could be
  Epcs,     \* well-formed identifiers
  NoEpc,    \* None, where an identifier could be
  BadEpc,   \* an identifier EPC_PATTERN does not match
  Window,   \* suppression_window_ms
  Standing  \* the identifier of an item that stays in the zone

ASSUME DppAssumption == NoDpp \notin Dpps
ASSUME EpcAssumption == NoEpc \notin Epcs /\ BadEpc \notin Epcs /\ NoEpc # BadEpc
ASSUME StandingAssumption == Standing \in Epcs
ASSUME WindowAssumption == Window \in Nat \ {0}

VARIABLES
  carrierIndex,     \* _carrier_index
  retiredCarriers,  \* _retired_carriers
  listed,           \* the identifiers a passport's record lists, open or closed
  open,             \* those it shows as commissioned
  status,           \* its status
  writer,           \* the thread that holds the store's lock
  age,              \* time since _last_seen[epc], Window if longer or never
  line,             \* the detection in work
  seen,             \* what the tables said of its identifier since it began
  disturbed,        \* its owner was given a carrier meanwhile
  sinceHandled,     \* history: time since a call led to a command or a diversion
  backedOff         \* history: identifiers whose call was refused for its rate

tables == <<carrierIndex, retiredCarriers>>
records == <<listed, open, status>>
history == <<sinceHandled, backedOff>>
vars == <<tables, records, writer, age, line, seen, disturbed, history>>

Unlocked == [step |-> "idle", dpp |-> NoDpp, epc |-> NoEpc, todo |-> {}, closing |-> NoEpc]
Waiting == [step |-> "idle", epc |-> NoEpc, dpp |-> NoDpp, code |-> "none"]

-----------------------------------------------------------------------------
(* commission_carrier, a statement at a time. *)

Available(d, e) == carrierIndex[e] \in {NoDpp, d} /\ retiredCarriers[e] \in {NoDpp, d}

Commission(d, e) ==
  /\ writer.step = "idle"
  /\ Available(d, e)
  /\ writer' = [step |-> "close", dpp |-> d, epc |-> e, todo |-> open[d], closing |-> NoEpc]
  /\ UNCHANGED <<tables, records, line, age>>

(* The loop over the open bindings: out of the index, ... *)
Unindex(x) ==
  /\ writer.step = "close" /\ x \in writer.todo
  /\ carrierIndex' = [carrierIndex EXCEPT ![x] = NoDpp]
  /\ writer' = [writer EXCEPT !.step = "retire", !.todo = @ \ {x}, !.closing = x]
  /\ UNCHANGED <<retiredCarriers, records, line, age>>

(* Faulty variant: a closed binding is not remembered. *)
ForgetClosed ==
  /\ writer.step = "retire"
  /\ writer' = [writer EXCEPT !.step = "close", !.closing = NoEpc]
  /\ UNCHANGED <<tables, records, line, age>>

(* ... and into the retired carriers. *)
Retire ==
  /\ writer.step = "retire"
  /\ retiredCarriers' = [retiredCarriers EXCEPT ![writer.closing] = writer.dpp]
  /\ writer' = [writer EXCEPT !.step = "close", !.closing = NoEpc]
  /\ UNCHANGED <<carrierIndex, records, line, age>>

(* The request lacks a member or does not validate: an exception. *)
CommissionFails ==
  /\ writer.step = "close" /\ writer.todo = {}
  /\ writer' = Unlocked
  /\ UNCHANGED <<tables, records, line, age>>

(* _commit: from now on reads see the new record. *)
CommitRecord ==
  /\ writer.step = "close" /\ writer.todo = {}
  /\ listed' = [listed EXCEPT ![writer.dpp] = @ \cup {writer.epc}]
  /\ open' = [open EXCEPT ![writer.dpp] = {writer.epc}]
  /\ writer' = [writer EXCEPT !.step = "index"]
  /\ UNCHANGED <<tables, status, line, age>>

IndexCarrier ==
  /\ writer.step = "index"
  /\ carrierIndex' = [carrierIndex EXCEPT ![writer.epc] = writer.dpp]
  /\ writer' = Unlocked
  /\ UNCHANGED <<retiredCarriers, records, line, age>>

(* PATCH of the status: any write that is a single step for a reader. *)
PatchStatus(d, s) ==
  /\ writer.step = "idle"
  /\ status' = [status EXCEPT ![d] = s]
  /\ UNCHANGED <<tables, listed, open, writer, line, age>>

-----------------------------------------------------------------------------
(* The read zone. *)

WEAK_SIGNAL_DBM == -70
NoRssi == 0       \* no rssiDbm in the read; dBm values are negative
Tags == [epc : Epcs \cup {BadEpc}, rssiDbm : {NoRssi, WEAK_SIGNAL_DBM, WEAK_SIGNAL_DBM - 1}]
Detections == {<<>>} \cup {<<t>> : t \in Tags} \cup {<<t, u>> : t, u \in Tags}

Weak(t) == t.rssiDbm # NoRssi /\ t.rssiDbm < WEAK_SIGNAL_DBM

(* ReadZone.evaluate: the verdict on what one read window detected. *)
Evaluate(reads) ==
  CASE reads = <<>> -> "S4C-IDENT-UNKNOWN"
    [] Len(reads) > 1 -> "S4C-IDENT-AMBIGUOUS"
    [] Len(reads) = 1 /\ reads[1].epc = BadEpc -> "S4C-IDENT-MALFORMED"
    [] Len(reads) = 1 /\ reads[1].epc # BadEpc /\ Weak(reads[1]) -> "S4C-READ-WEAK-SIGNAL"
    [] Len(reads) = 1 /\ reads[1].epc # BadEpc /\ ~Weak(reads[1]) ->
         IF age[reads[1].epc] < Window THEN "S4C-READ-SUPPRESSED-DUPLICATE" ELSE "accepted"

(* What a call can fail with: of the failures of the catalogue that are    *)
(* not the caller's own request, one for each safe action it assigns.      *)
CallFailures ==
  {"S4C-AUTH-EXPIRED-TOKEN", "S4C-AUTHZ-OPERATION-FORBIDDEN", "S4C-DEP-UNAVAILABLE", "S4C-RATE-LIMITED"}

(* reasons.safe_action: the action the released catalogue assigns to each  *)
(* code that can reach a sorting line.                                     *)
safe_action(code) ==
  CASE code = "S4C-READ-SUPPRESSED-DUPLICATE" -> "noCommand"
    [] code = "S4C-AUTH-EXPIRED-TOKEN" -> "retryOnceThenDivert"
    [] code = "S4C-AUTHZ-OPERATION-FORBIDDEN" -> "divertAndAlert"
    [] code = "S4C-RATE-LIMITED" -> "backOff"
    [] code \in {"S4C-IDENT-UNKNOWN", "S4C-IDENT-AMBIGUOUS", "S4C-IDENT-MALFORMED", "S4C-IDENT-RETIRED",
                 "S4C-READ-WEAK-SIGNAL", "S4C-DEP-UNAVAILABLE"} -> "divert"

DIVERTING_ACTIONS == {"divert", "divertAndAlert", "retryOnceThenDivert"}
diverts(code) == safe_action(code) \in DIVERTING_ACTIONS

Done(epc, dpp, code) == [step |-> "done", epc |-> epc, dpp |-> dpp, code |-> code]

(* Accepted: the time is remembered before the service is called. *)
Accept(reads) ==
  /\ line.step = "idle"
  /\ Evaluate(reads) = "accepted"
  /\ age' = [age EXCEPT ![reads[1].epc] = 0]
  /\ line' = [step |-> "index", epc |-> reads[1].epc, dpp |-> NoDpp, code |-> "none"]
  /\ UNCHANGED <<tables, records, writer>>

(* Faulty variants: a repeat, or a weak read, starts the window anew. *)
RejectSliding(reads) ==
  /\ line.step = "idle"
  /\ Evaluate(reads) # "accepted"
  /\ age' = IF Evaluate(reads) = "S4C-READ-SUPPRESSED-DUPLICATE"
            THEN [age EXCEPT ![reads[1].epc] = 0] ELSE age
  /\ line' = Done(IF Len(reads) = 1 THEN reads[1].epc ELSE NoEpc, NoDpp, Evaluate(reads))
  /\ UNCHANGED <<tables, records, writer>>

RejectRecordingWeak(reads) ==
  /\ line.step = "idle"
  /\ Evaluate(reads) # "accepted"
  /\ age' = IF Evaluate(reads) = "S4C-READ-WEAK-SIGNAL"
            THEN [age EXCEPT ![reads[1].epc] = 0] ELSE age
  /\ line' = Done(IF Len(reads) = 1 THEN reads[1].epc ELSE NoEpc, NoDpp, Evaluate(reads))
  /\ UNCHANGED <<tables, records, writer>>

Reject(reads) ==
  /\ line.step = "idle"
  /\ Evaluate(reads) # "accepted"
  /\ line' = Done(IF Len(reads) = 1 THEN reads[1].epc ELSE NoEpc, NoDpp, Evaluate(reads))
  /\ UNCHANGED <<tables, records, writer, age>>

-----------------------------------------------------------------------------
(* resolve_carrier, a lookup at a time. *)

(* Faulty variants: the retired carriers are asked first; a miss is used   *)
(* as a passport.                                                          *)
LookUpRetiredFirst(e) ==
  /\ line.step = "index" /\ line.epc = e
  /\ line' = IF retiredCarriers[e] # NoDpp THEN Done(e, retiredCarriers[e], "S4C-IDENT-RETIRED")
             ELSE IF carrierIndex[e] = NoDpp THEN Done(e, NoDpp, "S4C-IDENT-UNKNOWN")
             ELSE [line EXCEPT !.step = "record", !.dpp = carrierIndex[e]]
  /\ UNCHANGED <<tables, records, writer, age>>

LookUpUnchecked(e) ==
  /\ line.step = "index" /\ line.epc = e
  /\ line' = [line EXCEPT !.step = "record", !.dpp = carrierIndex[e]]
  /\ UNCHANGED <<tables, records, writer, age>>

LookUp(e) ==
  /\ line.step = "index" /\ line.epc = e
  /\ line' = IF carrierIndex[e] = NoDpp THEN [line EXCEPT !.step = "retired"]
             ELSE [line EXCEPT !.step = "record", !.dpp = carrierIndex[e]]
  /\ UNCHANGED <<tables, records, writer, age>>

LookUpRetired(e) ==
  /\ line.step = "retired" /\ line.epc = e
  /\ line' = IF retiredCarriers[e] = NoDpp THEN Done(e, NoDpp, "S4C-IDENT-UNKNOWN")
             ELSE Done(e, retiredCarriers[e], "S4C-IDENT-RETIRED")
  /\ UNCHANGED <<tables, records, writer, age>>

GetRecord(e) ==
  /\ line.step = "record" /\ line.epc = e
  /\ line' = Done(e, line.dpp, IF status[line.dpp] = "retired" THEN "S4C-IDENT-RETIRED" ELSE "answered")
  /\ UNCHANGED <<tables, records, writer, age>>

Resolving == line.step \in {"index", "retired", "record"}

(* The caller is refused, or the line gives up waiting for the answer. *)
CallFails ==
  /\ Resolving
  /\ \E code \in CallFailures : line' = Done(line.epc, NoDpp, code)
  /\ UNCHANGED <<tables, records, writer, age>>

(* The line commands, diverts or does nothing, and turns to the next item. *)
Actuate ==
  /\ line.step = "done"
  /\ line' = Waiting
  /\ UNCHANGED <<tables, records, writer, age>>

Older(t) == IF t < Window THEN t + 1 ELSE t

(* History of an identifier is kept for as long as its window lasts. *)
Kept(e, t) == IF age'[e] < Window THEN t ELSE Window

Tick ==
  /\ age' = [e \in Epcs |-> Older(age[e])]
  /\ sinceHandled' = [e \in Epcs |-> Kept(e, Older(sinceHandled[e]))]
  /\ backedOff' = {e \in backedOff : age'[e] < Window}
  /\ UNCHANGED <<tables, records, writer, line>>

-----------------------------------------------------------------------------
(* What the two tables say of an identifier at one instant. *)
Fact(e) ==
  IF carrierIndex[e] # NoDpp THEN <<"open", carrierIndex[e]>>
  ELSE IF retiredCarriers[e] # NoDpp THEN <<"closed", retiredCarriers[e]>>
  ELSE <<"unknown", NoDpp>>

(* A passport that lists the identifier, or is to list it, is written. *)
Touched == writer.step # "idle" /\ (line.epc = writer.epc \/ line.epc \in listed[writer.dpp])

(* Every instant between the acceptance of a detection and its answer is   *)
(* taken down.                                                             *)
Observe ==
  /\ seen' = IF Resolving' THEN (IF Resolving THEN seen ELSE {}) \cup {Fact(line.epc)'} ELSE {}
  /\ disturbed' = (Resolving' /\ ((Resolving /\ disturbed) \/ Touched'))

(* What became of an accepted identifier is taken down when its call ends. *)
Handled(code) == code = "answered" \/ diverts(code)
Accepted(e) == line.step = "idle" /\ line'.step = "index" /\ line'.epc = e
Called(e) == Resolving /\ line'.step = "done" /\ line.epc = e
Remember ==
  /\ sinceHandled' = [e \in Epcs |-> Kept(e,
       CASE Called(e) /\ Handled(line'.code) -> 0
         [] Called(e) /\ ~Handled(line'.code) -> Window
         [] ~Called(e) -> sinceHandled[e])]
  /\ backedOff' = {e \in Epcs :
       /\ age'[e] < Window
       /\ IF Called(e) THEN line'.code = "S4C-RATE-LIMITED" ELSE e \in backedOff /\ ~Accepted(e)}

Init ==
  /\ carrierIndex = [e \in Epcs |-> NoDpp]
  /\ retiredCarriers = [e \in Epcs |-> NoDpp]
  /\ listed = [d \in Dpps |-> {}]
  /\ open = [d \in Dpps |-> {}]
  /\ status = [d \in Dpps |-> "active"]
  /\ writer = Unlocked
  /\ age = [e \in Epcs |-> Window]
  /\ line = Waiting
  /\ seen = {}
  /\ disturbed = FALSE
  /\ sinceHandled = [e \in Epcs |-> Window]
  /\ backedOff = {}

Step ==
  \/ \E d \in Dpps : (\E e \in Epcs : Commission(d, e)) \/ (\E s \in {"active", "retired"} : PatchStatus(d, s))
  \/ \E e \in Epcs : Unindex(e) \/ LookUp(e) \/ LookUpRetired(e) \/ GetRecord(e)
  \/ Retire \/ CommissionFails \/ CommitRecord \/ IndexCarrier
  \/ \E reads \in Detections : Accept(reads) \/ Reject(reads)
  \/ CallFails \/ Actuate

Next == ((Step /\ Remember) \/ Tick) /\ Observe

(* Time passes, the line goes on and its calls end; the item that carries  *)
(* Standing lies in the zone, detected again and again, and not every call *)
(* about it fails.                                                         *)
Fairness ==
  /\ WF_vars(Tick /\ Observe)
  /\ WF_vars((Actuate \/ \E e \in Epcs : LookUp(e) \/ LookUpRetired(e) \/ GetRecord(e)) /\ Remember /\ Observe)
  /\ SF_vars(Accept(<<[epc |-> Standing, rssiDbm |-> NoRssi]>>) /\ Remember /\ Observe)
  /\ SF_vars(LookUp(Standing) /\ Remember /\ Observe)
  /\ SF_vars(GetRecord(Standing) /\ Remember /\ Observe)

Spec == Init /\ [][Next]_vars
FairSpec == Spec /\ Fairness

-----------------------------------------------------------------------------
(* Properties. *)

(* Every variable stays inside its type. *)
TypeOK ==
  /\ carrierIndex \in [Epcs -> Dpps \cup {NoDpp}]
  /\ retiredCarriers \in [Epcs -> Dpps \cup {NoDpp}]
  /\ listed \in [Dpps -> SUBSET Epcs] /\ open \in [Dpps -> SUBSET Epcs]
  /\ status \in [Dpps -> {"active", "retired"}]
  /\ writer = Unlocked \/
     writer \in [step : {"close", "retire", "index"}, dpp : Dpps, epc : Epcs,
                 todo : SUBSET Epcs, closing : Epcs \cup {NoEpc}]
  /\ writer.step = "retire" => writer.closing \in Epcs
  /\ age \in [Epcs -> 0..Window] /\ sinceHandled \in [Epcs -> 0..Window] /\ backedOff \subseteq Epcs
  /\ line \in [step : {"idle", "index", "retired", "record", "done"},
               epc : Epcs \cup {NoEpc, BadEpc}, dpp : Dpps \cup {NoDpp},
               code : CallFailures \cup
                 {"none", "answered", "S4C-IDENT-UNKNOWN", "S4C-IDENT-AMBIGUOUS", "S4C-IDENT-RETIRED",
                  "S4C-IDENT-MALFORMED", "S4C-READ-WEAK-SIGNAL", "S4C-READ-SUPPRESSED-DUPLICATE"}]
  /\ Resolving => line.epc \in Epcs
  /\ line.step = "record" => line.dpp \in Dpps

(* A call is answered. *)
Answered(code) == Resolving /\ line'.step = "done" /\ line'.code = code

AnswerWasTrue ==
  /\ Answered("answered") => <<"open", line'.dpp>> \in seen
  /\ Answered("S4C-IDENT-UNKNOWN") => <<"unknown", NoDpp>> \in seen
  /\ Answered("S4C-IDENT-RETIRED") =>
       <<"closed", line'.dpp>> \in seen
         \/ (<<"open", line'.dpp>> \in seen /\ status[line'.dpp] = "retired")

(* The unlocked lookups cost nothing: each answer is what both tables said *)
(* at one and the same instant between the call and the answer, whatever   *)
(* was commissioned meanwhile.                                             *)
AnswersWereTrue == [][AnswerWasTrue]_vars

SettledReadIsExact ==
  ~disturbed =>
    /\ Answered("answered") => line.epc \in open[line'.dpp]
    /\ Answered("S4C-IDENT-UNKNOWN") => \A d \in Dpps : line.epc \notin listed[d]
    /\ Answered("S4C-IDENT-RETIRED") => line.epc \in listed[line'.dpp]

(* The tables agree with the records for a read that no commissioning of   *)
(* its own passport overlaps: it is answered with the passport that shows  *)
(* the identifier as commissioned, and an identifier any record lists is   *)
(* never unknown, also after requests that failed half way.                *)
SettledReadsAreExact == [][SettledReadIsExact]_vars

(* A detection ends with neither a command nor a diversion.                *)
Passes == line.step # "done" /\ line'.step = "done" /\ ~Handled(line'.code)

NothingSlips ==
  Passes =>
    \/ line'.code = "S4C-RATE-LIMITED"
    \/ /\ line'.code = "S4C-READ-SUPPRESSED-DUPLICATE"
       /\ sinceHandled[line'.epc] < Window \/ line'.epc \in backedOff

(* "A suppressed repeat is not an error and produces no new command"       *)
(* (readzone.py:77).  An item passes with neither a command nor a          *)
(* diversion in two cases only: the service refuses the call for its rate, *)
(* where the catalogue says back off; or the read is a repeat, and the     *)
(* call about its identifier was either refused for its rate or led, less  *)
(* than a window ago, to a command or a diversion.  Time is taken before   *)
(* the call (readzone.py:80), so a read of an item that was only refused   *)
(* is suppressed as well, for as long as the window lasts.                 *)
NothingSlipsThrough == [][NothingSlips]_vars

(* An item that stays in the zone is not suppressed for ever: while its    *)
(* carrier is commissioned and its passport is active, the line is allowed *)
(* again and again to command it.                                          *)
StandingItemIsCommanded ==
  <>[](\E d \in Dpps : carrierIndex[Standing] = d /\ status[d] = "active")
    => []<>(line.step = "done" /\ line.epc = Standing /\ line.code = "answered")

=============================================================================
