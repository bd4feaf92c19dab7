------------------------- MODULE ExchangeApiProofs -------------------------
(***************************************************************************)
(* Theorems about the write handlers, for every number of threads, every   *)
(* set of calls and keys, and however often calls are sent again.          *)
(***************************************************************************)
EXTENDS ExchangeApi, TLAPS

(* What a step may do to a handler, written out. *)
HandlerType == [step : Steps, call : Calls, tag : Nat, response : Response]

LEMMA HandlerParts ==
  ASSUME TypeOK, NEW t \in Threads
  PROVE  /\ handler[t] \in HandlerType
         /\ handler[t].step \in Steps /\ handler[t].call \in Calls /\ handler[t].call \in Call
         /\ handler[t].tag \in Nat /\ handler[t].response \in Response
<1>1. handler[t] \in HandlerType
  BY DEF TypeOK, HandlerType
<1> QED
  BY <1>1, CallAssumption DEF HandlerType

LEMMA AnswerEffect ==
  ASSUME TypeOK, NEW t \in Threads, NEW r \in Response, Answer(t, r)
  PROVE  /\ handler' \in [Threads -> HandlerType]
         /\ handler'[t].call = handler[t].call /\ handler'[t].response = r
         /\ handler'[t].step = IF Keyed(handler[t].call) /\ r.status = "ok" THEN "remember" ELSE "reply"
         /\ \A u \in Threads \ {t} : handler'[u] = handler[u]
<1> DEFINE next == IF Keyed(handler[t].call) /\ r.status = "ok" THEN "remember" ELSE "reply"
<1>1. handler \in [Threads -> HandlerType]
  BY DEF TypeOK, HandlerType
<1>2. next \in Steps
  BY DEF Steps
<1>3. handler' = [handler EXCEPT ![t].step = next, ![t].response = r]
  BY DEF Answer
<1> HIDE DEF next
<1>4. /\ handler' \in [Threads -> HandlerType]
      /\ handler'[t].call = handler[t].call /\ handler'[t].response = r /\ handler'[t].step = next
      /\ \A u \in Threads \ {t} : handler'[u] = handler[u]
  BY <1>1, <1>2, <1>3 DEF HandlerType
<1> QED
  BY <1>4 DEF next

LEMMA Responses ==
  /\ \A id \in Ids \cup {NoId}, v \in Nat \ {0} :
       /\ Accepted(id, v) \in Response /\ Accepted(id, v).status = "ok"
       /\ Accepted(id, v).id = id /\ Accepted(id, v).version = v
  /\ \A s \in {"conflict", "duplicate", "stale"} :
       Refused(s) \in Response /\ Refused(s).status # "ok"
  BY DEF Accepted, Refused, Response

LEMMA IdsGiven ==
  ASSUME TypeOK, NEW c \in Calls
  PROVE  /\ IdOf(c) \in Ids /\ IdOf(c) # NoId /\ NoId \notin Ids
         /\ c.op = "carrier" => c.id \in Ids
<1>1. c \in Call /\ c.id \in Given \cup {NoId}
  BY CallAssumption DEF Call
<1>2. Len(written) + 1 \in Nat
  BY DEF TypeOK
<1>3. <<"urn", Len(written) + 1>> \in Generated
  BY <1>2 DEF Generated
<1>4. \A x \in Ids : x # NoId
  BY DEF Ids, Given, Generated, NoId
<1>5. IdOf(c) \in Ids
  BY <1>1, <1>3 DEF IdOf, Ids
<1>6. c.op = "carrier" => c.id \in Ids
  BY <1>1, CallAssumption DEF Ids
<1> QED
  BY <1>4, <1>5, <1>6

(* The record of a write that thread t makes. *)
Made(t, id, v) == [call |-> handler[t].call, id |-> id, version |-> v, tag |-> handler[t].tag]

(* The four writes come to this: nothing is written and the answer is the  *)
(* current version or a refusal, or one record is appended.                *)
Repeats(t, op) ==
  /\ op = "event" /\ IdOf(handler[t].call) \in Identified("event")
  /\ Answer(t, Accepted(IdOf(handler[t].call), version))
  /\ UNCHANGED <<version, written>>
Refuses(t) ==
  /\ Answer(t, Refused("duplicate")) \/ Answer(t, Refused("stale"))
  /\ UNCHANGED <<version, written>>
Makes(t, op, id, v) ==
  /\ op \in {"create", "event"} => id \notin Identified(op)
  /\ op = "create" => v = 1 /\ UNCHANGED version
  /\ op # "create" => v = version + 1 /\ version' = v
  /\ op = "patch" => handler[t].tag = version
  /\ op # "patch" => id # NoId
  /\ Answer(t, Accepted(id, v))
  /\ written' = Append(written, Made(t, id, v))

LEMMA WriteCases ==
  ASSUME TypeOK, NEW t \in Threads, Write(t)
  PROVE  LET op == handler[t].call.op
         IN  \/ Repeats(t, op) \/ Refuses(t)
             \/ \E id \in Ids \cup {NoId}, v \in Nat \ {0} : Makes(t, op, id, v)
<1> DEFINE c == handler[t].call
           op == c.op
<1>1. c \in Calls /\ version \in Nat \ {0}
  BY HandlerParts DEF TypeOK
<1>2. IdOf(c) \in Ids /\ IdOf(c) # NoId /\ NoId \notin Ids /\ (op = "carrier" => c.id \in Ids)
  BY <1>1, IdsGiven
<1>3. version + 1 \in Nat \ {0} /\ 1 \in Nat \ {0}
  BY <1>1
<1>4. WriteCreate(t, c) \/ WriteEvent(t, c) \/ WriteCarrier(t, c) \/ WritePatch(t, c)
  BY DEF Write
<1> HIDE DEF c
<1>5. CASE WriteCreate(t, c)
  <2>1. Refuses(t) \/ Makes(t, op, IdOf(c), 1)
    BY <1>2, <1>5 DEF WriteCreate, Refuses, Makes, Commit, Made
  <2> QED
    BY <1>2, <1>3, <2>1 DEF c
<1>6. CASE WriteEvent(t, c)
  <2>1. Repeats(t, op) \/ Makes(t, op, IdOf(c), version + 1)
    BY <1>2, <1>6 DEF WriteEvent, Repeats, Makes, Commit, Made, c
  <2> QED
    BY <1>2, <1>3, <2>1 DEF c
<1>7. CASE WriteCarrier(t, c)
  <2>1. Makes(t, op, c.id, version + 1) /\ c.id \in Ids
    BY <1>2, <1>7 DEF WriteCarrier, Makes, Commit, Made
  <2> QED
    BY <1>3, <2>1 DEF c
<1>8. CASE WritePatch(t, c)
  <2>1. Refuses(t) \/ Makes(t, op, NoId, version + 1)
    BY <1>8 DEF WritePatch, Refuses, Makes, Commit, Made, Current
  <2> QED
    BY <1>3, <2>1 DEF c
<1> QED
  BY <1>4, <1>5, <1>6, <1>7, <1>8

LEMMA Grows ==
  ASSUME TypeOK, NEW x, written' = Append(written, x)
  PROVE  /\ DOMAIN written' = DOMAIN written \cup {Len(written) + 1}
         /\ Len(written) + 1 \notin DOMAIN written
         /\ \A i \in DOMAIN written : written'[i] = written[i]
         /\ written'[Len(written) + 1] = x
<1>1. written \in Seq(Committed)
  BY DEF TypeOK
<1> QED
  BY <1>1

-----------------------------------------------------------------------------
(* Type correctness. *)

(* Only requests with a key are looked up and remembered, and only after a *)
(* success.                                                                *)
KeyedSteps ==
  \A t \in Threads :
    /\ handler[t].step \in {"lookup", "remember"} => Keyed(handler[t].call)
    /\ handler[t].step = "remember" => handler[t].response.status = "ok"

LEMMA ScopesOfCalls == \A c \in Calls : Keyed(c) => Scope(c) \in Scopes
  BY DEF Scopes

LEMMA KnownIsResponse ==
  ASSUME TypeOK, NEW c \in Calls, Scope(c) \in DOMAIN remembered
  PROVE  Known(c) \in Response
<1>1. remembered[Scope(c)].response \in Response
  BY DEF TypeOK
<1> QED
  BY <1>1, Responses DEF Known

LEMMA InitTyped == Init => TypeOK /\ KeyedSteps
<1> SUFFICES ASSUME Init PROVE TypeOK /\ KeyedSteps
  OBVIOUS
<1>1. (CHOOSE c \in Calls : TRUE) \in Calls
  BY CallAssumption
<1>2. NoResponse \in Response
  BY Responses DEF NoResponse
<1>3. Idle \in HandlerType /\ Idle.step = "free"
  BY <1>1, <1>2 DEF Idle, HandlerType, Steps, Free
<1>4. handler \in [Threads -> HandlerType] /\ \A t \in Threads : handler[t].step = "free"
  BY <1>3 DEF Init
<1>5. KeyedSteps
  BY <1>4 DEF KeyedSteps
<1>6. remembered \in [DOMAIN remembered -> [body : Bodies, response : Response]] /\ DOMAIN remembered \subseteq Scopes
  BY DEF Init
<1>7. written \in Seq(Committed) /\ \A i \in DOMAIN written : written[i].call.op # "patch" => written[i].id # NoId
  BY DEF Init
<1>8. seen \in [Calls -> Nat] /\ sends \in 0..MaxSends /\ replies \in [Calls -> SUBSET Response]
      /\ overlapped \subseteq Scopes /\ version \in Nat \ {0}
  BY SendsAssumption DEF Init
<1> QED
  BY <1>4, <1>5, <1>6, <1>7, <1>8 DEF TypeOK, HandlerType

LEMMA WriteTyped ==
  ASSUME TypeOK, KeyedSteps, NEW t \in Threads, Write(t)
  PROVE  TypeOK' /\ KeyedSteps'
<1> DEFINE c == handler[t].call
<1>1. c \in Calls /\ handler[t].tag \in Nat
  BY HandlerParts
<1>2. UNCHANGED <<remembered, seen, sends, replies, overlapped>>
  BY DEF Write
<1>3. ASSUME NEW r \in Response, Answer(t, r)
      PROVE  handler' \in [Threads -> HandlerType] /\ KeyedSteps'
  <2>1. /\ handler' \in [Threads -> HandlerType]
        /\ handler'[t].call = handler[t].call /\ handler'[t].response = r
        /\ handler'[t].step = IF Keyed(handler[t].call) /\ r.status = "ok" THEN "remember" ELSE "reply"
        /\ \A u \in Threads \ {t} : handler'[u] = handler[u]
    BY <1>3, AnswerEffect
  <2> QED
    BY <2>1 DEF KeyedSteps, Keyed
<1>4. ASSUME UNCHANGED <<version, written>>, NEW r \in Response, Answer(t, r)
      PROVE  TypeOK' /\ KeyedSteps'
  BY <1>2, <1>3, <1>4 DEF TypeOK, HandlerType
<1>5. CASE Repeats(t, c.op)
  <2>1. Accepted(IdOf(c), version) \in Response
    BY <1>1, IdsGiven, Responses DEF TypeOK
  <2> QED
    BY <1>4, <1>5, <2>1 DEF Repeats
<1>6. CASE Refuses(t)
  BY <1>4, <1>6, Responses DEF Refuses
<1>7. ASSUME NEW id \in Ids \cup {NoId}, NEW v \in Nat \ {0}, Makes(t, c.op, id, v)
      PROVE  TypeOK' /\ KeyedSteps'
  <2>1. handler' \in [Threads -> HandlerType] /\ KeyedSteps'
    BY <1>3, <1>7, Responses DEF Makes
  <2>2. version' \in Nat \ {0}
    BY <1>7 DEF Makes, TypeOK
  <2>3. Made(t, id, v) \in Committed /\ Made(t, id, v).call = c /\ Made(t, id, v).id = id
    BY <1>1 DEF Made, Committed
  <2>4. written' = Append(written, Made(t, id, v)) /\ (c.op # "patch" => id # NoId)
    BY <1>7 DEF Makes
  <2> HIDE DEF c
  <2>5. written' \in Seq(Committed)
    BY <2>3, <2>4 DEF TypeOK
  <2>6. \A i \in DOMAIN written' : written'[i].call.op # "patch" => written'[i].id # NoId
    BY <2>3, <2>4, Grows DEF TypeOK
  <2> QED
    BY <1>2, <2>1, <2>2, <2>5, <2>6 DEF TypeOK, HandlerType
<1> QED
  BY <1>5, <1>6, <1>7, WriteCases

LEMMA TypeStep ==
  ASSUME TypeOK, KeyedSteps, [Next]_vars
  PROVE  TypeOK' /\ KeyedSteps'
<1>0. handler \in [Threads -> HandlerType]
  BY DEF TypeOK, HandlerType
<1>1. ASSUME NEW c \in Calls, Read(c)
      PROVE  TypeOK' /\ KeyedSteps'
  BY <1>1 DEF Read, TypeOK, KeyedSteps
<1>2. ASSUME NEW t \in Threads, NEW c \in Calls, Send(t, c)
      PROVE  TypeOK' /\ KeyedSteps'
  <2> DEFINE w == [step |-> IF Keyed(c) THEN "lookup" ELSE "write",
                   call |-> c, tag |-> seen[c], response |-> NoResponse]
  <2>1. w \in HandlerType /\ w.call = c /\ w.step = IF Keyed(c) THEN "lookup" ELSE "write"
    <3>1. NoResponse \in Response /\ seen[c] \in Nat
      BY Responses DEF NoResponse, TypeOK
    <3> QED
      BY <3>1 DEF HandlerType, Steps
  <2>2. handler' = [handler EXCEPT ![t] = w] /\ sends' = sends + 1 /\ sends < MaxSends
    BY <1>2 DEF Send
  <2> HIDE DEF w
  <2>3. handler' \in [Threads -> HandlerType] /\ KeyedSteps'
    BY <1>0, <2>1, <2>2 DEF KeyedSteps
  <2>4. sends' \in 0..MaxSends /\ overlapped' \subseteq Scopes
    BY <1>2, <2>2, SendsAssumption DEF Send, TypeOK
  <2> QED
    BY <1>2, <2>3, <2>4 DEF Send, TypeOK, HandlerType
<1>3. ASSUME NEW t \in Threads, Lookup(t)
      PROVE  TypeOK' /\ KeyedSteps'
  <2> DEFINE c == handler[t].call
             w == IF Scope(c) \in DOMAIN remembered
                  THEN [handler[t] EXCEPT !.step = "reply", !.response = Known(c)]
                  ELSE [handler[t] EXCEPT !.step = "write"]
  <2>1. c \in Calls /\ handler[t] \in HandlerType
    BY HandlerParts
  <2>2. w \in HandlerType /\ w.step \in {"reply", "write"}
    BY <2>1, KnownIsResponse DEF HandlerType, Steps
  <2>3. handler' = [handler EXCEPT ![t] = w]
    BY <1>3 DEF Lookup
  <2> HIDE DEF w
  <2>4. handler' \in [Threads -> HandlerType] /\ KeyedSteps'
    BY <1>0, <2>2, <2>3 DEF KeyedSteps
  <2> QED
    BY <1>3, <2>4 DEF Lookup, TypeOK, HandlerType
<1>4. ASSUME NEW t \in Threads, Write(t)
      PROVE  TypeOK' /\ KeyedSteps'
  BY <1>4, WriteTyped
<1>5. ASSUME NEW t \in Threads, Remember(t)
      PROVE  TypeOK' /\ KeyedSteps'
  <2> DEFINE c == handler[t].call
             kept == [body |-> c.body, response |-> handler[t].response]
  <2>1. c \in Calls /\ c \in Call /\ handler[t].response \in Response /\ Keyed(c)
    BY <1>5, HandlerParts DEF Remember, At, KeyedSteps
  <2>2. kept \in [body : Bodies, response : Response] /\ Scope(c) \in Scopes
    BY <2>1, ScopesOfCalls DEF Call
  <2>3. remembered' = [s \in DOMAIN remembered \cup {Scope(c)} |-> IF s = Scope(c) THEN kept ELSE remembered[s]]
    BY <1>5 DEF Remember
  <2> HIDE DEF c, kept
  <2>4. /\ remembered' \in [DOMAIN remembered' -> [body : Bodies, response : Response]]
        /\ DOMAIN remembered' \subseteq Scopes
    BY <2>2, <2>3 DEF TypeOK
  <2>5. handler' = [handler EXCEPT ![t].step = "reply"]
    BY <1>5 DEF Remember
  <2>6. handler' \in [Threads -> HandlerType] /\ KeyedSteps'
    BY <1>0, <2>5 DEF KeyedSteps, HandlerType, Steps
  <2> QED
    BY <1>5, <2>4, <2>6 DEF Remember, TypeOK, HandlerType
<1>6. ASSUME NEW t \in Threads, Reply(t)
      PROVE  TypeOK' /\ KeyedSteps'
  <2>1. Idle \in HandlerType /\ Idle.step = "free"
    <3>1. (CHOOSE c \in Calls : TRUE) \in Calls
      BY CallAssumption
    <3> QED
      BY <3>1, Responses DEF Idle, HandlerType, Steps, Free, NoResponse
  <2>2. handler' = [handler EXCEPT ![t] = Idle]
    BY <1>6 DEF Reply
  <2>3. handler' \in [Threads -> HandlerType] /\ KeyedSteps'
    BY <1>0, <2>1, <2>2 DEF KeyedSteps
  <2>4. replies' \in [Calls -> SUBSET Response]
    BY <1>6, HandlerParts DEF Reply, TypeOK
  <2> QED
    BY <1>6, <2>3, <2>4 DEF Reply, TypeOK, HandlerType
<1>7. CASE UNCHANGED vars
  BY <1>7 DEF vars, TypeOK, KeyedSteps
<1> QED
  BY <1>1, <1>2, <1>3, <1>4, <1>5, <1>6, <1>7 DEF Next, Handle

LEMMA TypesHold == Spec => [](TypeOK /\ KeyedSteps)
  BY InitTyped, TypeStep, PTL DEF Spec

(* Every reachable state is inside the types; every passport and event has *)
(* an identifier, given or generated.                                      *)
THEOREM TypeCorrect == Spec => []TypeOK
  BY TypesHold, PTL

-----------------------------------------------------------------------------
(* What is written. *)

(* A step writes nothing, or one record as WriteCases has it. *)
LEMMA StepWrites ==
  ASSUME TypeOK, [Next]_vars
  PROVE  \/ UNCHANGED <<version, written>>
         \/ \E t \in Threads, id \in Ids \cup {NoId}, v \in Nat \ {0} :
              Makes(t, handler[t].call.op, id, v)
<1>1. ASSUME NEW t \in Threads, Write(t)
      PROVE  \/ UNCHANGED <<version, written>>
             \/ \E id \in Ids \cup {NoId}, v \in Nat \ {0} : Makes(t, handler[t].call.op, id, v)
  BY <1>1, WriteCases DEF Repeats, Refuses
<1> QED
  BY <1>1 DEF Next, Handle, vars, Read, Send, Lookup, Remember, Reply

(* The versions written are those the passport went through, each by one   *)
(* write, creations of other passports aside; a patch is of the version    *)
(* its client read.                                                        *)
VersionsOnce ==
  \A i \in DOMAIN written : written[i].call.op # "create" =>
    /\ written[i].version <= version
    /\ written[i].call.op = "patch" => written[i].version = written[i].tag + 1
    /\ \A j \in DOMAIN written :
         j # i /\ written[j].call.op # "create" => written[j].version # written[i].version

LEMMA WrittenStep ==
  ASSUME TypeOK, IdentifiersOnce, VersionsOnce, [Next]_vars
  PROVE  IdentifiersOnce' /\ VersionsOnce'
<1>1. CASE UNCHANGED <<version, written>>
  BY <1>1 DEF IdentifiersOnce, VersionsOnce
<1>2. ASSUME NEW t \in Threads, NEW id \in Ids \cup {NoId}, NEW v \in Nat \ {0},
             Makes(t, handler[t].call.op, id, v)
      PROVE  IdentifiersOnce' /\ VersionsOnce'
  <2> DEFINE last == Len(written) + 1
             x == Made(t, id, v)
  <2>1. /\ DOMAIN written' = DOMAIN written \cup {last} /\ last \notin DOMAIN written
        /\ \A i \in DOMAIN written : written'[i] = written[i]
        /\ written'[last] = x
    BY <1>2, Grows DEF Makes
  <2>2. x.call = handler[t].call /\ x.id = id /\ x.version = v /\ x.tag = handler[t].tag
    BY DEF Made
  <2> HIDE DEF last, x
  <2>3. IdentifiersOnce'
    <3> SUFFICES ASSUME NEW i \in DOMAIN written', NEW j \in DOMAIN written',
                        written'[i].call.op = written'[j].call.op,
                        written'[i].call.op \in {"create", "event"},
                        written'[i].id = written'[j].id
                 PROVE  i = j
      BY DEF IdentifiersOnce
    <3>1. x.call.op \in {"create", "event"} =>
            \A k \in DOMAIN written : written[k].call.op = x.call.op => written[k].id # x.id
      BY <1>2, <2>2 DEF Makes, Identified
    <3>2. CASE i \in DOMAIN written /\ j \in DOMAIN written
      BY <2>1, <3>2 DEF IdentifiersOnce
    <3>3. CASE i = last /\ j \in DOMAIN written
      BY <2>1, <3>1, <3>3
    <3>4. CASE j = last /\ i \in DOMAIN written
      BY <2>1, <3>1, <3>4
    <3> QED
      BY <2>1, <3>2, <3>3, <3>4
  <2>4. version' = version \/ version' = version + 1
    BY <1>2 DEF Makes
  <2>5. version \in Nat /\ version' \in Nat /\ version <= version'
    BY <2>4 DEF TypeOK
  <2>6. x.call.op # "create" =>
          /\ x.version = version + 1 /\ version' = version + 1
          /\ x.call.op = "patch" => x.version = x.tag + 1
    BY <1>2, <2>2 DEF Makes
  <2>7. \A i \in DOMAIN written : written[i].version \in Nat
    <3>1. \A i \in DOMAIN written : written[i] \in Committed
      BY DEF TypeOK
    <3> QED
      BY <3>1 DEF Committed
  <2>8. VersionsOnce'
    <3> SUFFICES ASSUME NEW i \in DOMAIN written', written'[i].call.op # "create"
                 PROVE  /\ written'[i].version <= version'
                        /\ written'[i].call.op = "patch" => written'[i].version = written'[i].tag + 1
                        /\ \A j \in DOMAIN written' :
                             j # i /\ written'[j].call.op # "create" =>
                               written'[j].version # written'[i].version
      BY DEF VersionsOnce
    <3>1. CASE i \in DOMAIN written
      <4>1. /\ written'[i] = written[i] /\ written[i].version <= version /\ written[i].version \in Nat
            /\ written[i].call.op = "patch" => written[i].version = written[i].tag + 1
        BY <2>1, <2>7, <3>1 DEF VersionsOnce
      <4>2. ASSUME NEW j \in DOMAIN written', j # i, written'[j].call.op # "create"
            PROVE  written'[j].version # written'[i].version
        <5>1. CASE j \in DOMAIN written
          BY <2>1, <3>1, <4>2, <5>1 DEF VersionsOnce
        <5>2. CASE j = last
          BY <2>1, <2>5, <2>6, <4>1, <4>2, <5>2
        <5> QED
          BY <2>1, <5>1, <5>2
      <4> QED
        BY <2>5, <4>1, <4>2
    <3>2. CASE i = last
      <4>1. \A j \in DOMAIN written : written[j].call.op # "create" => written[j].version <= version
        BY DEF VersionsOnce
      <4>2. written'[i].version = version + 1 /\ version' = version + 1
        BY <2>1, <2>6, <3>2
      <4>3. ASSUME NEW j \in DOMAIN written', j # i, written'[j].call.op # "create"
            PROVE  written'[j].version # written'[i].version
        BY <2>1, <2>5, <2>7, <3>2, <4>1, <4>2, <4>3
      <4> QED
        BY <2>1, <2>5, <2>6, <3>2, <4>2, <4>3
    <3> QED
      BY <2>1, <3>1, <3>2
  <2> QED
    BY <2>3, <2>8
<1> QED
  BY <1>1, <1>2, StepWrites

LEMMA WrittenHolds == Spec => [](TypeOK /\ KeyedSteps /\ IdentifiersOnce /\ VersionsOnce)
<1>1. Init => IdentifiersOnce /\ VersionsOnce
  BY DEF Init, IdentifiersOnce, VersionsOnce
<1>2. TypeOK /\ IdentifiersOnce /\ VersionsOnce /\ [Next]_vars => IdentifiersOnce' /\ VersionsOnce'
  BY WrittenStep
<1> QED
  BY <1>1, <1>2, TypesHold, PTL DEF Spec

(* No dppId is created twice and no event appended twice, whoever sends it *)
(* again, with a key or without, one after the other or at once.           *)
THEOREM IdentifiersAreUsedOnce == Spec => []IdentifiersOnce
  BY WrittenHolds, PTL

(* An accepted PATCH is the version after the one its client read, and no  *)
(* other write made that version: there is no lost update.                 *)
THEOREM NoLostUpdate == Spec => []PatchesBuildOnRead
<1>1. VersionsOnce => PatchesBuildOnRead
  BY DEF VersionsOnce, PatchesBuildOnRead
<1> QED
  BY <1>1, WrittenHolds, PTL

-----------------------------------------------------------------------------
(* What is answered. *)

(* A response to a call of this operation tells of a write that was made.  *)
TrueOf(op, r) ==
  r.status = "ok" =>
    \E i \in DOMAIN written :
      /\ written[i].call.op = op /\ written[i].id = r.id
      /\ written[i].version <= r.version /\ r.version <= version

(* Nothing but what was written is on its way to a client. *)
TruthCarried ==
  /\ \A t \in Threads : TrueOf(handler[t].call.op, handler[t].response)
  /\ \A s \in DOMAIN remembered : TrueOf(s[1], remembered[s].response)
  /\ \A c \in Calls : \A r \in replies[c] : TrueOf(c.op, r)

LEMMA TruthLasts ==
  ASSUME TypeOK, [Next]_vars, NEW op, NEW r \in Response, TrueOf(op, r)
  PROVE  TrueOf(op, r)'
<1>1. CASE UNCHANGED <<version, written>>
  BY <1>1 DEF TrueOf
<1>2. ASSUME NEW t \in Threads, NEW id \in Ids \cup {NoId}, NEW v \in Nat \ {0},
             Makes(t, handler[t].call.op, id, v)
      PROVE  TrueOf(op, r)'
  <2>1. \A i \in DOMAIN written : i \in DOMAIN written' /\ written'[i] = written[i]
    BY <1>2, Grows DEF Makes
  <2>2. version \in Nat /\ (version' = version \/ version' = version + 1)
    BY <1>2 DEF Makes, TypeOK
  <2>3. r.version \in Nat
    BY DEF Response
  <2>4. r.version <= version => r.version <= version'
    BY <2>2, <2>3
  <2> QED
    BY <2>1, <2>4 DEF TrueOf
<1> QED
  BY <1>1, <1>2, StepWrites

LEMMA RefusalsAreTrue == \A op, r : r.status # "ok" => TrueOf(op, r)
  BY DEF TrueOf

(* The answer of a write is true as soon as it is given. *)
LEMMA WriteAnswersTruly ==
  ASSUME TypeOK, VersionsOnce, NEW t \in Threads, Write(t), NEW op, op = handler[t].call.op
  PROVE  /\ handler' \in [Threads -> HandlerType]
         /\ handler'[t].call = handler[t].call
         /\ \E r \in Response : handler'[t].response = r /\ TrueOf(op, r)'
         /\ \A u \in Threads \ {t} : handler'[u] = handler[u]
<1> DEFINE c == handler[t].call
<1>0. c \in Calls /\ version \in Nat \ {0}
  BY HandlerParts DEF TypeOK
<1>1. CASE Repeats(t, c.op)
  <2> DEFINE id == IdOf(c)
             r == Accepted(id, version)
  <2>1. r \in Response /\ r.id = id /\ r.version = version
    BY <1>0, IdsGiven, Responses
  <2>2. Answer(t, r) /\ UNCHANGED <<version, written>> /\ c.op = "event" /\ id \in Identified("event")
    BY <1>1 DEF Repeats
  <2>3. PICK i \in DOMAIN written : written[i].call.op = "event" /\ written[i].id = id
    BY <2>2 DEF Identified
  <2>4. written[i].version <= version
    BY <2>3 DEF VersionsOnce
  <2>5. op = "event"
    BY <2>2
  <2>6. /\ handler' \in [Threads -> HandlerType]
        /\ handler'[t].call = c /\ handler'[t].response = r /\ \A u \in Threads \ {t} : handler'[u] = handler[u]
    BY <2>1, <2>2, AnswerEffect
  <2> HIDE DEF r, id, c
  <2>7. written' = written /\ version' = version /\ version <= version
    BY <1>0, <2>2
  <2>8. PICK q \in Response : q = r
    BY <2>1
  <2>9. TrueOf(op, q)'
    BY <2>1, <2>3, <2>4, <2>5, <2>7, <2>8 DEF TrueOf
  <2> QED
    BY <2>6, <2>8, <2>9 DEF c
<1>2. CASE Refuses(t)
  <2>1. PICK r \in Response : Answer(t, r) /\ r.status # "ok"
    BY <1>2, Responses DEF Refuses
  <2>2. /\ handler' \in [Threads -> HandlerType]
        /\ handler'[t].call = c /\ handler'[t].response = r /\ \A u \in Threads \ {t} : handler'[u] = handler[u]
    BY <2>1, AnswerEffect
  <2>3. TrueOf(op, r)'
    BY <2>1 DEF TrueOf
  <2> QED
    BY <2>2, <2>3
<1>3. ASSUME NEW id \in Ids \cup {NoId}, NEW v \in Nat \ {0}, Makes(t, c.op, id, v)
      PROVE  /\ handler' \in [Threads -> HandlerType]
             /\ handler'[t].call = c
             /\ \E r \in Response : handler'[t].response = r /\ TrueOf(op, r)'
             /\ \A u \in Threads \ {t} : handler'[u] = handler[u]
  <2> DEFINE r == Accepted(id, v)
  <2>1. r \in Response /\ r.id = id /\ r.version = v
    BY Responses
  <2>2. Answer(t, r) /\ written' = Append(written, Made(t, id, v))
    BY <1>3 DEF Makes
  <2>3. /\ handler' \in [Threads -> HandlerType]
        /\ handler'[t].call = c /\ handler'[t].response = r /\ \A u \in Threads \ {t} : handler'[u] = handler[u]
    BY <2>1, <2>2, AnswerEffect
  <2>4. Len(written) + 1 \in DOMAIN written' /\ written'[Len(written) + 1] = Made(t, id, v)
    BY <2>2, Grows
  <2>5. Made(t, id, v).call.op = op /\ Made(t, id, v).id = id /\ Made(t, id, v).version = v
    BY DEF Made
  <2>6. v <= version' /\ v <= v
    BY <1>0, <1>3 DEF Makes
  <2> HIDE DEF r, c
  <2>7. TrueOf(op, r)'
    BY <2>1, <2>4, <2>5, <2>6 DEF TrueOf
  <2> QED
    BY <2>1, <2>3, <2>7
<1> QED
  BY <1>1, <1>2, <1>3, WriteCases

LEMMA TruthStep ==
  ASSUME TypeOK, KeyedSteps, VersionsOnce, TruthCarried, [Next]_vars
  PROVE  TruthCarried'
<1> DEFINE HandlersTrue == \A t \in Threads : TrueOf(handler[t].call.op, handler[t].response)
           KeptTrue == \A s \in DOMAIN remembered : TrueOf(s[1], remembered[s].response)
           RepliesTrue == \A c \in Calls : \A r \in replies[c] : TrueOf(c.op, r)
<1>0. handler \in [Threads -> HandlerType] /\ \A t \in Threads : handler[t] \in HandlerType
  BY DEF TypeOK, HandlerType
<1>1. \A op : \A r \in Response : TrueOf(op, r) => TrueOf(op, r)'
  BY TruthLasts
<1>2. /\ \A t \in Threads : handler[t].response \in Response /\ TrueOf(handler[t].call.op, handler[t].response)
      /\ \A s \in DOMAIN remembered : remembered[s].response \in Response /\ TrueOf(s[1], remembered[s].response)
      /\ \A c \in Calls : \A r \in replies[c] : r \in Response /\ TrueOf(c.op, r)
  BY <1>0 DEF TypeOK, HandlerType, TruthCarried
<1>3. UNCHANGED remembered => KeptTrue'
  BY <1>1, <1>2
<1>4. UNCHANGED replies => RepliesTrue'
  BY <1>1, <1>2
<1>5. UNCHANGED handler => HandlersTrue'
  BY <1>1, <1>2
<1> DEFINE HandlerTrue(u) ==
             \E o : \E r \in Response :
               handler'[u].call.op = o /\ handler'[u].response = r /\ TrueOf(o, r)'
<1>6. (\A u \in Threads : HandlerTrue(u)) => HandlersTrue'
  BY DEF TrueOf
<1>7. \A u \in Threads : handler'[u] = handler[u] => HandlerTrue(u)
  BY <1>1, <1>2
<1>8. ASSUME NEW t \in Threads, NEW w \in HandlerType, handler' = [handler EXCEPT ![t] = w],
             NEW op, NEW r \in Response, w.call.op = op, w.response = r, TrueOf(op, r)
      PROVE  HandlersTrue'
  <2>1. handler'[t] = w /\ \A u \in Threads \ {t} : handler'[u] = handler[u]
    BY <1>0, <1>8
  <2>2. HandlerTrue(t)
    BY <1>1, <1>8, <2>1
  <2> HIDE DEF HandlersTrue, HandlerTrue
  <2> QED
    BY <1>6, <1>7, <2>1, <2>2
<1>9. \A op : \A s \in {"conflict", "duplicate", "stale"} : Refused(s) \in Response /\ TrueOf(op, Refused(s))
  BY Responses DEF TrueOf
<1> HIDE DEF HandlersTrue, HandlerTrue
<1>10. ASSUME NEW c \in Calls, Read(c)
       PROVE  TruthCarried'
  BY <1>3, <1>4, <1>5, <1>10 DEF Read, TruthCarried, HandlersTrue
<1>11. ASSUME NEW t \in Threads, NEW c \in Calls, Send(t, c)
       PROVE  TruthCarried'
  <2> DEFINE w == [step |-> IF Keyed(c) THEN "lookup" ELSE "write",
                   call |-> c, tag |-> seen[c], response |-> NoResponse]
  <2>1. NoResponse \in Response /\ seen[c] \in Nat /\ TrueOf(c.op, NoResponse)
    BY <1>9 DEF NoResponse, TypeOK
  <2>2. w \in HandlerType /\ w.call = c /\ w.response = NoResponse
    BY <2>1 DEF HandlerType, Steps
  <2>3. handler' = [handler EXCEPT ![t] = w] /\ UNCHANGED <<remembered, replies>>
    BY <1>11 DEF Send
  <2> HIDE DEF w
  <2>4. HandlersTrue'
    BY <1>8, <2>1, <2>2, <2>3
  <2> QED
    BY <1>3, <1>4, <2>3, <2>4 DEF TruthCarried, HandlersTrue
<1>12. ASSUME NEW t \in Threads, Lookup(t)
       PROVE  TruthCarried'
  <2> DEFINE c == handler[t].call
             w == IF Scope(c) \in DOMAIN remembered
                  THEN [handler[t] EXCEPT !.step = "reply", !.response = Known(c)]
                  ELSE [handler[t] EXCEPT !.step = "write"]
  <2>1. c \in Calls /\ handler[t] \in HandlerType /\ handler[t].response \in Response
    BY HandlerParts
  <2>2. Scope(c) \in DOMAIN remembered => Known(c) \in Response /\ TrueOf(c.op, Known(c))
    <3>1. Scope(c)[1] = c.op
      BY DEF Scope
    <3> QED
      BY <1>2, <1>9, <2>1, <3>1, KnownIsResponse DEF Known
  <2>3. w \in HandlerType /\ w.call = c
        /\ w.response = IF Scope(c) \in DOMAIN remembered THEN Known(c) ELSE handler[t].response
    BY <2>1, <2>2 DEF HandlerType, Steps
  <2>4. handler' = [handler EXCEPT ![t] = w] /\ UNCHANGED <<remembered, replies>>
    BY <1>12 DEF Lookup
  <2>5. TrueOf(c.op, w.response) /\ w.response \in Response
    BY <1>2, <2>1, <2>2, <2>3
  <2>6. HandlersTrue'
    <3>1. PICK op : \E r \in Response : op = w.call.op /\ r = w.response
      BY <2>5
    <3>2. PICK r \in Response : op = w.call.op /\ r = w.response
      BY <3>1
    <3>3. TrueOf(op, r)
      BY <2>3, <2>5, <3>2
    <3> HIDE DEF w
    <3> QED
      BY <1>8, <2>3, <2>4, <3>2, <3>3
  <2> QED
    BY <1>3, <1>4, <2>4, <2>6 DEF TruthCarried, HandlersTrue
<1>13. ASSUME NEW t \in Threads, Write(t)
       PROVE  TruthCarried'
  <2>1. UNCHANGED <<remembered, replies>>
    BY <1>13 DEF Write
  <2>2. PICK op : op = handler[t].call.op
    OBVIOUS
  <2>3. /\ handler'[t].call = handler[t].call
        /\ \E r \in Response : handler'[t].response = r /\ TrueOf(op, r)'
        /\ \A u \in Threads \ {t} : handler'[u] = handler[u]
    BY <1>13, <2>2, WriteAnswersTruly
  <2>4. HandlerTrue(t)
    BY <2>2, <2>3 DEF HandlerTrue
  <2>5. HandlersTrue'
    BY <1>6, <1>7, <2>3, <2>4
  <2> QED
    BY <1>3, <1>4, <2>1, <2>5 DEF TruthCarried, HandlersTrue
<1>14. ASSUME NEW t \in Threads, Remember(t)
       PROVE  TruthCarried'
  <2> DEFINE c == handler[t].call
             kept == [body |-> c.body, response |-> handler[t].response]
             w == [handler[t] EXCEPT !.step = "reply"]
  <2>1. c \in Calls /\ handler[t] \in HandlerType /\ handler[t].response \in Response
    BY HandlerParts
  <2>2. w \in HandlerType /\ w.call = c /\ w.response = handler[t].response
    BY <2>1 DEF HandlerType, Steps
  <2>3. handler' = [handler EXCEPT ![t] = w] /\ UNCHANGED <<version, written, replies>>
    BY <1>14 DEF Remember
  <2>4. remembered' = [s \in DOMAIN remembered \cup {Scope(c)} |-> IF s = Scope(c) THEN kept ELSE remembered[s]]
    BY <1>14 DEF Remember
  <2>5. HandlersTrue'
    <3>1. PICK op : \E r \in Response : op = w.call.op /\ r = w.response
      BY <2>1, <2>2
    <3>2. PICK r \in Response : op = w.call.op /\ r = w.response
      BY <3>1
    <3>3. TrueOf(op, r)
      BY <1>2, <2>2, <3>2
    <3> HIDE DEF w
    <3> QED
      BY <1>8, <2>2, <2>3, <3>2, <3>3
  <2>6. TrueOf(c.op, handler[t].response) /\ kept.response = handler[t].response /\ Scope(c)[1] = c.op
    BY <1>2 DEF Scope
  <2>7. KeptTrue'
    <3> HIDE DEF c, kept
    <3> QED
      BY <1>2, <2>3, <2>4, <2>6 DEF TrueOf
  <2> QED
    BY <1>4, <2>3, <2>5, <2>7 DEF TruthCarried, HandlersTrue
<1>15. ASSUME NEW t \in Threads, Reply(t)
       PROVE  TruthCarried'
  <2>1. Idle \in HandlerType /\ Idle.response = NoResponse
    <3>1. (CHOOSE c \in Calls : TRUE) \in Calls
      BY CallAssumption
    <3> QED
      BY <3>1, Responses DEF Idle, HandlerType, Steps, Free, NoResponse
  <2>2. PICK op : op = Idle.call.op
    OBVIOUS
  <2>3. NoResponse \in Response /\ TrueOf(op, NoResponse)
    BY <1>9 DEF NoResponse
  <2>4. handler' = [handler EXCEPT ![t] = Idle] /\ UNCHANGED <<version, written, remembered>>
    BY <1>15 DEF Reply
  <2>5. HandlersTrue'
    BY <1>8, <2>1, <2>2, <2>3, <2>4
  <2>6. replies' = [replies EXCEPT ![handler[t].call] = @ \cup {handler[t].response}]
    BY <1>15 DEF Reply
  <2>7. replies \in [Calls -> SUBSET Response]
    BY DEF TypeOK
  <2>8. RepliesTrue'
    BY <1>2, <2>4, <2>6, <2>7 DEF TrueOf
  <2> QED
    BY <1>3, <2>4, <2>5, <2>8 DEF TruthCarried, HandlersTrue
<1>16. CASE UNCHANGED vars
  BY <1>3, <1>4, <1>5, <1>16 DEF vars, TruthCarried, HandlersTrue
<1> QED
  BY <1>10, <1>11, <1>12, <1>13, <1>14, <1>15, <1>16 DEF Next, Handle

LEMMA TruthHolds == Spec => []TruthCarried
<1>1. Init => TruthCarried
  <2> SUFFICES ASSUME Init PROVE TruthCarried
    OBVIOUS
  <2>1. Idle.response.status # "ok"
    BY DEF Idle, NoResponse, Refused
  <2> QED
    BY <2>1 DEF Init, TruthCarried, TrueOf
<1>2. TypeOK /\ KeyedSteps /\ VersionsOnce /\ TruthCarried /\ [Next]_vars => TruthCarried'
  BY TruthStep
<1> QED
  BY <1>1, <1>2, WrittenHolds, PTL DEF Spec

(* Whatever is retried, remembered or overtaken, a client that is told of  *)
(* a success is told of a write that was made, and of no version older     *)
(* than that write or newer than the passport.                             *)
THEOREM ClientsAreToldTheTruth == Spec => []AnswersAreTrue
<1>1. TruthCarried => AnswersAreTrue
  BY DEF TruthCarried, TrueOf, AnswersAreTrue, Successes
<1> QED
  BY <1>1, TruthHolds, PTL
-----------------------------------------------------------------------------
(* One write and one answer for a key that no two threads work on at once. *)

On(t, s) == Keyed(handler[t].call) /\ Scope(handler[t].call) = s
Wrote(s) == \E i \in DOMAIN written : Scope(written[i].call) = s
Kept(s, r) == s \in DOMAIN remembered /\ remembered[s].response = r

(* One thread at a time works on the key; who is about to write is the     *)
(* first to; what is written is remembered, or the thread that wrote it is *)
(* about to; what is remembered is never replaced.                         *)
KeyWorker(s) ==
  /\ \A t, u \in Threads : Working(t, s) /\ Working(u, s) => t = u
  /\ \A t \in Threads : Working(t, s) /\ At(t, "write") => ~Wrote(s)
  /\ Wrote(s) => s \in DOMAIN remembered \/ \E t \in Threads : Working(t, s) /\ At(t, "remember")
  /\ \A t \in Threads : Working(t, s) /\ handler[t].step \in {"write", "remember"} =>
       s \notin DOMAIN remembered
KeyWritten(s) ==
  \A i, j \in DOMAIN written : Scope(written[i].call) = s /\ Scope(written[j].call) = s => i = j

(* Every success on its way or delivered is the remembered response.       *)
KeyAnswered(s) ==
  /\ \A t \in Threads : On(t, s) /\ At(t, "reply") /\ handler[t].response.status = "ok" =>
       Kept(s, handler[t].response)
  /\ \A c \in Calls : Keyed(c) /\ Scope(c) = s => \A r \in Successes(c) : Kept(s, r)

KeyInv(s) == KeyWorker(s) /\ KeyWritten(s) /\ KeyAnswered(s)

(* What a write does as far as a key is concerned. *)
LEMMA WriteForKey ==
  ASSUME TypeOK, NEW t \in Threads, Write(t)
  PROVE  /\ handler' \in [Threads -> HandlerType]
         /\ handler'[t].call = handler[t].call
         /\ handler'[t].step = IF Keyed(handler[t].call) /\ handler'[t].response.status = "ok"
                               THEN "remember" ELSE "reply"
         /\ \A u \in Threads \ {t} : handler'[u] = handler[u]
         /\ \/ written' = written
            \/ handler'[t].response.status = "ok" /\ \E x \in Committed : x.call = handler[t].call /\ written' = Append(written, x)
<1> DEFINE c == handler[t].call
<1>0. c \in Calls /\ handler[t].tag \in Nat
  BY HandlerParts
<1>1. CASE Repeats(t, c.op)
  <2>1. Accepted(IdOf(c), version) \in Response
    BY <1>0, IdsGiven, Responses DEF TypeOK
  <2> QED
    BY <1>1, <2>1, AnswerEffect DEF Repeats
<1>2. CASE Refuses(t)
  <2>1. PICK r \in Response : Answer(t, r)
    BY <1>2, Responses DEF Refuses
  <2> QED
    BY <1>2, <2>1, AnswerEffect DEF Refuses
<1>3. ASSUME NEW id \in Ids \cup {NoId}, NEW v \in Nat \ {0}, Makes(t, c.op, id, v)
      PROVE  /\ handler' \in [Threads -> HandlerType]
             /\ handler'[t].call = c
             /\ handler'[t].step = IF Keyed(c) /\ handler'[t].response.status = "ok" THEN "remember" ELSE "reply"
             /\ \A u \in Threads \ {t} : handler'[u] = handler[u]
             /\ handler'[t].response.status = "ok"
             /\ \E x \in Committed : x.call = c /\ written' = Append(written, x)
  <2>1. Accepted(id, v) \in Response /\ Accepted(id, v).status = "ok"
    BY Responses
  <2>2. Made(t, id, v) \in Committed /\ Made(t, id, v).call = c
    BY <1>0 DEF Made, Committed
  <2> QED
    BY <1>3, <2>1, <2>2, AnswerEffect DEF Makes
<1> QED
  BY <1>1, <1>2, <1>3, WriteCases DEF Repeats, Refuses

LEMMA ScopeIsKeyed == \A c \in Calls, s \in Scopes : Scope(c) = s => Keyed(c)
  BY DEF Scope, Scopes, Keyed

LEMMA KeyWrite ==
  ASSUME TypeOK, NEW s \in Scopes, KeyInv(s), NEW t \in Threads, Write(t)
  PROVE  KeyInv(s)'
<1> DEFINE c == handler[t].call
<1>1. At(t, "write") /\ UNCHANGED <<remembered, replies>>
  BY DEF Write
<1>2. /\ handler' \in [Threads -> HandlerType]
      /\ handler'[t].call = c
      /\ handler'[t].step = IF Keyed(c) /\ handler'[t].response.status = "ok" THEN "remember" ELSE "reply"
      /\ \A u \in Threads \ {t} : handler'[u] = handler[u]
  BY WriteForKey
<1>3. \/ written' = written
      \/ handler'[t].response.status = "ok" /\ \E x \in Committed : x.call = c /\ written' = Append(written, x)
  BY WriteForKey
<1>4. c \in Calls
  BY HandlerParts
<1>5. On(t, s) => ~Wrote(s) /\ s \notin DOMAIN remembered
  BY <1>1 DEF KeyInv, KeyWorker, On, Working, At
<1>6. Working(t, s)' => On(t, s) /\ handler'[t].step = "remember"
  BY <1>2 DEF Working, On
<1>7. \A u \in Threads \ {t} : (Working(u, s)' <=> Working(u, s)) /\ (On(u, s)' <=> On(u, s))
  BY <1>2 DEF Working, On
<1>8. On(t, s) => Working(t, s)
  BY <1>1 DEF On, Working, At
<1>9. Wrote(s)' => Wrote(s) \/ (On(t, s) /\ Working(t, s)' /\ handler'[t].step = "remember")
  <2>1. CASE written' = written
    BY <2>1 DEF Wrote
  <2>2. CASE handler'[t].response.status = "ok" /\ \E x \in Committed : x.call = c /\ written' = Append(written, x)
    <3>1. Wrote(s)' => Wrote(s) \/ Scope(c) = s
      BY <2>2, Grows DEF Wrote
    <3>2. Scope(c) = s => On(t, s) /\ Working(t, s)' /\ handler'[t].step = "remember"
      BY <1>2, <1>4, <2>2, ScopeIsKeyed DEF On, Working
    <3> QED
      BY <3>1, <3>2
  <2> QED
    BY <1>3, <2>1, <2>2
<1>10. Wrote(s) => s \in DOMAIN remembered \/ \E u \in Threads \ {t} : Working(u, s) /\ At(u, "remember")
  BY <1>1 DEF KeyInv, KeyWorker, At
<1>11. KeyWorker(s)'
  <2>1. \A x, y \in Threads : Working(x, s)' /\ Working(y, s)' => x = y
    BY <1>6, <1>7, <1>8 DEF KeyInv, KeyWorker
  <2>2. \A x \in Threads : Working(x, s)' /\ At(x, "write")' => ~Wrote(s)'
    <3> SUFFICES ASSUME NEW x \in Threads, Working(x, s)', At(x, "write")', Wrote(s)' PROVE FALSE
      OBVIOUS
    <3>1. x # t
      BY <1>6 DEF At
    <3>2. Working(x, s) /\ At(x, "write") /\ ~Wrote(s)
      BY <1>2, <1>7, <3>1 DEF At, KeyInv, KeyWorker
    <3>3. On(t, s)
      BY <1>9, <3>2
    <3> QED
      BY <1>8, <3>1, <3>2, <3>3 DEF KeyInv, KeyWorker
  <2>3. Wrote(s)' => s \in DOMAIN remembered' \/ \E x \in Threads : Working(x, s)' /\ At(x, "remember")'
    BY <1>1, <1>2, <1>7, <1>9, <1>10 DEF At
  <2>4. \A x \in Threads : Working(x, s)' /\ handler'[x].step \in {"write", "remember"} => s \notin DOMAIN remembered'
    BY <1>1, <1>2, <1>5, <1>6, <1>7 DEF KeyInv, KeyWorker
  <2> QED
    BY <2>1, <2>2, <2>3, <2>4 DEF KeyWorker
<1>12. KeyWritten(s)'
  <2>1. CASE written' = written
    BY <2>1 DEF KeyInv, KeyWritten
  <2>2. ASSUME NEW x \in Committed, x.call = c, written' = Append(written, x)
        PROVE  KeyWritten(s)'
    <3>1. Scope(c) = s => ~Wrote(s)
      BY <1>4, <1>5, ScopeIsKeyed DEF On
    <3>2. /\ DOMAIN written' = DOMAIN written \cup {Len(written) + 1}
          /\ \A i \in DOMAIN written : written'[i] = written[i]
          /\ written'[Len(written) + 1].call = c
      BY <2>2, Grows
    <3> QED
      BY <3>1, <3>2 DEF KeyInv, KeyWritten, Wrote
  <2> QED
    BY <1>3, <2>1, <2>2
<1>13. KeyAnswered(s)'
  <2>1. On(t, s)' /\ At(t, "reply")' => handler'[t].response.status # "ok"
    BY <1>2 DEF On, At
  <2> QED
    BY <1>1, <1>2, <1>7, <2>1 DEF KeyInv, KeyAnswered, At, Kept, Successes
<1> QED
  BY <1>11, <1>12, <1>13 DEF KeyInv

LEMMA KeySend ==
  ASSUME TypeOK, NEW s \in Scopes, KeyInv(s), NEW t \in Threads, NEW c \in Calls,
         Send(t, c), s \notin overlapped'
  PROVE  KeyInv(s)'
<1> DEFINE w == [step |-> IF Keyed(c) THEN "lookup" ELSE "write",
                 call |-> c, tag |-> seen[c], response |-> NoResponse]
<1>1. handler' = [handler EXCEPT ![t] = w] /\ UNCHANGED <<written, remembered, replies>>
  BY DEF Send
<1>2. handler'[t] = w /\ \A u \in Threads \ {t} : handler'[u] = handler[u]
  BY <1>1 DEF TypeOK
<1>3. w.call = c /\ w.step = IF Keyed(c) THEN "lookup" ELSE "write"
  OBVIOUS
<1> HIDE DEF w
<1>4. Working(t, s)' => Scope(c) = s /\ handler'[t].step = "lookup"
  BY <1>2, <1>3 DEF Working
<1>5. Scope(c) = s => \A u \in Threads \ {t} : ~Working(u, s)
  BY DEF Send
<1>6. \A u \in Threads \ {t} : (Working(u, s)' <=> Working(u, s)) /\ (On(u, s)' <=> On(u, s))
  BY <1>2 DEF Working, On
<1>7. ~Working(t, s) /\ handler'[t].step \in {"lookup", "write"}
  BY <1>2, <1>3 DEF Send, At, Working, Free
<1>8. KeyWorker(s)'
  <2>1. \A x, y \in Threads : Working(x, s)' /\ Working(y, s)' => x = y
    BY <1>4, <1>5, <1>6 DEF KeyInv, KeyWorker
  <2>2. (Wrote(s)' <=> Wrote(s)) /\ DOMAIN remembered' = DOMAIN remembered
    BY <1>1 DEF Wrote
  <2>3. \A x \in Threads : Working(x, s)' /\ handler'[x].step # "lookup" =>
          x # t /\ Working(x, s) /\ handler'[x].step = handler[x].step
    BY <1>2, <1>4, <1>6
  <2>4. \A x \in Threads : Working(x, s) /\ At(x, "remember") => Working(x, s)' /\ At(x, "remember")'
    BY <1>2, <1>6, <1>7 DEF At
  <2> QED
    BY <2>1, <2>2, <2>3, <2>4 DEF KeyInv, KeyWorker, At
<1>9. KeyWritten(s)'
  BY <1>1 DEF KeyInv, KeyWritten
<1>10. KeyAnswered(s)'
  BY <1>1, <1>2, <1>6, <1>7 DEF KeyInv, KeyAnswered, At, Kept, Successes
<1> QED
  BY <1>8, <1>9, <1>10 DEF KeyInv

LEMMA KeyLookup ==
  ASSUME TypeOK, KeyedSteps, NEW s \in Scopes, KeyInv(s), NEW t \in Threads, Lookup(t)
  PROVE  KeyInv(s)'
<1> DEFINE c == handler[t].call
           w == IF Scope(c) \in DOMAIN remembered
                THEN [handler[t] EXCEPT !.step = "reply", !.response = Known(c)]
                ELSE [handler[t] EXCEPT !.step = "write"]
<1>0. c \in Calls /\ handler[t] \in HandlerType /\ Keyed(c)
  BY HandlerParts DEF Lookup, At, KeyedSteps
<1>1. handler' = [handler EXCEPT ![t] = w] /\ UNCHANGED <<written, remembered, replies>> /\ At(t, "lookup")
  BY DEF Lookup
<1>2. handler'[t] = w /\ \A u \in Threads \ {t} : handler'[u] = handler[u]
  BY <1>1 DEF TypeOK
<1>3. /\ w.call = c
      /\ w.step = IF Scope(c) \in DOMAIN remembered THEN "reply" ELSE "write"
      /\ Scope(c) \in DOMAIN remembered => w.response = Known(c)
  BY <1>0 DEF HandlerType
<1> HIDE DEF w
<1>4. \A u \in Threads \ {t} : (Working(u, s)' <=> Working(u, s)) /\ (On(u, s)' <=> On(u, s))
  BY <1>2 DEF Working, On
<1>5. Working(t, s)' => Working(t, s) /\ At(t, "write")' /\ s \notin DOMAIN remembered
  BY <1>1, <1>2, <1>3 DEF Working, At
<1>6. (Wrote(s)' <=> Wrote(s)) /\ DOMAIN remembered' = DOMAIN remembered
  BY <1>1 DEF Wrote
<1>7. Working(t, s)' => ~Wrote(s)
  <2>1. \A u \in Threads : Working(t, s) /\ Working(u, s) => ~At(u, "remember")
    BY <1>1 DEF KeyInv, KeyWorker, At
  <2> QED
    BY <1>5, <2>1 DEF KeyInv, KeyWorker
<1>8. KeyWorker(s)'
  <2>1. \A x, y \in Threads : Working(x, s)' /\ Working(y, s)' => x = y
    BY <1>4, <1>5 DEF KeyInv, KeyWorker
  <2>2. \A x \in Threads : Working(x, s)' /\ At(x, "write")' => ~Wrote(s)'
    BY <1>2, <1>4, <1>6, <1>7 DEF KeyInv, KeyWorker, At
  <2>3. \A x \in Threads : Working(x, s) /\ At(x, "remember") => Working(x, s)' /\ At(x, "remember")'
    BY <1>1, <1>2, <1>4 DEF At
  <2>4. \A x \in Threads : Working(x, s)' /\ handler'[x].step \in {"write", "remember"} => s \notin DOMAIN remembered'
    BY <1>2, <1>4, <1>5, <1>6 DEF KeyInv, KeyWorker
  <2> QED
    BY <1>6, <2>1, <2>2, <2>3, <2>4 DEF KeyInv, KeyWorker
<1>9. KeyWritten(s)'
  BY <1>1 DEF KeyInv, KeyWritten
<1>10. KeyAnswered(s)'
  <2>1. On(t, s)' /\ At(t, "reply")' /\ handler'[t].response.status = "ok" =>
          s \in DOMAIN remembered' /\ remembered'[s].response = handler'[t].response
    <3>1. Known(c) = remembered[Scope(c)].response \/ Known(c).status # "ok"
      BY Responses DEF Known
    <3> QED
      BY <1>1, <1>2, <1>3, <3>1 DEF On, At
  <2> QED
    BY <1>1, <1>2, <1>4, <2>1 DEF KeyInv, KeyAnswered, At, Kept, Successes
<1> QED
  BY <1>8, <1>9, <1>10 DEF KeyInv

LEMMA KeyRemember ==
  ASSUME TypeOK, KeyedSteps, NEW s \in Scopes, KeyInv(s), NEW t \in Threads, Remember(t)
  PROVE  KeyInv(s)'
<1> DEFINE c == handler[t].call
           kept == [body |-> c.body, response |-> handler[t].response]
           w == [handler[t] EXCEPT !.step = "reply"]
<1>0. c \in Calls /\ handler[t] \in HandlerType /\ Keyed(c) /\ At(t, "remember")
  BY HandlerParts DEF Remember, At, KeyedSteps
<1>1. handler' = [handler EXCEPT ![t] = w] /\ UNCHANGED <<written, replies>>
  BY DEF Remember
<1>2. remembered' = [x \in DOMAIN remembered \cup {Scope(c)} |-> IF x = Scope(c) THEN kept ELSE remembered[x]]
  BY DEF Remember
<1>3. handler'[t] = w /\ \A u \in Threads \ {t} : handler'[u] = handler[u]
  BY <1>1 DEF TypeOK
<1>4. w.call = c /\ w.step = "reply" /\ w.response = handler[t].response /\ kept.response = handler[t].response
  BY <1>0 DEF HandlerType
<1> HIDE DEF w, kept
<1>5. \A u \in Threads \ {t} : (Working(u, s)' <=> Working(u, s)) /\ (On(u, s)' <=> On(u, s))
  BY <1>3 DEF Working, On
<1>6. ~Working(t, s)' /\ (Wrote(s)' <=> Wrote(s))
  BY <1>1, <1>3, <1>4 DEF Working, Wrote
<1>7. CASE Scope(c) = s
  <2>1. Working(t, s) /\ On(t, s)
    BY <1>0, <1>7 DEF Working, On, At
  <2>2. s \notin DOMAIN remembered
    BY <1>0, <2>1 DEF KeyInv, KeyWorker, At
  <2>3. \A u \in Threads : ~Working(u, s)'
    BY <1>5, <1>6, <2>1 DEF KeyInv, KeyWorker
  <2>4. s \in DOMAIN remembered' /\ remembered'[s].response = handler[t].response
    BY <1>2, <1>4, <1>7
  <2>5. KeyWorker(s)'
    BY <2>3, <2>4 DEF KeyWorker
  <2>6. KeyAnswered(s)'
    <3>1. s \in DOMAIN remembered' /\ remembered'[s].response = handler'[t].response
      BY <1>3, <1>4, <2>4
    <3>2. \A u \in Threads : ~(On(u, s) /\ At(u, "reply") /\ handler[u].response.status = "ok")
      BY <2>2 DEF KeyInv, KeyAnswered, Kept
    <3>3. \A q \in Calls : Keyed(q) /\ Scope(q) = s => Successes(q) = {}
      BY <2>2 DEF KeyInv, KeyAnswered, Kept
    <3>4. \A q \in Calls : Successes(q)' = Successes(q)
      BY <1>1 DEF Successes
    <3> QED
      BY <1>3, <1>5, <3>1, <3>2, <3>3, <3>4 DEF KeyAnswered, At, Kept
  <2> QED
    BY <1>1, <2>5, <2>6 DEF KeyInv, KeyWritten
<1>8. CASE Scope(c) # s
  <2>1. ~Working(t, s) /\ ~On(t, s) /\ ~On(t, s)'
    BY <1>3, <1>4, <1>8 DEF Working, On
  <2>2. /\ s \in DOMAIN remembered' <=> s \in DOMAIN remembered
        /\ s \in DOMAIN remembered => remembered'[s] = remembered[s]
    BY <1>2, <1>8
  <2>3. \A u \in Threads : (Working(u, s)' <=> Working(u, s))
    BY <1>5, <1>6, <2>1
  <2>4. \A u \in Threads : Working(u, s) => handler'[u] = handler[u]
    BY <1>3, <2>1
  <2>5. KeyWorker(s)'
    BY <1>6, <2>2, <2>3, <2>4 DEF KeyInv, KeyWorker, At
  <2>6. KeyAnswered(s)'
    BY <1>1, <1>3, <1>5, <2>1, <2>2 DEF KeyInv, KeyAnswered, At, Kept, Successes
  <2> QED
    BY <1>1, <2>5, <2>6 DEF KeyInv, KeyWritten
<1> QED
  BY <1>7, <1>8

LEMMA KeyReply ==
  ASSUME TypeOK, NEW s \in Scopes, KeyInv(s), NEW t \in Threads, Reply(t)
  PROVE  KeyInv(s)'
<1> DEFINE c == handler[t].call
           r == handler[t].response
<1>0. c \in Calls /\ At(t, "reply")
  BY HandlerParts DEF Reply
<1>1. /\ handler' = [handler EXCEPT ![t] = Idle] /\ UNCHANGED <<written, remembered>>
      /\ replies' = [replies EXCEPT ![c] = @ \cup {r}]
  BY DEF Reply
<1>2. handler'[t].step = "free" /\ \A u \in Threads \ {t} : handler'[u] = handler[u]
  BY <1>1 DEF TypeOK, Idle, Free
<1>3. \A u \in Threads \ {t} : (Working(u, s)' <=> Working(u, s)) /\ (On(u, s)' <=> On(u, s))
  BY <1>2 DEF Working, On
<1>4. ~Working(t, s) /\ ~Working(t, s)' /\ (Wrote(s)' <=> Wrote(s))
  BY <1>0, <1>1, <1>2 DEF Working, Wrote, At
<1>5. KeyWorker(s)'
  BY <1>1, <1>2, <1>3, <1>4 DEF KeyInv, KeyWorker, At
<1>6. KeyAnswered(s)'
  <2>1. \A x : \A q \in Calls : x \in Successes(q)' => x \in Successes(q) \/ (q = c /\ x = r /\ r.status = "ok")
    BY <1>0, <1>1 DEF Successes, TypeOK
  <2>2. Keyed(c) /\ Scope(c) = s /\ r.status = "ok" => Kept(s, r)
    BY <1>0 DEF KeyInv, KeyAnswered, On
  <2>3. \A x : Kept(s, x)' <=> Kept(s, x)
    BY <1>1 DEF Kept
  <2>4. \A u \in Threads : On(u, s)' /\ At(u, "reply")' => u # t /\ On(u, s) /\ At(u, "reply") /\ handler'[u] = handler[u]
    BY <1>2, <1>3 DEF At
  <2>5. \A q \in Calls : Keyed(q) /\ Scope(q) = s => \A x \in Successes(q)' : Kept(s, x)'
    BY <2>1, <2>2, <2>3 DEF KeyInv, KeyAnswered
  <2>6. \A u \in Threads : On(u, s)' /\ At(u, "reply")' /\ handler'[u].response.status = "ok" =>
          Kept(s, handler[u].response) /\ handler'[u] = handler[u]
    BY <2>4 DEF KeyInv, KeyAnswered
  <2> QED
    BY <1>1, <2>5, <2>6 DEF KeyAnswered, Kept
<1> QED
  BY <1>1, <1>5, <1>6 DEF KeyInv, KeyWritten

LEMMA KeyStep ==
  ASSUME TypeOK, KeyedSteps, NEW s \in Scopes, KeyInv(s), [Next]_vars, s \notin overlapped'
  PROVE  KeyInv(s)'
<1>1. CASE UNCHANGED <<written, remembered, handler, replies>>
  BY <1>1 DEF KeyInv, KeyWorker, KeyWritten, KeyAnswered, Wrote, Working, At, On, Kept, Successes
<1> QED
  BY <1>1, KeySend, KeyLookup, KeyWrite, KeyRemember, KeyReply DEF Next, Handle, Read, vars

LEMMA KeysHold == Spec => [](\A s \in Scopes \ overlapped : KeyInv(s))
<1> DEFINE Inv == \A s \in Scopes \ overlapped : KeyInv(s)
<1>1. Init => Inv
  BY DEF Init, KeyInv, KeyWorker, KeyWritten, KeyAnswered, Wrote, Working, At, On, Kept, Successes, Idle, Free
<1>2. TypeOK /\ KeyedSteps /\ Inv /\ [Next]_vars => Inv'
  <2> SUFFICES ASSUME TypeOK, KeyedSteps, Inv, [Next]_vars, NEW s \in Scopes, s \notin overlapped'
               PROVE  KeyInv(s)'
    OBVIOUS
  <2>1. overlapped \subseteq overlapped'
    BY DEF Next, Handle, vars, Read, Send, Lookup, Write, Remember, Reply
  <2> QED
    BY <2>1, KeyStep
<1> QED
  BY <1>1, <1>2, TypesHold, PTL DEF Spec

(* A key whose sendings were never in work at the same time made at most   *)
(* one write: "A retried write after a timeout returns the original result *)
(* instead of duplicating" (docs/scalability.md:68).                       *)
THEOREM OneWritePerKey == Spec => []KeyWritesOnce
<1>1. TypeOK /\ (\A s \in Scopes \ overlapped : KeyInv(s)) => KeyWritesOnce
  <2> SUFFICES ASSUME TypeOK, \A s \in Scopes \ overlapped : KeyInv(s),
                      NEW i \in DOMAIN written, NEW j \in DOMAIN written,
                      Keyed(written[i].call), Scope(written[i].call) \notin overlapped,
                      Scope(written[j].call) = Scope(written[i].call)
               PROVE  i = j
    BY DEF KeyWritesOnce
  <2>1. written[i] \in Committed
    BY DEF TypeOK
  <2>2. written[i].call \in Calls
    BY <2>1 DEF Committed
  <2>3. KeyInv(Scope(written[i].call))
    BY <2>2, ScopesOfCalls
  <2> QED
    BY <2>3 DEF KeyInv, KeyWritten
<1> QED
  BY <1>1, TypesHold, KeysHold, PTL

(* ... and all the successes its client sees are one response.             *)
THEOREM OneAnswerPerKey == Spec => []SameAnswer
<1>1. (\A s \in Scopes \ overlapped : KeyInv(s)) => SameAnswer
  BY ScopesOfCalls DEF SameAnswer, KeyInv, KeyAnswered, Kept
<1> QED
  BY <1>1, KeysHold, PTL


=============================================================================
