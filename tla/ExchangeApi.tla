---------------------------- MODULE ExchangeApi ----------------------------
(***************************************************************************)
(* The write handlers of the exchange API (sort4circ_dpp/api.py) as the    *)
(* framework runs them: every request in a thread of its own, several at a *)
(* time.  A POST handler looks its Idempotency-Key up, writes through the  *)
(* store, and remembers the response under the key.  Only the write is     *)
(* under the store's lock, so the three are three steps.  A PATCH carries  *)
(* the entity tag of the version its client read.                          *)
(*                                                                         *)
(* One passport takes the events, carriers and patches; creations add      *)
(* others.  A client may send a call again whenever it likes: its timer    *)
(* expired, or the reply was lost on the way.                              *)
(***************************************************************************)
EXTENDS Integers, Sequences

CONSTANTS
  Threads,   \* threads that run handlers
  Calls,     \* the calls clients make; sending one again changes nothing in it
  Keys,      \* values of the Idempotency-Key header
  NoKey,     \* the header is absent
  Bodies,    \* request bodies
  MaxSends   \* bound on the number of requests (the code has none)

Ops == {"create", "event", "carrier", "patch"}

(* Identifiers are given by the client or generated by the server. *)
NoId == <<"none", 0>>
Given == {"given"} \X Nat
Generated == {"urn"} \X Nat
Ids == Given \cup Generated

Call == [op : Ops, key : Keys \cup {NoKey}, body : Bodies, id : Given \cup {NoId}]

ASSUME KeyAssumption == NoKey \notin Keys
ASSUME CallAssumption ==
  /\ Calls \subseteq Call /\ Calls # {}
  /\ \A c \in Calls : c.op = "patch" => c.key = NoKey
  /\ \A c \in Calls : c.op = "carrier" => c.id # NoId
ASSUME SendsAssumption == MaxSends \in Nat

VARIABLES
  version,     \* recordVersion of the passport
  written,     \* every accepted write, in commit order
  remembered,  \* _idempotency: scoped key -> body and response
  handler,     \* what each thread is doing
  seen,        \* the version a client of a PATCH last read
  sends,       \* how many requests were sent
  replies,     \* the responses sent for each call
  overlapped   \* scoped keys that two threads worked on at the same time

vars == <<version, written, remembered, handler, seen, sends, replies, overlapped>>

(* A response: 2xx with the identifier and recordVersion, or a problem. *)
Accepted(id, v) == [status |-> "ok", id |-> id, version |-> v]
Refused(status) == [status |-> status, id |-> NoId, version |-> 0]
Response ==
  [status : {"ok"}, id : Ids \cup {NoId}, version : Nat \ {0}]
  \cup [status : {"conflict", "duplicate", "stale"}, id : {NoId}, version : {0}]
NoResponse == Refused("stale")

Committed == [call : Calls, id : Ids \cup {NoId}, version : Nat \ {0}, tag : Nat]

Free == "free"
Steps == {"free", "lookup", "write", "remember", "reply"}
At(t, step) == handler[t].step = step
Idle == [step |-> Free, call |-> CHOOSE c \in Calls : TRUE, tag |-> 0, response |-> NoResponse]

(* _scoped_key, for one caller and one passport. *)
Scope(c) == <<c.op, c.key>>
Keyed(c) == c.key # NoKey
Scopes == {Scope(c) : c \in {x \in Calls : Keyed(x)}}

-----------------------------------------------------------------------------
(* GET /v1/dpps/{id}: the client of a PATCH learns the current tag. *)
Read(c) ==
  /\ c.op = "patch"
  /\ seen' = [seen EXCEPT ![c] = version]
  /\ UNCHANGED <<version, written, remembered, handler, sends, replies, overlapped>>

Working(t, scope) ==
  /\ handler[t].step \in {"lookup", "write", "remember"}
  /\ Keyed(handler[t].call)
  /\ Scope(handler[t].call) = scope

(* A request reaches a free thread, perhaps while an earlier sending of    *)
(* the same call is still being handled.                                   *)
Send(t, c) ==
  /\ At(t, Free)
  /\ sends < MaxSends
  /\ c.op = "patch" => seen[c] # 0
  /\ handler' = [handler EXCEPT ![t] = [step |-> IF Keyed(c) THEN "lookup" ELSE "write",
                                        call |-> c, tag |-> seen[c], response |-> NoResponse]]
  /\ sends' = sends + 1
  /\ overlapped' = overlapped \cup
       {s \in Scopes : s = Scope(c) /\ \E u \in Threads \ {t} : Working(u, s)}
  /\ UNCHANGED <<version, written, remembered, seen, replies>>

(* Faulty variant: the version is the current one instead of the one in    *)
(* the original response.                                                  *)
KnownLive(c) ==
  IF remembered[Scope(c)].body # c.body THEN Refused("conflict")
  ELSE [remembered[Scope(c)].response EXCEPT !.version = version]

(* PassportStore.idempotent for a key it knows. *)
Known(c) ==
  IF remembered[Scope(c)].body = c.body THEN remembered[Scope(c)].response ELSE Refused("conflict")

Lookup(t) ==
  /\ At(t, "lookup")
  /\ LET c == handler[t].call
     IN  handler' = [handler EXCEPT ![t] =
           IF Scope(c) \in DOMAIN remembered
           THEN [@ EXCEPT !.step = "reply", !.response = Known(c)]
           ELSE [@ EXCEPT !.step = "write"]]
  /\ UNCHANGED <<version, written, remembered, seen, sends, replies, overlapped>>

-----------------------------------------------------------------------------
(* The writes, each under the store's lock. *)

Identified(op) == {written[i].id : i \in {j \in DOMAIN written : written[j].call.op = op}}

(* Faulty variant: no identifier is generated. *)
IdOfGiven(c) == c.id

(* setdefault(..., new_urn(...)): a fresh identifier unless one is given. *)
IdOf(c) == IF c.id = NoId THEN <<"urn", Len(written) + 1>> ELSE c.id

Commit(t, id, v) ==
  written' = Append(written, [call |-> handler[t].call, id |-> id, version |-> v,
                              tag |-> handler[t].tag])

(* The handler goes on to remember() after a success; with no key that     *)
(* does nothing, and an error leaves the handler at once.                  *)
Answer(t, response) ==
  handler' = [handler EXCEPT
    ![t].step = IF Keyed(handler[t].call) /\ response.status = "ok" THEN "remember" ELSE "reply",
    ![t].response = response]

(* create: a dppId that exists is refused. *)
WriteCreate(t, c) ==
  /\ c.op = "create"
  /\ IF IdOf(c) \in Identified("create")
     THEN Answer(t, Refused("duplicate")) /\ UNCHANGED written
     ELSE Answer(t, Accepted(IdOf(c), 1)) /\ Commit(t, IdOf(c), 1)
  /\ UNCHANGED version

(* Faulty variants: the entry's identifier is not compared; a repetition is *)
(* answered with a version that was not committed.                         *)
WriteEventAlways(t, c) ==
  /\ c.op = "event"
  /\ Answer(t, Accepted(IdOf(c), version + 1)) /\ Commit(t, IdOf(c), version + 1)
  /\ version' = version + 1
WriteEventAhead(t, c) ==
  /\ c.op = "event"
  /\ Answer(t, Accepted(IdOf(c), version + 1))
  /\ IF IdOf(c) \in Identified("event")
     THEN UNCHANGED <<version, written>>
     ELSE Commit(t, IdOf(c), version + 1) /\ version' = version + 1

(* append, for events and observations: an entry the passport has is       *)
(* answered with the passport as it is.                                    *)
WriteEvent(t, c) ==
  /\ c.op = "event"
  /\ IF IdOf(c) \in Identified("event")
     THEN Answer(t, Accepted(IdOf(c), version)) /\ UNCHANGED <<version, written>>
     ELSE /\ Answer(t, Accepted(IdOf(c), version + 1)) /\ Commit(t, IdOf(c), version + 1)
          /\ version' = version + 1

(* commission_carrier: an identifier of the same passport is bound anew.   *)
WriteCarrier(t, c) ==
  /\ c.op = "carrier"
  /\ Answer(t, Accepted(c.id, version + 1)) /\ Commit(t, c.id, version + 1)
  /\ version' = version + 1

(* Faulty variant: the tag is compared only by being there. *)
AnyTag(tag) == tag # 0

(* _check_precondition, for a client that sends the tag it read. *)
Current(tag) == tag = version

WritePatch(t, c) ==
  /\ c.op = "patch"
  /\ IF Current(handler[t].tag)
     THEN /\ Answer(t, Accepted(NoId, version + 1)) /\ Commit(t, NoId, version + 1)
          /\ version' = version + 1
     ELSE Answer(t, Refused("stale")) /\ UNCHANGED <<version, written>>

Write(t) ==
  /\ At(t, "write")
  /\ LET c == handler[t].call
     IN  WriteCreate(t, c) \/ WriteEvent(t, c) \/ WriteCarrier(t, c) \/ WritePatch(t, c)
  /\ UNCHANGED <<remembered, seen, sends, replies, overlapped>>

-----------------------------------------------------------------------------
(* Faulty variant: the response is not kept. *)
RememberNothing(t) ==
  /\ At(t, "remember")
  /\ handler' = [handler EXCEPT ![t].step = "reply"]
  /\ UNCHANGED <<version, written, remembered, seen, sends, replies, overlapped>>

(* PassportStore.remember: the last response stored under a key wins. *)
Remember(t) ==
  /\ At(t, "remember")
  /\ LET c == handler[t].call
     IN  remembered' = [s \in DOMAIN remembered \cup {Scope(c)} |->
           IF s = Scope(c) THEN [body |-> c.body, response |-> handler[t].response]
           ELSE remembered[s]]
  /\ handler' = [handler EXCEPT ![t].step = "reply"]
  /\ UNCHANGED <<version, written, seen, sends, replies, overlapped>>

Reply(t) ==
  /\ At(t, "reply")
  /\ replies' = [replies EXCEPT ![handler[t].call] = @ \cup {handler[t].response}]
  /\ handler' = [handler EXCEPT ![t] = Idle]
  /\ UNCHANGED <<version, written, remembered, seen, sends, overlapped>>

Init ==
  /\ version = 1
  /\ written = <<>>
  /\ remembered = [s \in {} |-> s]
  /\ handler = [t \in Threads |-> Idle]
  /\ seen = [c \in Calls |-> 0]
  /\ sends = 0
  /\ replies = [c \in Calls |-> {}]
  /\ overlapped = {}

Handle(t) == Lookup(t) \/ Write(t) \/ Remember(t) \/ Reply(t)

Next ==
  \/ \E c \in Calls : Read(c)
  \/ \E t \in Threads, c \in Calls : Send(t, c)
  \/ \E t \in Threads : Handle(t)

Spec == Init /\ [][Next]_vars

-----------------------------------------------------------------------------
(* Properties. *)

(* Every variable stays inside its type; what was created or appended has  *)
(* an identifier.                                                          *)
TypeOK ==
  /\ version \in Nat \ {0}
  /\ written \in Seq(Committed)
  /\ \A i \in DOMAIN written : written[i].call.op # "patch" => written[i].id # NoId
  /\ remembered \in [DOMAIN remembered -> [body : Bodies, response : Response]]
  /\ DOMAIN remembered \subseteq Scopes
  /\ handler \in [Threads -> [step : Steps, call : Calls, tag : Nat, response : Response]]
  /\ seen \in [Calls -> Nat] /\ sends \in 0..MaxSends
  /\ replies \in [Calls -> SUBSET Response]
  /\ overlapped \subseteq Scopes

Successes(c) == {r \in replies[c] : r.status = "ok"}

(* "A retried write after a timeout returns the original result instead of *)
(* duplicating" (docs/scalability.md:68): one key has one write, if no two *)
(* sendings of it were in work at the same time.                           *)
KeyWritesOnce ==
  \A i, j \in DOMAIN written :
    LET c == written[i].call
    IN  Keyed(c) /\ Scope(c) \notin overlapped /\ Scope(written[j].call) = Scope(c) => i = j

(* ... and every success a client of that key sees is the same response,   *)
(* however the passport has moved on in between.                           *)
SameAnswer ==
  \A c \in Calls : Keyed(c) /\ Scope(c) \notin overlapped =>
    \A r1, r2 \in Successes(c) : r1 = r2

(* An identifier names one passport or one event, also for clients that    *)
(* send no key and for sendings that overlap.                              *)
IdentifiersOnce ==
  \A i, j \in DOMAIN written :
    /\ written[i].call.op = written[j].call.op
    /\ written[i].call.op \in {"create", "event"}
    /\ written[i].id = written[j].id
    => i = j

(* A success names a write that has been made, and a version not older     *)
(* than that write nor newer than the passport.                            *)
AnswersAreTrue ==
  \A c \in Calls : \A r \in Successes(c) :
    \E i \in DOMAIN written :
      /\ written[i].call.op = c.op /\ written[i].id = r.id
      /\ written[i].version <= r.version /\ r.version <= version

(* Optimistic concurrency: an accepted PATCH replaces exactly the version  *)
(* its client read.  Nothing another client wrote since is lost, and a     *)
(* PATCH that is sent again after it was accepted changes nothing.         *)
PatchesBuildOnRead ==
  \A i \in DOMAIN written : written[i].call.op = "patch" =>
    /\ written[i].version = written[i].tag + 1
    /\ \A j \in DOMAIN written :
         j # i /\ written[j].call.op # "create" => written[j].version # written[i].version

(* The promise of docs/scalability.md:68 as it is written, retries that    *)
(* overlap the original included.                                          *)
RetriesNeverDuplicate ==
  \A i, j \in DOMAIN written :
    Keyed(written[i].call) /\ Scope(written[j].call) = Scope(written[i].call) => i = j

=============================================================================
