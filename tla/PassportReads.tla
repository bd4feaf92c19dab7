--------------------------- MODULE PassportReads ---------------------------
(***************************************************************************)
(* Reading passports through the API (sort4circ_dpp/api.py, search and     *)
(* get_dpp) while others write them.                                       *)
(*                                                                         *)
(* A search sorts a copy of the records by (updatedAt, dppId) and returns  *)
(* at most PageLimit of them after the passport the cursor names; a client *)
(* follows nextCursor until there is none.  A commit takes its updatedAt   *)
(* and replaces the record in two steps under the store's lock, which      *)
(* reads do not take.  Stamps have the resolution of a millisecond: two    *)
(* commits may have the same.  The clock is not set back.                  *)
(***************************************************************************)
EXTENDS AccessViews, FiniteSets, Sequences

CONSTANTS
  Dpps,       \* passport identifiers, numbered in the order of their urns
  NoDpp,      \* no passport, no cursor
  Callers,    \* principals: a role, and whether they have an organisation
  PageLimit,  \* the query parameter limit
  MaxVersion, \* bound on recordVersion (the code has none)
  MaxTime     \* bound on the clock

ASSUME DppAssumption == Dpps \subseteq Nat /\ IsFiniteSet(Dpps) /\ NoDpp \notin Dpps
ASSUME CallerAssumption == Callers \subseteq [role : DOMAIN DefaultView, organised : BOOLEAN]
ASSUME LimitAssumption == PageLimit \in Nat \ {0} /\ MaxVersion \in Nat /\ MaxTime \in Nat

VARIABLES
  now,      \* utcnow()
  records,  \* _records: version (0 when there is none), updatedAt, retired
  writer,   \* the commit under the store's lock
  caller,   \* the principal of the reads
  cursor,   \* nextCursor of the last page, NoDpp when there was none
  pages,    \* the traversal: the passports and their versions on each page
  there,    \* the passports that existed at its first page
  moved,    \* whether in it a passport was written while it was the cursor
  held      \* the members of passports the caller has been shown

vars == <<now, records, writer, caller, cursor, pages, there, moved, held>>
store == <<now, records, writer>>
traversal == <<cursor, pages, there, moved>>

NotWriting == [dpp |-> NoDpp, updatedAt |-> 0]
Stored == {d \in Dpps : records[d].version > 0}

-----------------------------------------------------------------------------
(* create, patch, append and commission_carrier take the lock and the time. *)
Stamp(d, t) ==
  /\ writer = NotWriting
  /\ records[d].version < MaxVersion
  /\ now' = t
  /\ writer' = [dpp |-> d, updatedAt |-> t]
  /\ UNCHANGED <<records, caller, traversal, held>>

(* _commit replaces the record; a payload or a patch may set its status. *)
Publish(retired) ==
  /\ writer # NotWriting
  /\ records' = [records EXCEPT ![writer.dpp] =
       [version |-> @.version + 1, updatedAt |-> writer.updatedAt, retired |-> retired]]
  /\ writer' = NotWriting
  /\ UNCHANGED <<now, caller, traversal, held>>

-----------------------------------------------------------------------------
(* The order of a search. *)
Before(a, b) ==
  \/ records[a].updatedAt < records[b].updatedAt
  \/ records[a].updatedAt = records[b].updatedAt /\ a < b

(* Faulty variants: the page begins with the cursor; passports as old as   *)
(* the cursor are taken for listed.                                        *)
RestFrom(c) == IF c \in Stored THEN {d \in Stored : ~Before(d, c)} ELSE Stored

RestLater(c) ==
  IF c \in Stored THEN {d \in Stored : records[d].updatedAt > records[c].updatedAt} ELSE Stored

(* What a search has left after a cursor: everything, if it is unknown. *)
Rest(c) == IF c \in Stored THEN {d \in Stored : Before(c, d)} ELSE Stored

Page(rest) == {d \in rest : Cardinality({x \in rest : Before(x, d)}) < PageLimit}

LastOf(page) == CHOOSE d \in page : \A x \in page : ~Before(d, x)

Items(page) == {[dpp |-> d, version |-> records[d].version] : d \in page}

(* search: the page after a cursor, its nextCursor, the default view. *)
Answer(c) ==
  LET rest == Rest(c)
      page == Page(rest)
  IN  /\ cursor' = IF page # rest THEN LastOf(page) ELSE NoDpp
      /\ pages' = IF c = NoDpp THEN <<Items(page)>> ELSE Append(pages, Items(page))
      /\ held' = IF page = {} THEN held
                 ELSE held \cup Project(DefaultView[caller.role], caller.organised)
      /\ UNCHANGED <<store, caller>>

FirstPage ==
  /\ cursor = NoDpp
  /\ Answer(NoDpp)
  /\ there' = Stored
  /\ moved' = FALSE

NextPage ==
  /\ cursor # NoDpp
  /\ Answer(cursor)
  /\ moved' = (moved \/ \A item \in pages[Len(pages)] :
                          item # [dpp |-> cursor, version |-> records[cursor].version])
  /\ UNCHANGED there

(* get_dpp: a retired passport is refused, a current copy not sent again,  *)
(* otherwise the caller gets the view it may have.                         *)
GetDpp(d, requested, known) ==
  LET view == ResolveView(caller.role, requested)
  IN  /\ d \in Stored
      /\ ~records[d].retired
      /\ known # records[d].version
      /\ view # Forbidden
      /\ held' = held \cup Project(view, caller.organised)
      /\ UNCHANGED <<store, caller, traversal>>

Init ==
  /\ now = 1
  /\ records = [d \in Dpps |-> [version |-> 0, updatedAt |-> 0, retired |-> FALSE]]
  /\ writer = NotWriting
  /\ caller \in Callers
  /\ cursor = NoDpp
  /\ pages = <<>>
  /\ there = {}
  /\ moved = FALSE
  /\ held = {}

Next ==
  \/ \E d \in Dpps, t \in now..MaxTime : Stamp(d, t)
  \/ \E retired \in BOOLEAN : Publish(retired)
  \/ FirstPage \/ NextPage
  \/ \E d \in Dpps, requested \in Views \cup {NotRequested, "unknown"}, known \in 0..MaxVersion :
       GetDpp(d, requested, known)

Spec == Init /\ [][Next]_vars

-----------------------------------------------------------------------------
(* Properties. *)

Listed == {item.dpp : item \in UNION {pages[n] : n \in DOMAIN pages}}

(* A finished traversal has listed every passport that existed when it     *)
(* began, whatever was created or written in between, unless a passport    *)
(* was written while it was the cursor: then the search goes on from where *)
(* that passport has moved to (api.py:385), past others not yet listed.    *)
CompleteUnlessCursorMoves ==
  pages # <<>> /\ cursor = NoDpp /\ ~moved => there \subseteq Listed

(* No traversal lists one version of a passport twice: it lists a passport *)
(* again only when it was written since, also when the cursor has moved.   *)
NoVersionTwice ==
  \A m, n \in DOMAIN pages : m # n => pages[m] \cap pages[n] = {}

(* What the policy lets a caller have: the grants of its default view and  *)
(* of every view it may narrow that to, and the envelope of each answer.   *)
Entitled(default, organised) ==
  Envelope \cup UNION {Granted(v, organised) :
                         v \in {u \in Views : VIEW_RANK[u] <= VIEW_RANK[default]}}

(* What project shows besides: _SORTING_PRODUCT (access.py:96) is one list *)
(* for every view but the public one.                                      *)
Excess(default) ==
  CASE default = "partner" -> {"colourPrimary", "condition", "mass"}
    [] default = "sorting" -> {"mass"}
    [] OTHER -> {}

(* Whatever a caller asks for, by searches and with any views, it is shown *)
(* nothing but what the published policy (spec/access-matrix.json) grants  *)
(* its default view or a view of lower rank, with one exception: the three *)
(* product members project adds to the partner and the sorting view.       *)
(* Another organisation's events, a carrier or an identity no view up to   *)
(* its own grants never reach it.                                          *)
NothingBeyondGrants ==
  LET default == DefaultView[caller.role]
  IN  held \subseteq Entitled(default, caller.organised) \cup Excess(default)

=============================================================================
