# Verification of the SORT4CIRC DPP reference service

TLA+ models of the Python package in `src/src/sort4circ_dpp`, the TLC
configurations that check them on small instances, and TLAPS proofs of what
holds for instances of every size.  Paths below are relative to
`src/src/sort4circ_dpp` unless they start with `src/`.

The service keeps digital product passports.  Writers create a passport, patch
it, append events and observations, and bind data carriers (tags) to it.  Every
accepted write makes a new version, queues evidence of it, and refreshes the
projection that sorting lines read.  A worker anchors the evidence on a ledger.

## 1. Inventory

| Component | State | Operations | Interacts through |
| --- | --- | --- | --- |
| Passport store (`store.py`) | `_records`, `_history`, `_carrier_index`, `_retired_carriers`, `_idempotency`, `outbox`, `last_commit_ms`, `on_commit`; one re-entrant lock | `create`, `patch`, `append`, `commission_carrier`, `_commit`; unlocked `get`, `get_version`, `resolve_carrier`, `idempotent`, `remember` | called by the API; the outbox list is shared with the worker; calls the index back |
| Exchange API (`api.py`) | none of its own; one thread per request | the eight write and read endpoints, idempotency keys, `If-Match`, cursors, integrity verification | store, index, worker, ledger |
| Access matrix (`access.py`, `auth.py`) | none | `check_patch_paths`, `require_scope`, `resolve_view`, `project` | in front of every handler |
| Evidence worker (`evidence.py`) | states of the shared outbox entries | `drain`, `reconcile`, `transition` | store's outbox, ledger adapter |
| In-memory ledger (`ledger/memory.py`, `base.py`) | receipts, one per evidence identifier | `submit`, `confirm`, `status`, `verify` | worker, verification endpoint |
| Besu ledger (`ledger/besu.py`) | receipts, nonce at the node | the same over JSON-RPC | worker |
| Read index (`index.py`) | `_entries`, `caught_up_at_ms` | `attach`, `_on_commit`, `sorting_view` | the store's commit callback, readers |
| Read-zone gateway (`gateway/readzone.py`) | `_last_seen`, when each identifier was last accepted | `evaluate`: accept, suppress, reject as ambiguous, weak or malformed | runs at the sorting line, which then resolves the carrier over the API |
| Canonicalisation (`canonical.py`) | none | `canonicalise`, `integrity_projection`, `digest` | `_commit`, verification |
| Validation (`validation.py`, `vocab.py`) | loaded schemas | `validate_payload`, `check_composition` | every write |
| Exchange and mapping (`exchange.py`, `mapping.py`) | none | JSON to XML and back, RDF of a passport | the HTTP middleware; partners who collect graphs |
| Reason codes (`reasons.py`) | the loaded catalogue | `safe_action`, `diverts` | the sorting line chooses what to do from them |
| Governance (`governance.py`), public summary, CLI, configuration, fixtures, tools | none | checks and texts about documents of the project | files |

What is hard, and what would make each component correct:

* **Store.** Two tables decide who owns an identifier, while records and
  histories show it; a failing validation comes after the tables have been
  changed; a patch may write any member its role is allowed to.  Correct:
  versions without gaps, append-only logs, one open binding, no identifier ever
  shared by two products, one outbox entry per version, and evidence that still
  verifies after later writes.
* **API.** Lookup, write and remember of an idempotent request are three steps
  of which one is locked.  Correct: a repeated call changes nothing and is
  answered as before; a patch replaces exactly the version its client read.
* **Worker and ledger.** A time-out may hide a success; the ledger confirms when
  it likes; passports are committed to the list the worker walks.  Correct:
  never two anchors, never `confirmed` without an anchor, bounded attempts,
  every version eventually in a terminal state.
* **Searches and views.** A client follows cursors through a list whose order
  changes with every write.  Correct: nothing missed, nothing listed twice
  unchanged, nothing shown that the published policy does not grant the views the
  caller may have.
* **Read index.** Its reads take no lock around the three values they compare.
  Correct: never older than a finished write, never stale beyond the limit,
  never refusing what is current.

* **Sorting line.** A carrier is resolved by two table lookups and a read of the
  record, without the lock, while commissioning changes them one statement at a
  time; a local window decides beforehand whether to ask at all.  Correct: an
  answer mixes no two instants, an item passes with neither a command nor a diversion
  only as a repeat or when the service is too busy, and an item that stays is not
  suppressed for ever.
* **Document exchange.** A document is kept in the member order its writers used,
  which the XML schema fixes and JSON does not, and answered in XML only if it
  validates.  Correct: what is exported is imported unchanged, the service's own
  writes keep a document exportable, an observation is judged by its own occasion,
  and graphs of several versions mix no claims.

`PROJECT.json` lists the hazards, each at its line, with the properties that
cover it or the reason why none does.

## 2. Modules

| Module | Models | What a state or an action stands for |
| --- | --- | --- |
| `PassportStore` | `store.py` writes, `access.check_patch_paths` | The lock is held for a whole write, so a write is one action: `Create`, `Patch`, `AppendEntry`, `CommissionCarrier`.  `CommissionFails` is the one refusal that changes state (`store.py:238` before `:259`); the others stutter.  A dict is a function on the set of its keys.  `GetVersion` is a read; carrier reads are in `SortingLine`. |
| `CarrierRegistry` | what `docs/carrier-binding.md` and `commission_carrier` promise | `Bind`: an identifier has one owner for ever and a passport with a carrier has exactly one that answers. |
| `EvidenceWorker` | `evidence.py` with `ledger/memory.py` | A program counter for the one worker; each ledger call, transition and loop test is a step, so commits (`Commit`) and confirmations (`LedgerConfirms`) fall between them.  `raised` is a `TransitionError` that left `drain`. |
| `BesuLedger` | `ledger/besu.py` under the same worker (`INSTANCE EvidenceWorker`) | `SubmitAnswered`, `SubmitUnknown`, ... are the outcomes of one JSON-RPC call; `StatusMined`, `StatusPending`, `StatusRaises` those of a question to the node; `Verify` is an API thread that asks too; `Decide` is the chain.  Both adapters' `_receipts` are `receipts`; `sent` is what the node has received, which the adapter may not know. |
| `ExchangeApi` | the write handlers of `api.py` with `store.idempotent`, `remember`, `append`, `_check_precondition` | A thread is at `lookup`, `write`, `remember` or `reply`; `Send` may send any call again at any time, `Read` is the GET a PATCH is based on. |
| `ReadIndex` | `index.py` with `_commit`'s last three statements | `CommitRecord`, `CommitStamp`, `CommitNotify` of a writer; `Subscribe` ... `Attached` of `attach()`; `ReadEntry`, `ReadLastCommit`, `Decide` of a reader; `Tick`. |
| `AccessViews` | `access.py`: `resolve_view`, `project` | Pure operators: a record is the set of its members, a view the set it shows (`Project`) and the set the policy grants it (`Granted`, from `src/spec/access-matrix.json` 97 to 143 and not from the code). |
| `PassportReads` | `search` and `get_dpp` of `api.py` against commits | `FirstPage` and `NextPage` are one search each (it works on one copy of the records); `Stamp` and `Publish` are the two steps of a commit a search can fall between; `pages` is what the client has received, `held` the members it has been shown. |
| `SortingLine` | `gateway/readzone.py`, `reasons.safe_action`, `resolve_carrier` without the lock, `commission_carrier` with it | The writer's statements are steps (`Unindex`, `Retire`, `CommitRecord`, `IndexCarrier`; `CommissionFails` leaves the loop with the tables changed) and so are the reader's (`LookUp`, `LookUpRetired`, `GetRecord`).  `Accept` and `Reject` are `evaluate`, `CallFails` a refused or lost call.  Which calls fail, and what a line does then, is the catalogue's (`src/spec/reason-codes.json`): of the failures that are not the caller's own request, one for each safe action, and `backOff` is the one that neither commands nor diverts.  The clock is the time since each identifier was accepted; `sinceHandled` and `backedOff` are history variables: what became of the call about an identifier, kept while its window runs. |
| `DocumentExchange` | `to_xml`, `from_xml`, `to_rdf` of `exchange.py`, `json_to_rdf` and `rdf_to_json` of `mapping.py`, `check_composition`, the order rules of the XSD, `canonicalise`, the middleware's XML answers and the store's writes that touch member order | Pure operators over JSON and XML values, under a state of one product: its `passport`, the last `reply`, whether its clients kept the schema's order (`ordered`), and a partner's `graph`.  `HandOver` posts an XML answer to the next operator's service.  The members of an object are a function from places to key and value; the schema nests values once, so the recursive functions of the code are written as a level and the one below it. |
| `MC*` | | the small sets of each instance, and symmetry |
| `PassportStoreProofs`, `EvidenceWorkerProofs`, `BesuLedgerProofs`, `ExchangeApiProofs`, `PassportReadsProofs`, `ReadIndexProofs`, `SortingLineProofs`, `DocumentExchangeProofs` | | theorems and their lemmas |

`PassportStore` and `SortingLine` have the same carrier tables: the first takes each
write as a whole and keeps all of its effects, the second takes commissioning apart
and keeps of a record only what a lookup can tell.

Definitions called a *faulty variant* are wrong versions of the definition that
follows them.  Nothing uses them; they exist so that each property can be shown
to fail on a plausible bug (`PROJECT.json`, `mutants`).

Data is abstracted to what the properties distinguish: a product or an entry's
content is one value, a digest is the record without the members
`integrity_projection` removes, a request body is a member of a small set.
`validate_payload` is its verdict (`PatchTyped`, the `wellFormed` flag of a
carrier request).  `ReadIndex` sees a record as its version, with `lag_ms` zero
and no retired passport.  `ExchangeApi` has one caller scope and one passport that
takes events, carriers and patches; patches carry a read tag (`If-Match: *`,
which skips the comparison, is left out).

## 3. Runs

| Run | Instance | Properties |
| --- | --- | --- |
| `store_safety` | 2 passports, 2 identifiers, 2 entry identifiers, both roles, all patches that leave `dppId` and `carriers` alone, well-formed and malformed carrier requests, 5 commits | `TypeOK`, `HistoryRetained`, `CommittedTogether`, `EvidenceVerifies`, `LogOnlyGrows`, `OneCommissioned`, `NeverReassigned`, `BindingsOnlyClose` |
| `store_wellformed` | carrier requests that validate, patches of the product, 6 commits | `ImplementsRegistry`: the store implements `CarrierRegistry` |
| `evidence_worker` | 2 entries, 3 attempts, ledgers that confirm at once or later | `OneAnchor`, `ConfirmedIsAnchored`, `ReasonTellsOutcome`, `StatesAdvance`, `EventuallyTerminal` |
| `besu_ledger` | 2 entries, 2 attempts | `ConfirmedIsMined`, `TransactionsBounded`, `TerminalUnlessReverted`: only a revert keeps entries from a terminal state |
| `exchange_api` | 2 threads, 6 calls (two bodies under one key; the same event with a key and without; a creation, a carrier, a patch), 4 sendings | `TypeOK`, `KeyWritesOnce`, `SameAnswer`, `IdentifiersOnce`, `AnswersAreTrue`, `PatchesBuildOnRead` |
| `passport_reads` | 3 passports, 2 versions each, 2 instants, pages of one, an anonymous caller, a collector without an organisation and a sorting operator with one | `CompleteUnlessCursorMoves`, `NoVersionTwice`, `NothingBeyondGrants` |
| `read_index` | 2 passports, 2 versions each, clock to 3, limit 1 | `TypeOK`, `CaughtUpIsCurrent`, `ReadsSeeFinishedWrites`, `ProjectionsAdvance`, `StaleOnlyWithinLimit` |
| `sorting_line` | 2 passports, 2 identifiers and a malformed one, windows of up to two tags, a suppression window of 2, calls that fail in four ways | `TypeOK`, `AnswersWereTrue`, `SettledReadsAreExact`, `NothingSlipsThrough`, `StandingItemIsCommanded` |
| `document_exchange` | 4 bodies, 4 carriers, 4 patches, 6 observations, 3 versions, 3 entries | `ExchangeIsLossless`, `PlainHistoryExports`, `OccasionsJudgeThemselves`, `ClaimsStaySeparate` |

Five commits are enough to bind an identifier, replace it, bind it back and try
it on the other passport; six add a step for refinement.  Three attempts allow a
time-out, another failure, and a late receipt; two entries are needed for one to
block another; two attempts are the least that can duplicate a transaction.  Four
sendings by two threads allow an original, an overlapping and a later retry, and a
foreign call in between.  A clock to 3 with limit 1 has lags of 0, 1 (served) and 2
(refused).  The line handles one detection at a time and the store one writer:
two identifiers allow a passport to be given another while the first is looked
up, two passports a refused reassignment; nothing in `SortingLine` is counted but
the time within the window, so the run has no bound of its own.  A window of 2 has
a repeat inside it, one at its end and one after it.  The three callers have the default
views in which the code and the matrix agree, differ by the mass, and differ by three
members; the theorem is about every role.  The bodies of
`document_exchange` are the shapes of the schema, each once: an empty, a single
and a repeated list, a nested object, a Boolean, the forms of a number, a member out of order; three
entries add up to a composition at, below and above the limit, from one occasion
and from several.

Three passports are the least of which one is listed, one is the cursor and one is
still to come; two instants give both equal and different stamps.

Bounds on counters are `MaxCommits`, `MaxEntries`, `MaxSends`, `MaxVersion`, `MaxTime`;
the code has none of them (`MaxAttempts`, `MaxLag` and `Window` are its own parameters).
The store and API runs end at their bounds, so they say `CHECK_DEADLOCK FALSE`;
in all other runs deadlock is checked.

Runs that must fail show where the program and its documentation disagree:

| Run | The code |
| --- | --- |
| `store_malformed` | a carrier request that fails validation has already unindexed the open binding, against "or nothing is" |
| `evidence_raises` | a submitted, unconfirmed entry makes the next `drain` raise before the entries behind it |
| `exchange_overlap` | a retry that overlaps its original writes twice under one idempotency key |

Seen while modelling, without a run of their own.

Store and evidence:

* A passport created with carriers is not indexed, so its identifier can be bound
  to another product (`store.py:148`; `store.py:11` says an identifier is never
  reassigned).  The theorems' condition `CarriersOnlyCommissioned` excludes it.
* An administrator's patch of `dppId` is committed under the identifier it carries
  after the merge (`store.py:353`): the version lands in another passport's history,
  which then begins in the middle, and the patched passport does not advance.  `store.py:7`
  promises that every accepted write "retains the prior version", and
  `docs/first-dpp.md:76` calls the identifier stable.  Add `[dppId : Dpps]` to the
  administrator's patches and `HistoryRetained` is violated by one creation and one patch.
* A brand may patch `identity.epc`, because `check_patch_paths` compares first
  segments (`access.py:205`).
* An entry given up after time-outs stays `terminalFailed` when its anchor is
  confirmed later (`evidence.py:113`).
* `reconcile` moves `retryableFailed` to `submitted` without `transition()`
  (`evidence.py:121`, allowed for explicitly in `StatesAdvance`).
* A rejected submission is final although the reason catalogue says
  `retrySameEvidenceId` (`evidence.py:91`).
* On Besu, a lost answer leaves no receipt, and the next `drain` sends a second
  transaction for the same evidence (`ledger/besu.py:89`; `ledger/base.py:47` and
  `ledger/besu.py:88` say otherwise).  The anchoring contract, which is not in the
  repository, may mine both or revert the one that has the receipt.
  `TransactionsBounded` is what does hold.

Reads:

* A passport written while it is the cursor of a traversal moves to the end of the
  list, and the next page begins behind passports not yet listed, which are
  silently missed (`api.py:385`; `docs/scalability.md:23` promises the contrary).
  Without its condition `~moved`, `CompleteUnlessCursorMoves` is violated by such a trace.
* `attach()` to a store that has been quiet longer than the limit makes every
  projected read refused (`index.py:44`); a read between a commit's time stamp and
  its callback sees the whole quiet period before it as backlog (`index.py:70`).
* The access matrix is data, and `project` does not read its views: `_SORTING_PRODUCT`
  (`access.py:96`) adds `colourPrimary`, `condition` and `mass` to the partner view and
  `mass` to the sorting view.  `spec/access-matrix.json:109` to `:128` grants neither view
  the mass, and the partner view none of the three; `docs/security.md:90` to `:92` agrees
  with the matrix, and `:62` says of it "The policy is **data**, not code".
  `NothingBeyondGrants` takes the matrix for its measure, names these members as
  `Excess`, and says that there is nothing else; without `Excess` it is violated by the
  first page a collector fetches.  The environmental values of the authority are in
  the table of `docs/security.md:93` and not in the matrix.
* View ranks are not ordered by inclusion, although `access.py:49` and
  `docs/security.md:82` order them "narrowest to widest": whoever may have `sorting` may
  have `partner` (model, batch, own events) and `integrityOnly` (integrity entries) too,
  and each shows something `sorting` does not.
  `NothingBeyondGrants` counts a view of lower rank as one the caller may have, as
  `resolve_view` does (`access.py:88`).

The sorting line:

* `commission_carrier` takes the replaced carrier out of the index (`store.py:238`) before
  it enters it into the retired ones (`:239`), and `resolve_carrier` asks in that order
  without the lock: a read in between answers `S4C-IDENT-UNKNOWN`, against
  `tests/test_api_contract.py:278` ("resolves as retired rather than unknown") and
  `docs/api.md:111`.
* An accepted tag read is remembered before the service is called
  (`gateway/readzone.py:80`), so a read repeated within the window is suppressed although
  the call failed.  For a failure that diverts, the item has been diverted.  For
  `S4C-RATE-LIMITED` the catalogue says back off: the item passes, and so does it
  when it is read again within the window.  `NothingSlipsThrough` names both cases;
  nothing else passes.
* `docs/sorting-integration.md:268` calls `S4C-DEP-UNAVAILABLE` a back-off condition too,
  where the catalogue says divert (`reason-codes.json:214`).  The model follows the
  catalogue, which `safe_action` reads.  The service has no limiter of its own
  (`docs/security.md:185`); what is in front of it may answer `S4C-RATE-LIMITED`.

Documents (`docs/interoperability.md:70` to `:75`, `docs/conformance.md:205` and
`docs/traceability.md:153` and `:154` promise a conversion without loss and XML answers, with no
exceptions named):

* An XML answer fails with 500 for passports the service accepted, after the write
  when the request was one.  That happens for carriers with a `resolverUri` or a
  `placement` (written after members the schema puts behind them), for
  `sampleId` or `sourceRecordId` followed by a commissioning (`epc` comes last),
  for bodies and patches whose members are in another order than the schema's, for
  numbers Python writes with an exponent (`1e-05`), for empty strings, and for
  impossible dates, which the JSON pattern admits and `xs:dateTime` does not.
  `PlainHistoryExports` excludes these by name; without `Plain` a patched mass of `1e-05` violates it.
* `to_xml` leaves out empty arrays at the top level; `from_xml` reads the
  `xs:boolean` `1` as false (`exchange.py:156`); XML normalises `\r\n` in texts.
* A composition of exactly 100.5 per cent is accepted or refused by the order of its
  parts on Python 3.11: 99.9 + 0.4 + 0.2 is refused, 0.2 + 0.4 + 99.9 is not
  (`validation.py:99`).  `OccasionsJudgeThemselves` leaves that sum open.
* `rdf_to_json` of a merged graph returns any of its snapshots; environmental nodes are
  named by position, and observations of one `observationId` share a node.
* Of two entries of an acceptance plan with one key the last counts, silently
  (`governance.py`).

### What the properties leave out

`KeyWritesOnce` and `SameAnswer` are about keys no two threads
worked on at once: with overlap they are false, which is `exchange_overlap`.
`IdentifiersOnce`, `AnswersAreTrue` and `PatchesBuildOnRead` hold with overlap too.
The index properties leave out passports written while `attach()` works from its
copy (`raced`): the copy may then overwrite a newer projection.  `create_app`
attaches before it serves, so the program does not do this.
`PassportReads` takes wall-clock stamps never to decrease: a clock set back during a
traversal can move a passport before the cursor.
`SettledReadsAreExact` leaves out a carrier read that a commissioning of its own
passport overlaps (`disturbed`): between the statements the tables and the record
disagree, and `AnswersWereTrue` says what is left, one instant of the tables.  At some
instants a carrier being replaced is in neither table, and both properties permit that it
is answered as unknown then.  That a passport given back an identifier of its own ends
up indexed under it (`store.py:261`) is `ImplementsRegistry`, in `store_wellformed`.
`CommittedTogether` is about what a write consists of: record and outbox change under
the lock, and no reader takes both.
`PlainHistoryExports` is about passports whose clients keep the schema's member
order, without the members named above.
`ClaimsStaySeparate` is about bodies whose observations have identifiers of their own
(`BodyIdsAreUnique`): the endpoint for observations refuses a repeated one, but a body
that is created with two of one identifier is accepted, and they share a node.

### Fairness

`EventuallyTerminal` assumes that a call which has begun goes on (`WF` of the steps
inside it), that the ledger confirms what it accepted (`WF`), and that both
`drain` and `reconcile` are called again and again.  The code has no scheduler:
the operator or a test calls them, so this is an assumption about the deployment.
It is `SF` because a call can only start while no other is running and the two
compete.  Without `reconcile` the property is false, since a submitted
entry makes every `drain` raise.  `BesuLedger` assumes the same, and that a node asked
again and again about a mined transaction at last answers (`SF` of `StatusMined`);
that reverts are excluded is part of the property, as each `reconcile` raises at
a reverted transaction and the code has no other way to end it.  
`StandingItemIsCommanded` assumes that time passes and that the line finishes the
detection it has in work (`WF`), that the standing item is detected again and again
while the line is free, and that not every one of its calls fails (`SF` of `Accept`,
`LookUp` and `GetRecord` for it).  The first belongs to the machine; the others are
what an item that stays in the zone, and a service that is reachable, mean.  Nothing
is assumed of the writers: they may commission for ever.
All other runs are safety only.

## 4. Proofs

`PassportStoreProofs`, for all sets of passports, identifiers, bodies and all bounds:

* `TypeCorrect`: the store is well typed and each record lies under its own
  `dppId`, from the named assumptions on the bodies only.
* `HistoryIsRetained`, if `PatchesKeepDppId`: every write is "the next version of
  one passport" (`StepIsNextVersion`), and such a step extends one history by its
  successor.
* `AtMostOneCommissioned`, if `CarriersOnlyCommissioned`: whatever bindings a
  record has, `Close` leaves none open and one is added.
* `IdentifiersNeverReassigned`, if both hold.  `NeverReassigned` is not
  inductive: the duplicate checks read two tables, the property speaks of all
  versions.  `OwnershipRecorded` closes the gap: the tables name an owner for every
  identifier in every version, and never two.  It survives `CommissionFails`,
  which moves identifiers from one table to the other.

* `EvidenceKeepsVerifying`, if `PatchesKeepDppId`: every outbox entry carries the
  digest of a version in the history; the history keeps it, so it verifies for ever.
* `VersionsAreQueuedOnce`, if `PatchesKeepDppId`: the outbox has the versions of a
  passport in the order and number of its history.
* `LogsOnlyGrow`, if `PatchesKeepDppId`, and `BindingsAreKept`, if both hold: appends are
  the only writes to a log, and `Close` changes a status alone.

`StoreImplementsRegistry`, in the same module, if both hold and `RequestsValidate`.  A step of the store is a `Bind` or a stutter of the registry; the
invariant `IndexMirrorsRecords` (the index is the inverse of what the records show
as commissioned) and `OwnershipRecorded` supply what the mapping needs.

The conditions are on request bodies, and the code enforces none for every
caller: an administrator may patch any member, a created passport may hold
carriers, and a request may fail validation half way.  `store_malformed` shows that
the last one is needed: a failed request takes a binding out of the index.

`EvidenceWorkerProofs`, for every `MaxAttempts` and `MaxEntries`: `TypeCorrect`,
`AtMostOneAnchor`, `ConfirmationsAreAnchored`, `AttemptsStayBounded`,
`ReasonsTellOutcomes`, `PositionsAreConsistent`, `EntriesAdvance`.  The inductive
invariant `IInv` is their conjunction.  `Consistent` carries it: what the worker
learned in one step (a receipt, a state) is still true in the next, although commits
and confirmations happen in between, because the outbox only grows and receipts only
advance.  `TypeCorrect`, `AttemptsStayBounded` and `PositionsAreConsistent` are
proved and are in no run.  `AttemptsStayBounded` says that evidence the ledger has no
receipt for is submitted only while fewer than `MaxAttempts` attempts are counted, and
that the count never exceeds `MaxAttempts`.  It is not a bound on submissions: every
`drain` hands an entry that is already submitted to the ledger again and counts nothing,
since the transition after it raises (`evidence.py:88` and `:97`).  `EntriesAdvance` is an action property: one
case per action, each entry it writes shown to change its state along the transition
table (`WrittenLegally`), every other entry left as it was.

`BesuLedgerProofs`, for the same worker on the other adapter: `ConfirmationsAreMined`,
`DuplicatesAreBounded`.  A bound on transactions is not inductive: the worker counts
attempts and the node transactions.  `IInv` relates the two while an entry has no
receipt (`OutboxInv`), says that a receipt names a transaction that was sent
(`ChainInv`), and where a queued entry may have a receipt: only under the worker that
has just submitted it (`WorkerInv`).

`ExchangeApiProofs`, for every number of threads, set of calls and keys, and however
often calls are sent: `TypeCorrect`; `IdentifiersAreUsedOnce`; `NoLostUpdate`
(`PatchesBuildOnRead`), from `VersionsOnce`, that the versions written are those the
passport went through, each by one write; `ClientsAreToldTheTruth`
(`AnswersAreTrue`), from `TruthCarried`, that no response on its way, remembered or
delivered says more than was written; `OneWritePerKey` and `OneAnswerPerKey`, from
`KeyInv`, which follows one key: one thread at a time works on it, it writes only if
nothing was written, and what was written is remembered or about to be.  The last
two hold for keys that were never overlapped, as the properties say.

`PassportReadsProofs`, for every set of passports, page limit, clock and caller:
`VersionsAreListedOnce`, `TraversalsAreComplete`, from `TraversalInv`: what was listed and
is unchanged is not behind the cursor (`ListedBefore`), and what is still to be listed
is (`RestIsAhead`), as long as the cursor is as it was listed.  A commit only moves a
passport towards the end, so neither is broken by one, but for the second by a commit of
the cursor.  `PageIsPrefix` says that a page is a beginning of what is left, by the least of a
set of cardinalities.  `NothingIsShownBeyond`: view by view, `Project` shows what the matrix
grants and at most `Excess` besides, and `ResolveView` gives no view above the default's
rank; for every role and every sequence of requests.

`ReadIndexProofs`, for every set of passports and limit: `TypeCorrect`;
`CaughtUpEqualsStore`, `ProjectionsOnlyAdvance`, `ReadsSeeWrites`, `StalenessIsBounded`.
`IndexInv` places every record: absent, on the work list of `attach()`, or
projected.  `ReadInv` brackets what a reader has seen between its floor and the
projection.  `Stamped` and `MarkIsProjected` tie the progress mark to the stamp of a
projected version, from which the bound on staleness follows.

`SortingLineProofs`, for every set of passports and identifiers and every window:
`TypesHold`; `LookupsAreConsistent`, although three reads take no lock: an
identifier leaves the index before it is among the retired ones, and what a reader
finds of it was the answer at one of the instants taken down in `seen`;
`NothingPassesUnseen`, from `WindowIsAccountedFor`: for every identifier accepted less than
a window ago, its call is still running, or was refused for its rate, or led to a
command or a diversion no longer ago than that; `SettledReadsHold`, from `IndexedIsOpen`, `ListedIsKnown` and
`WriterHolds`: tables and records disagree by what the writer has in hand, and by
that alone.

`DocumentExchangeProofs`, for documents of any size that meet the schema (`Typed`: each
key at most once and of the type the schema gives it, no key it does not name, no
empty string in an observation), histories of any length, and any set `RoundedUp`:

* `PassportsAreDocuments`: what the service holds is a document of the schema, and an
  XML answer is `to_xml` of it (`DocumentInv`).  `StepCases` reduces every step to a
  creation, a hand-over, a patch, an observation, a commissioning or nothing written;
  `MergedMembers` says that `merge_patch` leaves members of the schema.
* `ExchangesAreLossless`, from `DocumentIsRead`: reading back what was written gives a
  document again, the same up to order, number form and empty arrays, and the
  canonical form drops just those.
* `ClaimsAreSeparate`, if `BodyIdsAreUnique`, from `Attribution`: every claim in the graph
  was made by an observation the passport still has, under an identifier of its own.
  The property alone is not inductive, since claims of earlier versions remain in
  the graph; that observations are only ever appended, and read back with the same
  values, carries it.
* `OccasionsAreJudgedApart`, from `Composed`: what is in the service has passed
  `check_composition`, so a new observation can only be refused by its own group.
  Sums are a recursive function; that one exists (`SumExists`), that it is unique
  (`SumsAgree`) and that one more summand adds itself (`SumOfMore`) are shown by the
  least counterexample, as the induction theorems cannot be used.
* `PlainHistoriesExport`, from `Orderly`: while clients keep to the order of the schema,
  the document is in it.  Every write that touches order has its own lemma:
  `merge_patch` (`MergedOrder`), the service's own `epc` (`EpcInOrder`), a closed binding
  (`ClosedInOrder`), a new entry (`EntryInOrder`), and `InOrderIsValid` takes the order to
  the verdict of the XSD.

With these, every safety and action property of the passing runs is a theorem.
Model-checked only: `EventuallyTerminal`, `TerminalUnlessReverted` and
`StandingItemIsCommanded`, since liveness under fairness is beyond the prover.

## 5. Not modelled, and the plan

Not modelled:

* the verdicts of integrity verification (`LedgerAdapter.verify`, the verify
  endpoint), and the problem documents of the API;
* the rules of the JSON Schema, which the models' inputs meet; byte-level encoding;
* arrays of a document whose items add no shape of their own, and the XML encoder of
  `mapping.py`, which nothing calls;
* identity providers (`auth.py`), and scopes but for the one every role has;
* governance checks, the public summary, CLI, configuration, synthetic fixtures and
  release tools.  They keep no state and decide nothing another component depends on.

Left for later: `LedgerContract`, the abstract ledger of `base.py`, which the in-memory
ledger implements and the Besu ledger does only when no answer is lost, with the
verdicts of verification.
