# Verification of dig-node-control-interface

The crate is the contract between a dig-node and the programs that control it: the method catalog,
the JSON-RPC envelopes, typed parameters and results, the error taxonomy, a typed client, a
dispatcher every node serves through, and, in `src/src/kats.rs`, a reference node (`MockNode`) that
the conformance tests run against. `SPEC.md` names those tests as the tie-breaker wherever document
and code disagree, so where a method needs a node behind it, the modules here model what `MockNode`
does.

This directory models that contract in TLA+, checks small instances with TLC and proves theorems
about the modules, for every value of their constants, with TLAPS.

    cd tla
    tlc -workers 2 -config MCReservations.cfg MCReservations    # a run
    tlapm ReservationsProofs.tla                                # a proof module

`PROJECT.json` lists the components, the runs, for every property a mutation of the code that breaks
it, the source lines of every definition, the findings, the hazards and the theorems.

## 1. The system

| Component | State | Operations | Modelled in |
|---|---|---|---|
| Method catalog (`method.rs`) | none | `from_name`, `category`, `is_open_read`, `requires_auth`, `is_pairing_admin`, `requires_master_token` | `Catalog` |
| Error taxonomy (`error.rs`) | none | `code`, `from_code` | `Catalog` |
| Envelopes (`envelope.rs`) | none | `success`, `error`, `into_result`, the serde attributes | `ControlPlane` |
| Typed client, dispatcher (`traits.rs`) | calls in flight | `build_request`, `parse_response`, `dispatch`, `dispatch_method` | `ControlPlane` |
| Watch registry | `ENROLLED` | `wallet.watch`, `.unwatch`, `.watched` | `ControlPlane` |
| Collateral margin | `MARGIN_BP` | `margin.get`, `margin.set` | `ControlPlane` |
| Coin reservations | `RESERVATIONS`, the clock | `reservations.held`, `.reserve`, `.release` | `Reservations` |
| Pairing and token authority | pairings and tokens, kept by the node | `pairing.*` | `Authority` |
| Chia peers | trusted, discovered and banned peers, kept by the node | `chiaPeers.add`, `.list`, `.remove`; `canonical_peer_ip` | `Authority` |
| Paged coin reads | the coin set, the client's cursor | `wallet.coins`, `.coinsByParent` | `CoinWalk` |
| Arrivals | a ledger, the client's position | `wallet.arrivals` | `ArrivalsWalk` |
| Automated-spend audit | a record of revisions, the client's cursor | `spends.list`; `SpendOutcome`, `SpendFailureStage` | `SpendWalk` |
| Payload types (`params.rs`, `results.rs`) | none | what each key holds, and what a missing or null key reads as | `Schema`, `Requests` |
| Payloads between builds | a payload in transit | encoding, relaying, decoding; `WalletSyncPhase`; the serializer of `AssetId` | `Wire` |
| Mirror bonds, reconciliation, collateral requirement and buffer | the node's, canned in `MockNode` | their payloads only | `Schema`, `Requests` |
| Balance, peak, broadcast, profile bodies, status, config, log, cache, stores, sync, peers, subscriptions | shell or engine state, canned in `MockNode` | their payloads, and one external action | `Schema`, `ControlPlane` |
| Peer software strings; updater and per-peer status | none | parsing, raw JSON | no |

**How they interact.** A client builds a request with `build_request`; a transport the crate does not
own carries it; `dispatch` resolves the name against the catalog, decodes the params, runs the checks
of the method's arm, awaits the node's handler and wraps the outcome; `parse_response` turns the
response into a typed result. A gate in front of the dispatcher, which belongs to the node, asks the
catalog who may call what. The stateful handlers share nothing but the node.

**What is hard.** `dispatch` takes `&self` and is asynchronous: calls of several clients overlap,
finish out of order and are answered out of order; the transport may lose either direction; a client
may give up on a call that then takes effect. Reservations are shared by processes that crash,
forget, retry and race the clock. Params are checked in two layers, and which layer checks which
method is decided type by type. Persistent effects outlive the token that caused them. Pages are read
from a set that changes between pages. Nodes and clients are built and updated apart, so that a payload
may be read by a build older or newer than its writer. `PROJECT.json` lists the hazards, each at its line with the
properties aimed at it.

**What makes each part correct.**

- *Reservations*: one coin, one live hold; every hold lapses; what a caller was granted it holds;
  a request is all or none.
- *Dispatch*: every call is answered once, with its own answer; no handler sees params its type
  refuses; an effect happens at most once and the answer reports it.
- *Registry*: the counts reported reconcile with the registry.
- *Authority*: tokens come from the operator; revocation takes back all authority; the operator knows
  whom the node believes; a ban never turns into trust.
- *Walks*: nothing missed, nothing twice, and an end.
- *Payloads*: what is read was said: builds of different ages understand each other, and no lost key
  and no misrouted answer becomes a verdict, a settled wallet or consent.

## 2. The modules

### Reservations, ReservationContract, MCReservations, ReservationsProofs

`Reservations` is `MockNode`'s table (`kats.rs`, `RESERVATIONS` and the three `wallet_reservations_*`
handlers). Each handler borrows the table exclusively from beginning to end, so each is one action
per way out of it.

| TLA+ | Code |
|---|---|
| `table` | `RESERVATIONS`: handle to coins and expiry |
| `now` | the node's clock, from `MOCK_NOW_UNIX` |
| `normalize_coin_id`, `well_formed`, `validated` | the checks of `WalletReservationsReserveParams` |
| `applied_ttl` | the default and the clamp |
| `NextHandle` | `format!("mock-res-{}", table.len() + 1)` |
| `ReserveMalformed`, `ReserveClash`, `ReserveGrant` | the three outcomes of reserve |
| `ReleaseKnown`, `ReleaseUnknown` | the two outcomes of release |
| `Held` | the read |
| `grants`, `handed`, `Crash` | clients: what they rely on, what they remember, their death |

`minted`, `mints` and `reused` are history. The test build pins the clock; `ClockRuns` chooses
between that and a clock that ticks, which is what the handlers' comparison with the clock is for.
Coin ids have three spellings: bare, with a tolerated `0x`, malformed. Clients release only handles
they were given, although `held` shows everybody's (see the hazards).

`ReservationContract` says what a caller is promised (the obligations written on the handler trait's
`wallet_reservations_*` methods), with a set of holds and no table: a grant is whole and under a fresh
handle, a clash is the only refusal of a well-formed request, only a live hold is reported released.
`HonoursContract` is the refinement. It names the two kinds of step at which the code departs from
the contract, `ReusesHandle` and `ReleasesLapsed`; each has a run of its own that reaches it.

### Catalog, ControlPlane, ControlContract, MCControlPlane, ControlPlaneProofs

`Catalog` holds the sixty-one wire names by area, the authorization predicates and the sixteen error
codes.

`ControlPlane` models calls under way. A request is in `requests` until dispatched, in `running` while
its handler is awaited, and its answer is in `responses` until its client takes it.

| TLA+ | Code |
|---|---|
| `Send`, `build_request` | `build_request` and the client's own id counter |
| `Refuse` (`RefuseUnknown`, `RefuseParams`) | `dispatch` up to the first await, answering an error |
| `Accept` | the same, going on to the handler |
| `Ruled`, `KeepsRule` | the methods whose params types state a rule on values, and the rule |
| `ChecksOnDecode`, `ChecksInDispatch`, `TakesNoParams` | where the rule is enforced: which params types check on decode, which arms call `validated()`, which arms never look |
| `LeftToHandler` | the rules that neither layer enforces, because the docs leave them to the handler |
| `wallet_watch`, `wallet_unwatch`, `wallet_watched`, `collateral_margin_get`, `collateral_margin_set`, `wallet_reset_coin_db` | the handlers with state, or a check, of their own |
| `external_handler` | every other handler: a result of its type, null where it hands on raw JSON, or any catalogued error |
| `Carried`, `into_result`, `parse_response` | serialization of an absent and a null result, and reading back |
| `LoseRequest`, `LoseResponse`, `GiveUp` | the transport and the client's deadline |

Params are reduced to what the dispatcher tells apart: whether they have the right shape, the keys
listed with their spellings, a number, and whether the rest keeps its type's rule. `Ruled` is read off
the params types, `ChecksOnDecode` off their `Deserialize` impls and `ChecksInDispatch` off the arms,
each by itself, and `OnlyCheckedCallsRun` compares them: a method with a rule is asked with a broken
one whether or not anybody checks it, so that dropping `validated()` from an arm that is the sole
enforcement (`setMirrorAdvertiseUrls`, `traits.rs:808`; `margin.set`) or the check from a
`Deserialize` that is one (`wallet.coins`, `reservations.reserve`) is a violation. Four rules are left to
handlers: a reset is confirmed, the address of a Chia peer is a bare literal (two methods), a profile body
has a maximum size. A client waits for
one call at a time; that it matches the answer by id is the client's duty (`parse_response` does not
look), stated in `Receive`.

`ControlContract` has no messages: open calls, answers, and the two pieces of state. A call is
performed at one instant, an error changes nothing, a success reports exactly the change it made.
`HonoursContract` maps `open` to `requests \cup running`.

### Authority, MCAuthority, AuthorityProofs

Apps and the operator call methods through the node's gate, which asks `requires_auth` and
`requires_master_token`. The predicates, the canonical form of an address and what `add` reports of a
ban are this repository's. The gate, the token store and the book of peers are the node's, modelled from
what the types and the handler trait say of them, and marked external: `MockNode` answers about one
trusted and one banned address and keeps no book.

| TLA+ | Code |
|---|---|
| `Authorized` | the gate, over `requires_auth` and `requires_master_token` |
| `pairing_request`, `_approve`, `_poll`, `_revoke` | the pairing methods, external |
| `Spelling`, `canonical_peer_ip` | an address as typed, and the one form the book is keyed by |
| `corroboration_bypassed` | what `MockNode::chia_peers_add` reports: no bypass for an address under a ban |
| `chia_peers_add` | external: the book after an add of which that report is true; a ban is lifted and nothing else |
| `chia_peers_remove`, `ban` | external: remove, optionally with a ban; what is not tracked is reported as such |
| `told` | history: what the operator's answers say of each peer |

On the add that meets a ban the repository contradicts itself (section 6); the model follows the
reference node and its test. An invalid address is refused before any of this and changes nothing. The
model leaves out the ceiling on bans, and
`control.config.setUpstream`: it persists and needs only a paired token, which `method.rs:459`
records as a known exception.

### CoinWalk, CoinWalkProofs

A client walks pages until one says it is complete, while coins are spent and arrive, answers are
lost, and the node is replaced by one from before paging, which ignores cursor and limit and says
nothing of completeness. Coin ids are numbers, because fixed-length lowercase hex compares like
numbers. `wallet.coins` and `wallet.coinsByParent` page by the same code.

### ArrivalsWalk, ArrivalsWalkProofs, MCWalletReads, WalletReadsProofs

A client polls for payments after a ledger position. One answer is made of two reads: the page, then
the head of the ledger (`wallet_arrivals`, `ReadLatest`), with arrivals in between. `cursor` is the
last row's position or, on an empty page, the client's own; `latest` is for a first run that wants to
begin now (`BeginNow`). `MCWalletReads` runs `CoinWalk` and `ArrivalsWalk` side by side, one behaviour
reading one of them: they share nothing, so their state spaces add up.

### SpendWalk, SpendWalkProofs

The audit record of automated spends, read newest first with ids as tie-break (`audit_page`), in one
walk or in two adjacent half-open windows. Meanwhile the node writes new spends and revisions, entries
become unreadable, and the network includes any bundle that was signed, whatever the node saw of it.

| TLA+ | Code |
|---|---|
| `record` | rows of `AutomatedSpend`, each at its highest revision |
| `Learns` | the outcomes a producer writes next, from the docs of `SpendOutcome`'s variants |
| `Initiate`, `Revise`, `Corrupt`, `Lands` | the producer, the record and the network, external |
| `money_may_have_moved`, `outcome_is_unknown` | the methods of `SpendFailureStage`, `SpendOutcome` |
| `InWindow`, `Matching`, `Before`, `Remaining`, `First` | the filter, the order, the cursor, the page |
| `unreadable_lines` | the count every page carries |

A walk filtered by outcome is the exception in `NothingMissedUntold`: a row that changes outcome
leaves the filter, the cursor naming it matches nothing, and the code answers an empty page that says
it is complete. The model reaches this; section 6 says more.

### Schema, Requests, Wire, WireProofs

`Schema` gives every result and row type, and `Requests` every params type, as a function from keys to
fields. A field says what the key holds and what a reader makes of it when it is null or missing, so
that serde's attributes are values here: `Option` (missing reads as none), `Skipped` (none is left
out), `required_option` (null is none, missing is an error), `Default`. A tagged enum is a set of
structs, one per variant, and `Merged` is serde's flatten. `MCWire.cfg` runs `Wire`, in which one
payload of any of the 111 types is written by an older or a current build, relayed by builds that
decode and encode it again, may lose a key or be taken for the answer to another method, and is read.
The older build lacks the keys the comments and tests call later additions, one sync phase, and every
CAT but $DIG. Unknown keys are ignored, as by serde's derive. A writer says the usual value on every
key but one, on which it says any value that readers tell apart.

## 3. The runs

| Run | Question | Result |
|---|---|---|
| `reservations_safety` | Do two processes ever hold one coin, hold it for ever, or lose a hold they were granted? | holds, until a handle is reused |
| `reservations_lapse` | Does every held coin come back by the clock alone? Does each step honour the contract? | holds |
| `reservations_handle_reuse` | Is a granted coin always held? | **violated**: reserve, reserve, release the first, reserve mints the second handle again and overwrites a live hold |
| `reservations_lapsed_release` | Is only a live hold reported released? | **violated**: a zero-second hold is born lapsed, its release answers `released:true` |
| `control_interleaved` | Do overlapping, lost and abandoned calls keep to whole-call semantics and honest counts? | holds |
| `control_catalog` | Over the whole catalog: is every call answered, and are params always checked before a handler runs? | holds |
| `control_reset_unconfirmed` | Is a decoded reset a confirmed one, as the comment on its arm says? | **violated** |
| `control_null_result` | Does every response carry exactly one of result and error where it is read? | **violated** by a null result |
| `authority_revocation` | Can a chain of allowed calls mint a token, outlive a revocation, leave a peer believed behind the operator's back, or turn a ban into trust? | no |
| `wallet_reads` | Are walks over a changing coin set and polls of a growing ledger complete, without repeats, and finite? | yes |
| `spend_walk` | Does an audit hand over every spend once, or say that entries are missing, and do its rows tell the truth about the money? | yes, for walks not filtered by outcome |
| `wire` | Between builds of different ages, over relays and with a key lost or an answer misrouted: was everything that is read said? | yes, with the exceptions named in `Verdicts` and `Lookalikes` |

**The four violations** are disagreements between code and documents. They are recorded as findings
with the lines that disagree. The first two are in the reference node only: a real node that counts
its handles is not affected, but one written after the example would be. The third leaves the refusal
to the handler, which `MockNode` does perform. The fourth reaches only handlers that hand on raw JSON,
across a transport.

**Bounds, and why they are enough.**

- *Reservations*: two clients and two coins suffice for any clash, which is between one holder and one
  request; three grants give two live holds and the one that reuses a handle; the maximum lifetime of
  two ticks lies between the lifetimes asked for (0, the default 1, and 3, which is clamped); the
  horizon lets the longest hold lapse and another be taken after it. `MaxIds` = 2 allows one coin
  under two spellings and one bad id beside a good one.
- *ControlPlane*: three calls of two clients let one client overtake another and a given-up call take
  effect after its successor was sent. One client and one call suffice for the catalog, whose methods
  do not interact; there the keys come in all three spellings, two to a request. The margins asked
  for lie on both sides of the maximum.
- *Authority*: two apps and three pairings let one app hold two tokens while the other asks; with three
  addresses one can be trusted, one discovered and one banned at once, and two spellings per address are
  one more than the canonical one. 11,120 states.
- *CoinWalk*: five ids, pages of at most three rows, page sizes 0 and 4 illegal, so that page sizes
  that divide the count and ones that do not both occur over several pages.
- *ArrivalsWalk*: four arrivals and pages of one or two rows: a poll can be behind, level, and
  overtaken between its two reads. With CoinWalk 121,614 states.
- *SpendWalk*: three spends over two instants give ties, an edge between two windows at the later
  instant, page sizes 1 and 2 among the illegal 0 and 3; one revision and one corrupted entry at any
  moment. 682,000 states.
- *Wire*: one payload at a time, since payloads do not interact; two relays allow every order of ages
  (older between two current builds is where knowledge is lost); one lost key, since each reading
  depends on the keys one by one. 206,913 states.

Symmetry is used for clients, coins, keys, apps and addresses, which no action or property names, and
only in runs without liveness properties. `CHECK_DEADLOCK FALSE` is set where the model stops: at a
bound on calls, grants or time, when an audit has been read to its end, or a payload has been read.

**Fairness, and why.**

- `Reservations`: the clock ticks. No client need ever release, and none need survive.
- `ControlPlane`: the node dispatches what arrived, handlers complete, and a client that waits reads
  what is there for it. That is the executor's promise plus a handler that returns; nothing is assumed
  of a lossy transport, so the liveness run has a faithful one.
- `CoinWalk`: the node answers and the client reads; delivery is strongly fair, because an answer may
  be lost again and again but not always. Coins may come and go for ever.
- `ArrivalsWalk`: the client polls again and again; the second read of an answer and its delivery are
  strongly fair, for the same reason.
- `SpendWalk`: the client starts, the node answers, delivery is strongly fair. The node need not ever
  stop making spends, nor revise any.

## 4. The proofs

Constants are restricted only by each module's `ConstantsAssumption`: naturals where numbers are
meant, finiteness of the sets that are counted or searched for a first element, and a default margin
within its maximum. `ArrivalsWalk` is instantiated beside `CoinWalk`, so its assumption is a definition
that `MCWalletReads` assumes (TLC evaluates it) and its theorems name.

- **ReservationsProofs.** The inductive invariant joins type correctness, disjoint live holds, bounded
  holds, `HandlesAreMinted` (the table and the clients' memories contain minted handles only),
  `OneOwner` (until a reuse, one client at most remembers a handle) and `BackedUnlessReused`. The last
  three are needed because a release removes an entry by handle alone: it harms nobody but its owner
  only if nobody else knows the handle. Proved: `TypeCorrect`, `NoDoubleHold`, `NoEndlessHold`,
  `GrantsAreBacked`, `GrantsAreExclusive`, and the refinement `TableHonoursContract`. `NoDoubleHold`
  and `NoEndlessHold` hold even where handles are reused: a reused handle drops a hold, it does not
  double one.
- **ControlPlaneProofs.** The invariant says that a request is in one place, under an id handed out
  (otherwise a call could be performed twice), that running calls keep every rule not left to their
  handler, and that counts reconcile. The second rests on `EveryRuleIsChecked`: the rules are stated by the
  types and enforced by decoding and the arms, and this lemma shows that the latter two between them leave
  out none of the former. Each handler is shown to answer as the
  contract allows (`HandledAsPromised`); cardinalities of unions and differences come from the library's
  theorems on finite sets. Proved: `TypeCorrect`, `CheckedCalls`, `CountsAddUp`, and the refinement
  `CallsHonourContract`. The last part of the module is about whose answer is read: nothing but the id
  ties a response to its call, so of the requests held anywhere, a waiting client's memory included, no
  two share an id, ids never exceed the counter (`IdsAreOwn`), and a response that a waiting client
  would match suits the call that client made (`ResponsesSuit`). A call given up is therefore never
  answered to its successor. Proved: `OwnAnswers`.
- **AuthorityProofs.** Tokens held by apps are named after pairings, so no app holds the master token
  (`NoAppIsMaster`); hence approving, revoking and the peer mutations are the operator's
  (`MasterCallsAreOperators`), and what stands was put there by the operator. Proved: `TypeCorrect`,
  `OperatorMintsTokens`, `RevocationIsComplete`, and the action property `OnlyTheOperatorRevokes`. For
  the peers the invariant adds `BookIsKnown`: the book holds canonical addresses only, no peer is
  both trusted and banned, and the operator's picture is that of the book. From it follow
  `OperatorKnowsTheTrusted` and the action property `BansGrantNoTrust`; neither holds of a book keyed
  by spellings, nor the second of an add that trusts what it finds banned.
- **CoinWalkProofs.** First, lemmas about one page: a finite set of ids has a least element
  (well-founded induction on initial segments), a page is an initial segment of the rows that remain,
  is all of them when it says so, and is not empty while rows remain. Then the walk: everything that
  stayed, up to the cursor, was seen; nothing seen lies beyond the cursor; an answer on its way
  continues from there. Proved: `TypeCorrect`, `WalkIsComplete`, `WalkCountsOnce`, and the action
  property `WalkAdvances`.
- **ArrivalsWalkProofs.** A page follows the client's position without a gap, and stays so while the
  ledger grows; the answer made of it resumes from a row up to which nothing is left out; nothing told
  lies ahead of the position. Proved: `NothingSteppedOver`, `AnnouncedOnce`.
- **WalletReadsProofs.** Every behaviour of `MCWalletReads` is one of `CoinWalk` and one of
  `ArrivalsWalk` (`ReadsCoins`, `ReadsTheLedger`), so what is proved of each holds of the composition
  that the run checks: `ReadsAreComplete`, `ReadsCountOnce`, `ReadsAdvance`, `ReadsAreTyped`,
  `NothingSteppedOver`, `AnnouncedOnce`.
- **SpendWalkProofs.** The rows are totally ordered and no revision moves one in that order. What was
  handed over lies before the cursor or in the window already read (`HandedLiesBehind`), the page on
  its way lies ahead of it (`PageLiesAhead`); conversely, unless the client was told of unreadable
  entries or filtered by outcome, every steady row that lies behind was handed over (`PassedIsHanded`)
  and the page closes the gap up to its own cursor (`PageClosesGap`). `ChainIsSigned` says that money
  moves by signed bundles only. The invariant was checked by TLC on the run's instance before it was
  proved. Proved: `TypeCorrect`, `AuditIsComplete`, `AuditCountsOnce`, `RowsTellTheTruth`.
- **WireProofs.** For any number of relays, where the run has two. The invariants of `Wire` are about
  payloads that were read, of which the next step knows nothing, so the inductive invariant `WireInv`
  says what a payload *in transit* is worth. `Kept` holds of it whatever was lost: a true, a phase, and
  a null on a key from which a verdict is read are on the wire only if the writer said them. It is kept
  because no decoding makes them up: no missing key reads as true, and the protected keys refuse to be
  missing. `Untouched` holds until a key is lost: one struct of the writer's type `Carries` what was
  said, every key as it was said, but for those that an older build lacks, which once such a build took
  part may all be gone or be filled in with what their absence reads as. It is kept because only that
  struct of the type can read the payload (`OneReads`), and what a build reads and encodes again
  carries the same (`CarriesOn`). TLC checked `WireInv` on the run's instance before it was proved.

  The steps rest on four facts about a type: each field is `WellFormed` (a key without a value reads
  as none or not at all, the token of $DIG comes with its CAT, nothing missing reads as consent), the
  phase takes any token, the variants of an enum are `Tagged` (a key that must be there has tokens that
  no other variant has), and what older builds lack may be missing. They are proved of each of the 111
  types. That a misrouted answer is refused needs a catalogue of the 53 results: `Telling` names for
  each the keys it insists on, `ReadersOf` shows which results have all of them, and the pairs left over
  are either among `Lookalikes` or told apart by the values of a key (`AlikeAreApart`). Proved:
  `SpecWireInv`, `TypeIsOK`, `SkewIsAlwaysRead`, `VerdictsAreAlwaysSaid`, `MisroutedIsAlwaysRefused`,
  `SettledIsAlwaysSaid`, `ConsentIsAlwaysSaid`. Of a writer the proofs use only that it gives every key
  a value the key may hold (`SayingsFit`): that it says the usual on all keys but one is a bound for
  TLC, which no proof step relies on.

**Only model-checked.** Every invariant and every action property that a passing run checks is proved.
What is left to TLC is liveness: `EveryHoldLapses`, `EveryCallIsAnswered`,
`EveryArrivalIsTold` and `WalkEnds` (of both walks). Liveness under fairness, like ENABLED, is out of
the prover's reach. So are induction over data and RECURSIVE operators: no module here declares one,
and where a proof needs an induction (a finite set has a least element) it takes it from the library's
theorems. The four violated properties are of course not proved; what holds in their place is, as
`BackedUnlessReused` and `ExclusiveUnlessReused` where handles are reused.

## 5. What is not modelled

- What the node does behind handlers whose answers `MockNode` cans: for `dispatch` they are one external
  action, their payloads are in `Schema`. So the dynamics of mirror bonds, of reconciliation and of the
  collateral requirement are the node's; this crate fixes what is said about them.
- `PeerSoftware`, which takes a peer's software string apart for display; updater and per-peer status,
  which are handed on as raw JSON.
- The grammars of URLs, addresses, asset ids and hex: each is "well formed" or not, and an address has
  one canonical spelling and others.
- Serde's number ranges and duplicate keys; a row inside a list is checked as a type of its own, not
  again inside its list.
- The ceiling on bans: `params.rs:345-356` promises that the oldest ban gives way when
  `MAX_BANNED_CHIA_PEERS` are held, but nothing in the crate reads the constant.
- The rules left to handlers, beyond `resetCoinDb`'s: `MockNode` canonicalises addresses, and does not
  check the size of a profile body (`params.rs:1586`, `kats.rs:2058`).
- Persistence of the registry and the margin over a restart: promised by documents, absent from the
  reference node.
- The duty of `resetCoinDb` to refuse while a spend is in flight (`traits.rs:440`): the reference node
  states that it reproduces the confirmation only.
- Wording, summaries, routing labels, golden JSON, build and release workflows.

## 6. Known disagreements without a run of their own

Met while modelling. The first is a contradiction inside the repository, of which the model takes one
side; the others are reached by a model and stated there, where a property is concerned, as its
exception.

- *What an add does to a banned Chia peer.* `params.rs:388` says of a banned peer that "`add` also
  un-bans, but `add` confers the corroboration bypass", and `SPEC.md:186-187` says the same. In the
  reference node an add of a banned peer "clears the ban and grants no trust" (`kats.rs:1454`), and the test
  `adding_a_banned_peer_reports_that_no_bypass_was_granted` (`kats.rs:4765-4791`) demands it. `SPEC.md:6`
  makes those tests the tie-breaker, so
  `corroboration_bypassed` follows them, and `BansHold` states their reading. The docs' reading is
  the mutated form `corroboration_bypassed_requested`; under it TLC finds `BansHold` violated. A node
  built after the document alone turns a ban into trust with a single add.
- A walk over `spends.list` filtered by outcome can end early: a row whose outcome changes between two
  pages leaves the filter, and `kats.rs:4927` answers its id with an empty page that says it is
  complete. The docs of the result (`results.rs:2400`) read such a page as no matching spend.
- `spends.list` takes a `store_id`; the reference reader never looks at it.
- The docs of `ProfileGetBodyResult.body_b64` (`results.rs:2119`) rule out that a missing key reads as
  "this node holds no body"; the field is a plain `Option`, for which it does. `spent_height` of a coin
  and `asset_id` of an arrival are likewise.
- `dry_run` of `mirror.reconcile` defaults to false, deliberately (`params.rs`): losing the key turns a
  question about a price into a payment.
- `control.config.setUpstream` persists and needs no master token (`method.rs:459`, recorded there).

## 7. Plan

In order of importance:

1. `BondWalk`: the pages of `mirror.bondStates`, whose rows carry states that change between pages.
2. `ControlPlane` extended by a restart of the node between two calls, with the registry persisted and
   calls in flight lost, once the reference node persists anything.
3. `PeerSoftware` as an operator against a reference definition over bounded inputs.

The runs stay few: new questions about a component extend its existing runs where the bounds allow.
