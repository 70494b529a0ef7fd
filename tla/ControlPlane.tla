----------------------------- MODULE ControlPlane -----------------------------
(***************************************************************************)
(* Typed calls through the control plane: a client builds a request        *)
(* (build_request), a transport carries it, the node's dispatcher resolves *)
(* the method, decodes and checks the params, awaits the handler and wraps *)
(* the outcome (ControlHandler::dispatch), and the client parses the       *)
(* response (parse_response).                                              *)
(*                                                                         *)
(* dispatch takes &self and awaits the handler, so calls of several        *)
(* clients are accepted in one order and handled in another.  The          *)
(* transport belongs to the caller: it may lose a request or a response,   *)
(* and a client may give up on a call that still takes effect later.       *)
(*                                                                         *)
(* Two pieces of handler state are kept as the repository's reference      *)
(* node (MockNode in src/src/kats.rs) keeps them: the enrolled public keys *)
(* and the collateral safety margin.  Every other handler is external: it  *)
(* succeeds or fails as it pleases and touches neither.                    *)
(***************************************************************************)
EXTENDS Catalog, FiniteSets

CONSTANTS
  Client,                    \* programs driving the node
  Method,                    \* bound: the catalogued methods they call
  Key,                       \* public keys
  Spelled,                   \* bound: the spellings clients use
  AskedMargin,               \* margins clients ask for
  MAX_SAFETY_MARGIN_BP,      \* the largest margin accepted
  DEFAULT_SAFETY_MARGIN_BP,  \* the margin of a fresh node
  Wire,                      \* responses cross a transport as JSON
  Lossy,                     \* messages get lost and clients give up
  MaxKeys,                   \* bound: keys named in one request
  MaxCalls                   \* bound: calls made in one behaviour

Spelling == {"bare", "prefixed", "malformed"}

ASSUME ConstantsAssumption ==
  /\ Method \subseteq ControlMethod
  /\ IsFiniteSet(Key)
  /\ Spelled \subseteq Spelling
  /\ AskedMargin \subseteq Nat
  /\ MAX_SAFETY_MARGIN_BP \in Nat
  /\ DEFAULT_SAFETY_MARGIN_BP \in 0..MAX_SAFETY_MARGIN_BP
  /\ Wire \in BOOLEAN
  /\ Lossy \in BOOLEAN
  /\ MaxCalls \in Nat

VARIABLES
  enrolled,   \* ENROLLED: the keys the node follows
  margin,     \* MARGIN_BP
  requests,   \* requests on their way to the node
  running,    \* calls whose handler is being awaited
  responses,  \* responses on their way back
  pending,    \* per client: the calls it is waiting for, at most one
  view,       \* per client: the last call it has an answer to
  sent,       \* how many calls were made; the last request id
  counted     \* history: keys reported added, less keys reported removed

vars == <<enrolled, margin, requests, running, responses, pending, view, sent, counted>>

Unknown == "control.unknown"  \* a name no catalog entry has
RawKey == Key \X Spelling
Params == [fits : BOOLEAN, keys : SUBSET RawKey, number : Nat, ok : BOOLEAN]
Call == [method : ControlMethod \cup {Unknown}, params : Params]
RequestId == Nat
JsonRpcRequest == [id : RequestId, client : Client, call : Call]

\* A result: the method whose type it has ("null" for JSON null), the two
\* counts a registry answer carries, and the keys it lists.
Value == [of : ControlMethod \cup {"null"}, count : Nat, total : Nat, keys : SUBSET Key]
JsonRpcResponse ==
  [id : RequestId, client : Client, result : SUBSET Value, error : SUBSET ControlErrorCode]
Answered == [id : RequestId, call : Call, result : SUBSET Value, error : SUBSET ControlErrorCode]

Nothing == [of |-> "null", count |-> 0, total |-> 0, keys |-> {}]
Ok(m, count, total, keys) == {[of |-> m, count |-> count, total |-> total, keys |-> keys]}

-----------------------------------------------------------------------------
(* Params: their shape, and the rules some methods put on their values     *)

WATCH == "control.wallet.watch"
UNWATCH == "control.wallet.unwatch"
WATCHED == "control.wallet.watched"
MARGIN_GET == "control.collateral.margin.get"
MARGIN_SET == "control.collateral.margin.set"
ADVERTISE == "control.config.setMirrorAdvertiseUrls"
RESET == "control.wallet.resetCoinDb"
RESERVE == "control.wallet.reservations.reserve"

normalize_public_key(raw) == IF raw[2] = "malformed" THEN {} ELSE {raw[1]}
\* Mutated form: keys are enrolled as they were spelled.
normalized_raw(raws) == raws

normalized(raws) == UNION {normalize_public_key(raw) : raw \in raws}

\* What the params types demand of the values they carry, whoever enforces it:
\* public keys are hex, coin ids are hex, a page of coins has a well-formed cursor
\* and a legal size, so does a page of spends or of bonds.
KeysRuled == {WATCH, UNWATCH}
CoinIdRuled == {"control.wallet.coinById", "control.wallet.coinSpend"}
CoinPageRuled == {"control.wallet.coins", "control.wallet.coinsByParent"}
RecordPageRuled == {"control.spends.list", "control.mirror.bondStates"}

\* Rules the docs leave to the handler: a reset is confirmed, an address is a bare
\* literal, a profile body is no larger than MAX_BODY_BYTES.
LeftToHandler ==
  {RESET, "control.chiaPeers.add", "control.chiaPeers.remove", "control.profile.putBody"}

\* All methods whose params obey a rule; besides the above, a reservation names
\* well-formed coins, an advertised list is not empty and holds absolute URLs, a
\* margin has a ceiling.
Ruled ==
  UNION {KeysRuled, CoinIdRuled, CoinPageRuled, RecordPageRuled, LeftToHandler,
         {RESERVE, ADVERTISE, MARGIN_SET}}

\* Methods whose params type has a Deserialize of its own, which checks.
ChecksOnDecode ==
  {WATCH, UNWATCH, RESERVE, "control.wallet.coins", "control.wallet.coinById",
   "control.wallet.coinSpend", "control.wallet.coinsByParent",
   "control.spends.list", "control.mirror.bondStates"}

\* Mutated form: the arm of setMirrorAdvertiseUrls hands on what it decoded.
ChecksInDispatch_advertise ==
  {MARGIN_SET, WATCH, UNWATCH, "control.wallet.coinById",
   "control.wallet.coinSpend", "control.wallet.coinsByParent",
   "control.spends.list", "control.mirror.bondStates"}

\* Methods whose dispatch arm calls validated().
ChecksInDispatch ==
  {ADVERTISE, MARGIN_SET, WATCH, UNWATCH, "control.wallet.coinById",
   "control.wallet.coinSpend", "control.wallet.coinsByParent",
   "control.spends.list", "control.mirror.bondStates"}

\* The rule itself: keys are well formed, a margin is within its ceiling; of the
\* other rules, only whether they are kept.
KeepsRule(call) ==
  CASE call.method \in {WATCH, UNWATCH} ->
         \A raw \in call.params.keys : normalize_public_key(raw) # {}
    [] call.method = MARGIN_SET -> call.params.number <= MAX_SAFETY_MARGIN_BP
    [] OTHER -> call.params.ok

\* Methods dispatched without a look at their params.
TakesNoParams ==
  {"control.status", "control.config.get", "control.cache.get", "control.cache.clear",
   "control.hostedStores.list", "control.sync.status", "control.updater.status",
   "control.updater.resume", "control.updater.checkNow", "control.pairing.list",
   "control.peerStatus", "control.peerCounts", "control.chiaPeers.list",
   "control.listSubscriptions", "control.wallet.peak",
   "control.wallet.operatorAddress", "control.wallet.syncStatus", WATCHED,
   "control.wallet.reservations.held", "control.collateral.requirement",
   "control.collateral.buffer", MARGIN_GET}

\* Methods whose handler returns raw JSON, handed on without encode.
Proxied ==
  {"control.updater.status", "control.updater.setChannel", "control.updater.pause",
   "control.updater.resume", "control.updater.checkNow", "control.pairing.list",
   "control.peerStatus"}

decode(call) ==
  /\ call.params.fits
  /\ call.method \in ChecksOnDecode => KeepsRule(call)
validated(call) == call.method \in ChecksInDispatch => KeepsRule(call)
Accepts(call) == call.method \in TakesNoParams \/ (decode(call) /\ validated(call))

\* The params a client can send to a method: only what its arm looks at varies.
Plain == [fits |-> TRUE, keys |-> {}, number |-> 0, ok |-> TRUE]
Misfit == [Plain EXCEPT !.fits = FALSE]
BreaksRule == [Plain EXCEPT !.ok = FALSE]
KeyLists ==
  {[Plain EXCEPT !.keys = raws] :
     raws \in {s \in SUBSET (Key \X Spelled) : Cardinality(s) <= MaxKeys}}
Margins == {[Plain EXCEPT !.number = n] : n \in AskedMargin}

Asked(m) ==
  {Misfit, Plain}
    \cup IF m \in {WATCH, UNWATCH} THEN KeyLists
         ELSE IF m = MARGIN_SET THEN Margins
         ELSE IF m \in Ruled THEN {BreaksRule} ELSE {}

-----------------------------------------------------------------------------
(* Envelopes                                                               *)

success(r, result) ==
  [id |-> r.id, client |-> r.client, result |-> result, error |-> {}]
error(r, c) ==
  [id |-> r.id, client |-> r.client, result |-> {}, error |-> {c}]

\* Serialized and read back: a result of JSON null comes back absent.
Carried(resp) ==
  IF Wire /\ resp.result = {Nothing} THEN [resp EXCEPT !.result = {}] ELSE resp

\* A result if there is one, else the error, else a malformed response.
into_result(resp) ==
  [result |-> resp.result,
   error |-> CASE resp.result # {} -> {}
               [] resp.result = {} /\ resp.error # {} -> resp.error
               [] OTHER -> {"CONTROL_ERROR"}]

\* Raw JSON reads as any value; a typed result of another type is an error.
parse_response(m, resp) ==
  LET got == into_result(resp)
      parses == \A v \in got.result : v.of = m \/ m \in Proxied
  IN  IF parses THEN got ELSE [result |-> {}, error |-> {"CONTROL_ERROR"}]

-----------------------------------------------------------------------------
Init ==
  /\ enrolled = {}
  /\ margin = DEFAULT_SAFETY_MARGIN_BP
  /\ requests = {}
  /\ running = {}
  /\ responses = {}
  /\ pending = [c \in Client |-> {}]
  /\ view = [c \in Client |-> {}]
  /\ sent = 0
  /\ counted = 0

(* The client                                                              *)

build_request(c, m, params) ==
  [id |-> sent + 1, client |-> c, call |-> [method |-> m, params |-> params]]

Send(c) ==
  /\ pending[c] = {}
  /\ sent < MaxCalls
  /\ \E m \in Method \cup {Unknown} : \E params \in Asked(m) :
       LET r == build_request(c, m, params) IN
       /\ requests' = requests \cup {r}
       /\ pending' = [pending EXCEPT ![c] = {r}]
  /\ sent' = sent + 1
  /\ UNCHANGED <<enrolled, margin, running, responses, view, counted>>

\* Mutated form: any response on the client's connection is taken.
Receive_unmatched(c, resp) ==
  /\ resp \in responses
  /\ \E r \in pending[c] :
       LET got == parse_response(r.call.method, Carried(resp)) IN
       /\ resp.client = c
       /\ view' = [view EXCEPT ![c] =
            {[id |-> r.id, call |-> r.call, result |-> got.result, error |-> got.error]}]
  /\ pending' = [pending EXCEPT ![c] = {}]
  /\ responses' = responses \ {resp}
  /\ UNCHANGED <<enrolled, margin, requests, running, sent, counted>>

\* A response is matched to the call by the id it echoes.
Receive(c, resp) ==
  /\ resp \in responses
  /\ \E r \in pending[c] :
       LET got == parse_response(r.call.method, Carried(resp)) IN
       /\ resp.client = c
       /\ resp.id = r.id
       /\ view' = [view EXCEPT ![c] =
            {[id |-> r.id, call |-> r.call, result |-> got.result, error |-> got.error]}]
  /\ pending' = [pending EXCEPT ![c] = {}]
  /\ responses' = responses \ {resp}
  /\ UNCHANGED <<enrolled, margin, requests, running, sent, counted>>

GiveUp(c) ==
  /\ Lossy
  /\ pending[c] # {}
  /\ pending' = [pending EXCEPT ![c] = {}]
  /\ UNCHANGED <<enrolled, margin, requests, running, responses, view, sent, counted>>

(* The transport                                                           *)

LoseRequest(r) ==
  /\ Lossy
  /\ r \in requests
  /\ requests' = requests \ {r}
  /\ UNCHANGED <<enrolled, margin, running, responses, pending, view, sent, counted>>

LoseResponse(resp) ==
  /\ Lossy
  /\ resp \in responses
  /\ responses' = responses \ {resp}
  /\ UNCHANGED <<enrolled, margin, requests, running, pending, view, sent, counted>>

(* The dispatcher: up to the first await, and the answer of a call that     *)
(* never reaches a handler.                                                *)

\* Mutated form: an unknown method is ignored.
RefuseUnknown_silent(r) ==
  /\ ~Resolves(r.call.method)
  /\ UNCHANGED responses

\* Mutated form: an unknown method is reported as bad params.
RefuseUnknown_params(r) ==
  /\ ~Resolves(r.call.method)
  /\ responses' = responses \cup {error(r, "INVALID_PARAMS")}

RefuseUnknown(r) ==
  /\ ~Resolves(r.call.method)
  /\ responses' = responses \cup {error(r, "METHOD_NOT_FOUND")}

RefuseParams(r) ==
  /\ Resolves(r.call.method)
  /\ ~Accepts(r.call)
  /\ responses' = responses \cup {error(r, "INVALID_PARAMS")}

Refuse(r) ==
  /\ r \in requests
  /\ RefuseUnknown(r) \/ RefuseParams(r)
  /\ requests' = requests \ {r}
  /\ UNCHANGED <<enrolled, margin, running, pending, view, sent, counted>>

Accept(r) ==
  /\ r \in requests
  /\ Resolves(r.call.method)
  /\ Accepts(r.call)
  /\ requests' = requests \ {r}
  /\ running' = running \cup {r}
  /\ UNCHANGED <<enrolled, margin, responses, pending, view, sent, counted>>

(* The handlers, each with the response its outcome is wrapped in          *)

\* Mutated form: every key named is counted, enrolled before or not.
wallet_watch_recount(r) ==
  LET named == normalized(r.call.params.keys) IN
  /\ r.call.method = WATCH
  /\ enrolled' = enrolled \cup named
  /\ responses' = responses \cup
       {success(r, Ok(WATCH, Cardinality(named), Cardinality(enrolled'), {}))}
  /\ counted' = counted + Cardinality(named)
  /\ UNCHANGED margin

wallet_watch(r) ==
  LET added == normalized(r.call.params.keys) \ enrolled IN
  /\ r.call.method = WATCH
  /\ enrolled' = enrolled \cup added
  /\ responses' = responses \cup
       {success(r, Ok(WATCH, Cardinality(added), Cardinality(enrolled'), {}))}
  /\ counted' = counted + Cardinality(added)
  /\ UNCHANGED margin

\* Mutated form: every key named is reported removed.
wallet_unwatch_recount(r) ==
  LET removed == normalized(r.call.params.keys) IN
  /\ r.call.method = UNWATCH
  /\ enrolled' = enrolled \ removed
  /\ responses' = responses \cup
       {success(r, Ok(UNWATCH, Cardinality(removed), Cardinality(enrolled'), {}))}
  /\ counted' = counted - Cardinality(removed)
  /\ UNCHANGED margin

wallet_unwatch(r) ==
  LET removed == normalized(r.call.params.keys) \cap enrolled IN
  /\ r.call.method = UNWATCH
  /\ enrolled' = enrolled \ removed
  /\ responses' = responses \cup
       {success(r, Ok(UNWATCH, Cardinality(removed), Cardinality(enrolled'), {}))}
  /\ counted' = counted - Cardinality(removed)
  /\ UNCHANGED margin

wallet_watched(r) ==
  /\ r.call.method = WATCHED
  /\ responses' = responses \cup {success(r, Ok(WATCHED, 0, 0, enrolled))}
  /\ UNCHANGED <<enrolled, margin, counted>>

\* Mutated form: the read answers with the literal, not with the stored margin.
collateral_margin_get_literal(r) ==
  /\ r.call.method = MARGIN_GET
  /\ responses' = responses \cup
       {success(r, Ok(MARGIN_GET, 0, DEFAULT_SAFETY_MARGIN_BP, {}))}
  /\ UNCHANGED <<enrolled, margin, counted>>

collateral_margin_get(r) ==
  /\ r.call.method = MARGIN_GET
  /\ responses' = responses \cup {success(r, Ok(MARGIN_GET, 0, margin, {}))}
  /\ UNCHANGED <<enrolled, margin, counted>>

collateral_margin_set(r) ==
  /\ r.call.method = MARGIN_SET
  /\ margin' = r.call.params.number
  /\ responses' = responses \cup
       {success(r, Ok(MARGIN_SET, 0, r.call.params.number, {}))}
  /\ UNCHANGED <<enrolled, counted>>

\* The confirmation is checked here and nowhere before.
wallet_reset_coin_db(r) ==
  /\ r.call.method = RESET
  /\ responses' = responses \cup
       {IF r.call.params.ok THEN success(r, Ok(RESET, 0, 0, {}))
                            ELSE error(r, "INVALID_PARAMS")}
  /\ UNCHANGED <<enrolled, margin, counted>>

Modelled == {WATCH, UNWATCH, WATCHED, MARGIN_GET, MARGIN_SET, RESET}

external_handler(r) ==
  /\ r.call.method \notin Modelled
  /\ \/ responses' = responses \cup {success(r, Ok(r.call.method, 0, 0, {}))}
     \/ r.call.method \in Proxied /\ responses' = responses \cup {success(r, {Nothing})}
     \/ \E c \in ControlErrorCode : responses' = responses \cup {error(r, c)}
  /\ UNCHANGED <<enrolled, margin, counted>>

Handle(r) ==
  /\ r \in running
  /\ \/ wallet_watch(r)
     \/ wallet_unwatch(r)
     \/ wallet_watched(r)
     \/ collateral_margin_get(r)
     \/ collateral_margin_set(r)
     \/ wallet_reset_coin_db(r)
     \/ external_handler(r)
  /\ running' = running \ {r}
  /\ UNCHANGED <<requests, pending, view, sent>>

-----------------------------------------------------------------------------
dispatch == \E r \in requests : Refuse(r) \/ Accept(r)
run == \E r \in running : Handle(r)
receive(c) == \E resp \in responses : Receive(c, resp)

Next ==
  \/ dispatch
  \/ run
  \/ \E c \in Client : Send(c) \/ receive(c) \/ GiveUp(c)
  \/ \E r \in requests : LoseRequest(r)
  \/ \E resp \in responses : LoseResponse(resp)

Spec == Init /\ [][Next]_vars

\* The node is scheduled, every handler completes, and a client that waits
\* reads what arrives for it.
FairSpec ==
  /\ Spec
  /\ WF_vars(dispatch)
  /\ WF_vars(run)
  /\ \A c \in Client : WF_vars(receive(c))

-----------------------------------------------------------------------------
(* Properties                                                              *)

TypeOK ==
  /\ enrolled \in SUBSET Key
  /\ margin \in Nat
  /\ requests \in SUBSET JsonRpcRequest
  /\ running \in SUBSET JsonRpcRequest
  /\ responses \in SUBSET JsonRpcResponse
  /\ pending \in [Client -> SUBSET JsonRpcRequest]
  /\ view \in [Client -> SUBSET Answered]
  /\ sent \in Nat
  /\ counted \in Int

\* No handler is awaited with params that break the rule of their type, unless
\* that rule is left to the handler: every other rule is checked in one of the two
\* layers, on decode or in the dispatch arm.  For the money-path margin and for the
\* advertised URLs, whose types derive Deserialize, the arm is the only one.
OnlyCheckedCallsRun ==
  \A r \in running :
    /\ Resolves(r.call.method)
    /\ r.call.method \notin TakesNoParams => r.call.params.fits
    /\ r.call.method \in Ruled \ LeftToHandler => KeepsRule(r.call)

\* The comment on the resetCoinDb arm, read as a statement: what deserialization
\* lets through is a confirmed reset.
OnlyConfirmedResetsRun ==
  \A r \in running : r.call.method = RESET => r.call.params.ok

\* The counts that watch and unwatch report add up to the registry, whatever
\* was enrolled twice, spelled two ways, retried or interleaved: a client that
\* reconciles by counting never drifts from the node.
CountsReconcile == counted = Cardinality(enrolled)

\* One call, one answer, and it is that call's: what a client reads carries the
\* result type of the method it called, an error of the catalog, or, over a
\* transport that drops it, the loss of a null result; never another call's
\* answer, however the calls overtook each other or were given up.
AnswersAreOwn ==
  \A c \in Client : \A a \in view[c] :
    /\ Cardinality(a.result) + Cardinality(a.error) = 1
    /\ \A v \in a.result : v.of \in {a.call.method, "null"}
    /\ a.call.method = Unknown => a.error = {"METHOD_NOT_FOUND"}
    /\ a.call.method = MARGIN_SET /\ a.error = {} =>
         \A v \in a.result : v.total = a.call.params.number
    /\ \A r \in pending[c] : a.id < r.id

\* A response holds exactly one of result and error, also where the client
\* reads it.
ExactlyOneOfResultAndError ==
  \A resp \in responses :
    LET read == Carried(resp) IN read.result = {} <=> read.error # {}

\* The calls under way and the responses under way, seen as the contract's
\* open calls and answers.
Contract == INSTANCE ControlContract WITH
  open <- requests \cup running,
  answers <- responses

\* Every call takes effect at most once, at one instant between its sending and
\* its answer, and the answer reports that effect: what clients observe is what
\* some order of whole calls would give.
HonoursContract == Contract!Spec

\* With no message lost and no client giving up, every call is answered.
EveryCallIsAnswered == \A c \in Client : pending[c] # {} ~> pending[c] = {}
=============================================================================
