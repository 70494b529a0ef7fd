-------------------------- MODULE ControlPlaneProofs --------------------------
(***************************************************************************)
(* Proofs about ControlPlane, for any clients, any finite set of keys, any *)
(* methods and margins, over lossy and faithful transports.                *)
(*                                                                         *)
(* The invariant says of the messages what the handlers rely on: a request *)
(* is in one place only, the ids in use are those handed out, a call that  *)
(* runs has params its type accepts, and what the registry reported adds   *)
(* up to it.  From there every handler is shown to act and answer as       *)
(* ControlContract allows, which gives the refinement.                     *)
(***************************************************************************)
EXTENDS ControlPlane, FiniteSetTheorems, TLAPS

\* A request is on its way or running, not both, under an id handed out.
InOnePlace ==
  /\ requests \cap running = {}
  /\ \A r \in requests \cup running : r.id <= sent

IInv == TypeOK /\ InOnePlace /\ OnlyCheckedCallsRun /\ CountsReconcile

-----------------------------------------------------------------------------
(* Types of what is built from what                                        *)

LEMMA AskedIsParams ==
  ASSUME NEW m
  PROVE  Asked(m) \subseteq Params
<1>1. Plain \in Params /\ Misfit \in Params /\ BreaksRule \in Params
  BY DEF Plain, Misfit, BreaksRule, Params
<1>2. KeyLists \subseteq Params
  <2>1. Key \X Spelled \subseteq RawKey
    BY ConstantsAssumption DEF RawKey
  <2>2. \A raws \in SUBSET RawKey : [Plain EXCEPT !.keys = raws] \in Params
    BY DEF Plain, Params
  <2> QED
    BY <2>1, <2>2 DEF KeyLists
<1>3. Margins \subseteq Params
  BY ConstantsAssumption DEF Margins, Plain, Params
<1> QED
  BY <1>1, <1>2, <1>3 DEF Asked

LEMMA NormalizedType ==
  ASSUME NEW raws \in SUBSET RawKey
  PROVE  normalized(raws) \subseteq Key /\ IsFiniteSet(normalized(raws))
<1>1. \A raw \in raws : normalize_public_key(raw) \subseteq Key
  BY DEF normalize_public_key, RawKey
<1>2. normalized(raws) \in SUBSET Key
  BY <1>1 DEF normalized
<1> QED
  BY <1>2, ConstantsAssumption, FS_Subset

\* Without a malformed spelling, what is normalized is what is named.
LEMMA NormalizedIsNamed ==
  ASSUME NEW call, \A raw \in call.params.keys : normalize_public_key(raw) # {}
  PROVE  normalized(call.params.keys) = Contract!Named(call) /\ ~ Contract!Malformed(call)
BY DEF normalized, normalize_public_key, Contract!Named, Contract!Malformed

LEMMA OkType ==
  ASSUME NEW of \in ControlMethod \cup {"null"}, NEW count \in Nat, NEW total \in Nat,
         NEW keys \in SUBSET Key
  PROVE  Ok(of, count, total, keys) \in SUBSET Value
BY DEF Ok, Value

LEMMA SuccessType ==
  ASSUME NEW r \in JsonRpcRequest, NEW result \in SUBSET Value
  PROVE  success(r, result) \in JsonRpcResponse
BY DEF success, JsonRpcRequest, JsonRpcResponse

LEMMA ErrorType ==
  ASSUME NEW r \in JsonRpcRequest, NEW c \in ControlErrorCode
  PROVE  error(r, c) \in JsonRpcResponse
BY DEF error, JsonRpcRequest, JsonRpcResponse

LEMMA DispatchErrors ==
  {"METHOD_NOT_FOUND", "INVALID_PARAMS", "CONTROL_ERROR"} \subseteq ControlErrorCode
BY DEF ControlErrorCode, code

LEMMA ParsedType ==
  ASSUME NEW m, NEW resp \in JsonRpcResponse
  PROVE  /\ parse_response(m, Carried(resp)).result \in SUBSET Value
         /\ parse_response(m, Carried(resp)).error \in SUBSET ControlErrorCode
<1>1. Carried(resp).result \in SUBSET Value /\ Carried(resp).error \in SUBSET ControlErrorCode
  BY DEF Carried, JsonRpcResponse
<1>2. /\ into_result(Carried(resp)).result \in SUBSET Value
      /\ into_result(Carried(resp)).error \in SUBSET ControlErrorCode
  BY <1>1, DispatchErrors DEF into_result
<1> QED
  BY <1>2, DispatchErrors DEF parse_response

\* Enrolled keys are finitely many.
LEMMA EnrolledFinite ==
  ASSUME TypeOK
  PROVE  IsFiniteSet(enrolled) /\ Cardinality(enrolled) \in Nat
<1>1. enrolled \in SUBSET Key
  BY DEF TypeOK
<1> QED
  BY <1>1, ConstantsAssumption, FS_Subset, FS_CardinalityType

-----------------------------------------------------------------------------
(* Counting                                                                *)

LEMMA CountAdded ==
  ASSUME NEW S, NEW N, IsFiniteSet(S), IsFiniteSet(N)
  PROVE  /\ Cardinality(N \ S) \in Nat /\ Cardinality(S \cup (N \ S)) \in Nat
         /\ Cardinality(S \cup (N \ S)) = Cardinality(S) + Cardinality(N \ S)
<1> DEFINE T == N \ S
<1>1. IsFiniteSet(T)
  BY FS_Difference
<1>2. S \cap T = {}
  OBVIOUS
<1> HIDE DEF T
<1>3. Cardinality(S \cap T) = 0
  BY <1>2, FS_EmptySet
<1>4. IsFiniteSet(S \cup T)
      /\ Cardinality(S \cup T) = Cardinality(S) + Cardinality(T) - Cardinality(S \cap T)
  BY <1>1, FS_Union
<1>5. Cardinality(S) \in Nat /\ Cardinality(T) \in Nat /\ Cardinality(S \cup T) \in Nat
  BY <1>1, <1>4, FS_CardinalityType
<1>6. Cardinality(S \cup T) = Cardinality(S) + Cardinality(T)
  BY <1>3, <1>4, <1>5
<1> QED
  BY <1>5, <1>6 DEF T

LEMMA CountRemoved ==
  ASSUME NEW S, NEW N, IsFiniteSet(S)
  PROVE  /\ Cardinality(N \cap S) \in Nat /\ Cardinality(S \ (N \cap S)) \in Nat
         /\ Cardinality(S \ (N \cap S)) = Cardinality(S) - Cardinality(N \cap S)
<1> DEFINE T == N \cap S
<1>1. IsFiniteSet(T) /\ S \cap T = T
  BY FS_Intersection
<1> HIDE DEF T
<1>2. IsFiniteSet(S \ T) /\ Cardinality(S \ T) = Cardinality(S) - Cardinality(T)
  BY <1>1, FS_Difference
<1>3. Cardinality(T) \in Nat /\ Cardinality(S \ T) \in Nat
  BY <1>1, <1>2, FS_CardinalityType
<1> QED
  BY <1>2, <1>3 DEF T

\* The contract counts as the program does.
LEMMA SameCount == ASSUME NEW S PROVE Contract!Cardinality(S) = Cardinality(S)
BY DEF Contract!Cardinality, Cardinality

-----------------------------------------------------------------------------
(* What a handler does, and what it answers                                *)

\* The handler of r answers with one well-typed response under r's id, and its
\* effect and its answer are the contract's.
HandledAsPromised(r) ==
  \E a \in JsonRpcResponse :
    /\ responses' = responses \cup {a}
    /\ a.id = r.id /\ a.client = r.client
    /\ \/ a.error = {} /\ Contract!Succeed(r, a.result)
       \/ a.result = {} /\ a.error # {} /\ UNCHANGED <<enrolled, margin>>

\* The registry, the margin and the count reported are as they should be.
StateKept ==
  /\ enrolled' \in SUBSET Key
  /\ margin' \in Nat
  /\ counted' \in Int
  /\ CountsReconcile'

LEMMA SuccessHandled ==
  ASSUME NEW r \in JsonRpcRequest, NEW result \in SUBSET Value,
         responses' = responses \cup {success(r, result)}, Contract!Succeed(r, result)
  PROVE  HandledAsPromised(r)
<1>1. success(r, result) \in JsonRpcResponse
  BY SuccessType
<1>2. /\ success(r, result).id = r.id /\ success(r, result).client = r.client
      /\ success(r, result).result = result /\ success(r, result).error = {}
  BY DEF success
<1> HIDE DEF success
<1> QED
  BY <1>1, <1>2 DEF HandledAsPromised

LEMMA ErrorHandled ==
  ASSUME NEW r \in JsonRpcRequest, NEW c \in ControlErrorCode,
         responses' = responses \cup {error(r, c)}, UNCHANGED <<enrolled, margin>>
  PROVE  HandledAsPromised(r)
<1>1. error(r, c) \in JsonRpcResponse
  BY ErrorType
<1>2. /\ error(r, c).id = r.id /\ error(r, c).client = r.client
      /\ error(r, c).result = {} /\ error(r, c).error # {}
  BY DEF error
<1> QED
  BY <1>1, <1>2 DEF HandledAsPromised

\* Of a call that runs: it is typed, its method is known, its rule is kept if a
\* layer above the handler has to see to it.
LEMMA RunningCall ==
  ASSUME IInv, NEW r \in running
  PROVE  /\ r \in JsonRpcRequest
         /\ r.call.method \in ControlMethod
         /\ r.call.params.keys \in SUBSET RawKey
         /\ r.call.params.number \in Nat
         /\ r.call.method \in Ruled \ LeftToHandler => KeepsRule(r.call)
BY DEF IInv, TypeOK, OnlyCheckedCallsRun, Resolves, JsonRpcRequest, Call, Params

\* The rule of watch, of unwatch and of the margin, where they run.
LEMMA RunningKeepsRule ==
  ASSUME IInv, NEW r \in running
  PROVE  /\ r.call.method \in {WATCH, UNWATCH} =>
              \A raw \in r.call.params.keys : normalize_public_key(raw) # {}
         /\ r.call.method = MARGIN_SET => r.call.params.number <= MAX_SAFETY_MARGIN_BP
<1>1. {WATCH, UNWATCH, MARGIN_SET} \subseteq Ruled \ LeftToHandler
  BY DEF Ruled, KeysRuled, LeftToHandler, RESET, WATCH, UNWATCH, MARGIN_SET
<1>2. r.call.method \in {WATCH, UNWATCH, MARGIN_SET} => KeepsRule(r.call)
  BY <1>1, RunningCall
<1>3. CASE r.call.method \in {WATCH, UNWATCH}
  <2>1. r.call.method # MARGIN_SET
    BY <1>3 DEF WATCH, UNWATCH, MARGIN_SET
  <2> QED
    BY <1>2, <1>3, <2>1 DEF KeepsRule
<1>4. CASE r.call.method = MARGIN_SET
  <2>1. r.call.method \notin {WATCH, UNWATCH}
    BY <1>4 DEF WATCH, UNWATCH, MARGIN_SET
  <2> QED
    BY <1>2, <1>4, <2>1 DEF KeepsRule
<1> QED
  BY <1>3, <1>4

LEMMA WatchHandled ==
  ASSUME IInv, NEW r \in running, wallet_watch(r)
  PROVE  HandledAsPromised(r) /\ StateKept
<1> DEFINE named == normalized(r.call.params.keys)
<1> DEFINE added == named \ enrolled
<1> DEFINE result == Ok(WATCH, Cardinality(added), Cardinality(enrolled'), {})
<1>1. /\ r.call.method = WATCH
      /\ enrolled' = enrolled \cup added
      /\ responses' = responses \cup {success(r, result)}
      /\ counted' = counted + Cardinality(added)
      /\ margin' = margin
  BY DEF wallet_watch
<1>2. named = Contract!Named(r.call) /\ ~ Contract!Malformed(r.call)
  BY <1>1, RunningKeepsRule, NormalizedIsNamed
<1>3. named \subseteq Key /\ IsFiniteSet(named)
  BY RunningCall, NormalizedType
<1>4. IsFiniteSet(enrolled) /\ Cardinality(enrolled) \in Nat /\ enrolled \subseteq Key
  BY EnrolledFinite DEF IInv, TypeOK
<1> HIDE DEF named
<1>5. /\ Cardinality(added) \in Nat /\ Cardinality(enrolled') \in Nat
      /\ Cardinality(enrolled') = Cardinality(enrolled) + Cardinality(added)
  BY <1>1, <1>3, <1>4, CountAdded
<1>6. result \in SUBSET Value
  BY <1>1, <1>5, RunningCall, OkType
<1>7. Contract!Succeed(r, result)
  <2>1. Cardinality(added) = Cardinality(enrolled') - Cardinality(enrolled)
    BY <1>4, <1>5
  <2>2. enrolled' = enrolled \cup Contract!Named(r.call)
    BY <1>1, <1>2
  <2>3. Contract!Reports(r.call.method, result,
          Contract!Cardinality(enrolled') - Contract!Cardinality(enrolled),
          Contract!Cardinality(enrolled'), {})
    BY <1>1, <2>1, SameCount DEF Contract!Reports, Ok
  <2>4. Contract!Watch(r.call, result)
    BY <1>1, <1>2, <2>2, <2>3 DEF Contract!Watch, WATCH
  <2> QED
    BY <2>4 DEF Contract!Succeed
<1>8. HandledAsPromised(r)
  <2> HIDE DEF result
  <2> QED
    BY <1>1, <1>6, <1>7, RunningCall, SuccessHandled
<1>9. StateKept
  BY <1>1, <1>3, <1>4, <1>5 DEF StateKept, CountsReconcile, IInv, TypeOK
<1> QED
  BY <1>8, <1>9

LEMMA UnwatchHandled ==
  ASSUME IInv, NEW r \in running, wallet_unwatch(r)
  PROVE  HandledAsPromised(r) /\ StateKept
<1> DEFINE named == normalized(r.call.params.keys)
<1> DEFINE removed == named \cap enrolled
<1> DEFINE result == Ok(UNWATCH, Cardinality(removed), Cardinality(enrolled'), {})
<1>1. /\ r.call.method = UNWATCH
      /\ enrolled' = enrolled \ removed
      /\ responses' = responses \cup {success(r, result)}
      /\ counted' = counted - Cardinality(removed)
      /\ margin' = margin
  BY DEF wallet_unwatch
<1>2. named = Contract!Named(r.call) /\ ~ Contract!Malformed(r.call)
  BY <1>1, RunningKeepsRule, NormalizedIsNamed
<1>3. IsFiniteSet(enrolled) /\ Cardinality(enrolled) \in Nat /\ enrolled \subseteq Key
  BY EnrolledFinite DEF IInv, TypeOK
<1> HIDE DEF named
<1>4. /\ Cardinality(removed) \in Nat /\ Cardinality(enrolled') \in Nat
      /\ Cardinality(enrolled') = Cardinality(enrolled) - Cardinality(removed)
  BY <1>1, <1>3, CountRemoved
<1>5. result \in SUBSET Value
  BY <1>1, <1>4, RunningCall, OkType
<1>6. Contract!Succeed(r, result)
  <2>1. Cardinality(removed) = Cardinality(enrolled) - Cardinality(enrolled')
    BY <1>3, <1>4
  <2>2. enrolled' = enrolled \ Contract!Named(r.call)
    BY <1>1, <1>2
  <2>3. Contract!Reports(r.call.method, result,
          Contract!Cardinality(enrolled) - Contract!Cardinality(enrolled'),
          Contract!Cardinality(enrolled'), {})
    BY <1>1, <2>1, SameCount DEF Contract!Reports, Ok
  <2>4. Contract!Unwatch(r.call, result)
    BY <1>1, <1>2, <2>2, <2>3 DEF Contract!Unwatch, UNWATCH
  <2> QED
    BY <2>4 DEF Contract!Succeed
<1>7. HandledAsPromised(r)
  <2> HIDE DEF result
  <2> QED
    BY <1>1, <1>5, <1>6, RunningCall, SuccessHandled
<1>8. StateKept
  BY <1>1, <1>3, <1>4 DEF StateKept, CountsReconcile, IInv, TypeOK
<1> QED
  BY <1>7, <1>8

\* The handlers that leave the registry alone.
LEMMA MarginKept ==
  ASSUME IInv, UNCHANGED <<enrolled, counted>>, margin' \in Nat
  PROVE  StateKept
BY DEF IInv, TypeOK, StateKept, CountsReconcile

LEMMA WatchedHandled ==
  ASSUME IInv, NEW r \in running, wallet_watched(r)
  PROVE  HandledAsPromised(r) /\ StateKept
<1>1. /\ r.call.method = WATCHED
      /\ responses' = responses \cup {success(r, Ok(WATCHED, 0, 0, enrolled))}
      /\ UNCHANGED <<enrolled, margin, counted>>
  BY DEF wallet_watched
<1>2. Ok(WATCHED, 0, 0, enrolled) \in SUBSET Value
  BY <1>1, RunningCall, OkType DEF IInv, TypeOK
<1>3. Contract!Succeed(r, Ok(WATCHED, 0, 0, enrolled))
  BY <1>1 DEF Contract!Succeed, Contract!Watched, Contract!Reports, Contract!state, Ok, WATCHED
<1>4. HandledAsPromised(r)
  BY <1>1, <1>2, <1>3, RunningCall, SuccessHandled
<1> QED
  BY <1>1, <1>4, MarginKept DEF IInv, TypeOK

LEMMA MarginGetHandled ==
  ASSUME IInv, NEW r \in running, collateral_margin_get(r)
  PROVE  HandledAsPromised(r) /\ StateKept
<1>1. /\ r.call.method = MARGIN_GET
      /\ responses' = responses \cup {success(r, Ok(MARGIN_GET, 0, margin, {}))}
      /\ UNCHANGED <<enrolled, margin, counted>>
  BY DEF collateral_margin_get
<1>2. Ok(MARGIN_GET, 0, margin, {}) \in SUBSET Value
  BY <1>1, RunningCall, OkType DEF IInv, TypeOK
<1>3. Contract!Succeed(r, Ok(MARGIN_GET, 0, margin, {}))
  BY <1>1 DEF Contract!Succeed, Contract!MarginGet, Contract!Reports, Contract!state, Ok, MARGIN_GET
<1>4. HandledAsPromised(r)
  BY <1>1, <1>2, <1>3, RunningCall, SuccessHandled
<1> QED
  BY <1>1, <1>4, MarginKept DEF IInv, TypeOK

LEMMA MarginSetHandled ==
  ASSUME IInv, NEW r \in running, collateral_margin_set(r)
  PROVE  HandledAsPromised(r) /\ StateKept
<1> DEFINE n == r.call.params.number
<1>1. /\ r.call.method = MARGIN_SET
      /\ margin' = n
      /\ responses' = responses \cup {success(r, Ok(MARGIN_SET, 0, n, {}))}
      /\ UNCHANGED <<enrolled, counted>>
  BY DEF collateral_margin_set
<1>2. n \in Nat
  BY RunningCall
<1>3. n <= MAX_SAFETY_MARGIN_BP
  BY <1>1, RunningKeepsRule
<1>4. Ok(MARGIN_SET, 0, n, {}) \in SUBSET Value
  BY <1>1, <1>2, RunningCall, OkType
<1>5. Contract!Succeed(r, Ok(MARGIN_SET, 0, n, {}))
  BY <1>1, <1>3 DEF Contract!Succeed, Contract!MarginSet, Contract!Reports, Ok, MARGIN_SET
<1>6. HandledAsPromised(r)
  BY <1>1, <1>4, <1>5, RunningCall, SuccessHandled
<1> QED
  BY <1>1, <1>2, <1>6, MarginKept

LEMMA ResetHandled ==
  ASSUME IInv, NEW r \in running, wallet_reset_coin_db(r)
  PROVE  HandledAsPromised(r) /\ StateKept
<1>1. r.call.method = RESET /\ UNCHANGED <<enrolled, margin, counted>>
  BY DEF wallet_reset_coin_db
<1>2. CASE r.call.params.ok
  <2>1. responses' = responses \cup {success(r, Ok(RESET, 0, 0, {}))}
    BY <1>2 DEF wallet_reset_coin_db
  <2>2. Ok(RESET, 0, 0, {}) \in SUBSET Value
    BY <1>1, RunningCall, OkType
  <2>3. Contract!Succeed(r, Ok(RESET, 0, 0, {}))
    BY <1>1, <1>2
    DEF Contract!Succeed, Contract!ResetCoinDb, Contract!Reports, Contract!state, Ok, RESET
  <2> QED
    BY <1>1, <2>1, <2>2, <2>3, RunningCall, SuccessHandled, MarginKept DEF IInv, TypeOK
<1>3. CASE ~ r.call.params.ok
  <2>1. responses' = responses \cup {error(r, "INVALID_PARAMS")}
    BY <1>3 DEF wallet_reset_coin_db
  <2> QED
    BY <1>1, <2>1, RunningCall, DispatchErrors, ErrorHandled, MarginKept DEF IInv, TypeOK
<1> QED
  BY <1>2, <1>3

LEMMA ExternalHandled ==
  ASSUME IInv, NEW r \in running, external_handler(r)
  PROVE  HandledAsPromised(r) /\ StateKept
<1>1. r.call.method \notin Modelled /\ UNCHANGED <<enrolled, margin, counted>>
  BY DEF external_handler
<1>2. ASSUME NEW of \in {r.call.method, "null"},
             responses' = responses \cup {success(r, Ok(of, 0, 0, {}))}
      PROVE  HandledAsPromised(r)
  <2>1. Ok(of, 0, 0, {}) \in SUBSET Value
    BY RunningCall, OkType
  <2>2. Contract!Reports(of, Ok(of, 0, 0, {}), 0, 0, {})
    BY DEF Contract!Reports, Ok
  <2>3. r.call.method \in ControlMethod
    BY RunningCall
  <2>4. Contract!Other(r.call, Ok(of, 0, 0, {}))
    BY <1>1, <1>2, <2>2, <2>3
    DEF Contract!Other, Contract!ControlMethod, Contract!category, ControlMethod, category,
        Contract!state, Modelled, WATCH, UNWATCH, WATCHED, MARGIN_GET, MARGIN_SET, RESET
  <2>5. Contract!Succeed(r, Ok(of, 0, 0, {}))
    BY <2>4 DEF Contract!Succeed
  <2> QED
    BY <1>2, <2>1, <2>5, RunningCall, SuccessHandled
<1>3. Ok("null", 0, 0, {}) = {Nothing}
  BY DEF Ok, Nothing
<1>4. HandledAsPromised(r)
  BY <1>1, <1>2, <1>3, RunningCall, ErrorHandled DEF external_handler
<1> QED
  BY <1>1, <1>4, MarginKept DEF IInv, TypeOK

LEMMA HandlersHandle ==
  ASSUME IInv, NEW r \in running, Handle(r)
  PROVE  HandledAsPromised(r) /\ StateKept
BY WatchHandled, UnwatchHandled, WatchedHandled, MarginGetHandled, MarginSetHandled,
   ResetHandled, ExternalHandled DEF Handle

-----------------------------------------------------------------------------
(* The steps                                                               *)

\* Every rule is enforced by a type that checks itself on decode, by an arm that
\* calls validated(), or by the handler it is left to; and a method with a rule
\* is never dispatched without a look at its params.
LEMMA EveryRuleIsChecked ==
  /\ Ruled \ LeftToHandler \subseteq ChecksOnDecode \cup ChecksInDispatch
  /\ Ruled \cap TakesNoParams = {}
<1>1. Ruled \ LeftToHandler \subseteq ChecksOnDecode \cup ChecksInDispatch
  BY DEF Ruled, KeysRuled, CoinIdRuled, CoinPageRuled, RecordPageRuled, LeftToHandler,
         ChecksOnDecode, ChecksInDispatch
<1>2. Ruled \cap TakesNoParams = {}
  BY DEF Ruled, KeysRuled, CoinIdRuled, CoinPageRuled, RecordPageRuled, LeftToHandler,
         TakesNoParams, WATCH, UNWATCH, WATCHED, RESET, RESERVE, ADVERTISE, MARGIN_SET, MARGIN_GET
<1> QED
  BY <1>1, <1>2

\* What the dispatcher lets through has the shape of its method's params, and
\* keeps their rule unless that is left to the handler.
LEMMA AcceptedIsChecked ==
  ASSUME NEW call, Accepts(call)
  PROVE  /\ call.method \notin TakesNoParams => call.params.fits
         /\ call.method \in Ruled \ LeftToHandler => KeepsRule(call)
<1>1. call.method \notin TakesNoParams => decode(call) /\ validated(call)
  BY DEF Accepts
<1>2. call.method \in Ruled \ LeftToHandler =>
        /\ call.method \in ChecksOnDecode \cup ChecksInDispatch
        /\ call.method \notin TakesNoParams
  BY EveryRuleIsChecked
<1> QED
  BY <1>1, <1>2 DEF decode, validated

\* Each step keeps the invariant and is a step of the contract.
Fine == IInv' /\ (Contract!Next \/ UNCHANGED Contract!contract)

LEMMA SendFine == ASSUME IInv, NEW c \in Client, Send(c) PROVE Fine
<1>0. PICK m \in Method \cup {Unknown} : \E params \in Asked(m) :
        /\ requests' = requests \cup {build_request(c, m, params)}
        /\ pending' = [pending EXCEPT ![c] = {build_request(c, m, params)}]
  BY DEF Send
<1>1. PICK params \in Asked(m) :
        /\ requests' = requests \cup {build_request(c, m, params)}
        /\ pending' = [pending EXCEPT ![c] = {build_request(c, m, params)}]
  BY <1>0
<1> DEFINE r == build_request(c, m, params)
<1>2. requests' = requests \cup {r} /\ pending' = [pending EXCEPT ![c] = {r}]
  BY <1>1
<1>3. sent' = sent + 1 /\ UNCHANGED <<enrolled, margin, running, responses, view, counted>>
  BY DEF Send
<1>4. r.id = sent + 1 /\ r.client = c /\ r.call.method = m /\ r.call.params = params
  BY DEF build_request
<1>5. sent \in Nat
  BY DEF IInv, TypeOK
<1>6. r \in JsonRpcRequest
  <2>1. params \in Params
    BY AskedIsParams
  <2>2. m \in ControlMethod \cup {Unknown}
    BY ConstantsAssumption
  <2> QED
    BY <1>5, <2>1, <2>2 DEF build_request, JsonRpcRequest, Call, RequestId
<1> HIDE DEF r
<1>7. TypeOK'
  BY <1>2, <1>3, <1>5, <1>6 DEF IInv, TypeOK
<1>8. InOnePlace'
  <2>1. \A x \in requests \cup running : x.id <= sent /\ x.id \in Nat
    BY DEF IInv, InOnePlace, TypeOK, JsonRpcRequest, RequestId
  <2>2. r \notin running
    BY <1>4, <1>5, <2>1
  <2>3. requests' \cap running' = {}
    BY <1>2, <1>3, <2>2 DEF IInv, InOnePlace
  <2>4. \A x \in requests' \cup running' : x.id <= sent'
    BY <1>2, <1>3, <1>4, <1>5, <2>1
  <2> QED
    BY <2>3, <2>4 DEF InOnePlace
<1>9. Contract!Submit
  BY <1>2, <1>3, <1>4 DEF Contract!Submit
<1> QED
  BY <1>3, <1>7, <1>8, <1>9
  DEF Fine, IInv, OnlyCheckedCallsRun, CountsReconcile, Contract!Next

\* Messages disappear, a client reads or gives up: less is on its way.
LEMMA LossFine ==
  ASSUME IInv, requests' \subseteq requests, responses' \subseteq responses, TypeOK',
         UNCHANGED <<enrolled, margin, running, sent, counted>>
  PROVE  Fine
<1>1. Contract!Lose
  BY DEF Contract!Lose
<1> QED
  BY <1>1 DEF Fine, IInv, InOnePlace, OnlyCheckedCallsRun,
              CountsReconcile, Contract!Next

LEMMA ReceiveFine ==
  ASSUME IInv, NEW c \in Client, NEW resp \in responses, Receive(c, resp)
  PROVE  Fine
<1>1. PICK r \in pending[c] :
        LET got == parse_response(r.call.method, Carried(resp)) IN
        view' = [view EXCEPT ![c] =
          {[id |-> r.id, call |-> r.call, result |-> got.result, error |-> got.error]}]
  BY DEF Receive
<1>2. /\ pending' = [pending EXCEPT ![c] = {}] /\ responses' = responses \ {resp}
      /\ UNCHANGED <<enrolled, margin, requests, running, sent, counted>>
  BY DEF Receive
<1> DEFINE got == parse_response(r.call.method, Carried(resp))
<1> DEFINE answer == [id |-> r.id, call |-> r.call, result |-> got.result, error |-> got.error]
<1>3. answer \in Answered
  <2>1. got.result \in SUBSET Value /\ got.error \in SUBSET ControlErrorCode
    <3>1. resp \in JsonRpcResponse
      BY DEF IInv, TypeOK
    <3> QED
      BY <3>1, ParsedType
  <2>2. r \in JsonRpcRequest
    BY DEF IInv, TypeOK
  <2> HIDE DEF got
  <2> QED
    BY <2>1, <2>2 DEF Answered, JsonRpcRequest
<1>4. view' = [view EXCEPT ![c] = {answer}]
  BY <1>1
<1> HIDE DEF answer
<1>5. TypeOK'
  BY <1>2, <1>3, <1>4 DEF IInv, TypeOK
<1> QED
  BY <1>2, <1>5, LossFine

LEMMA GiveUpFine == ASSUME IInv, NEW c \in Client, GiveUp(c) PROVE Fine
<1>1. TypeOK'
  BY DEF GiveUp, IInv, TypeOK
<1> QED
  BY <1>1, LossFine DEF GiveUp

LEMMA LoseRequestFine == ASSUME IInv, NEW r \in requests, LoseRequest(r) PROVE Fine
<1>1. TypeOK'
  BY DEF LoseRequest, IInv, TypeOK
<1> QED
  BY <1>1, LossFine DEF LoseRequest

LEMMA LoseResponseFine == ASSUME IInv, NEW resp \in responses, LoseResponse(resp) PROVE Fine
<1>1. TypeOK'
  BY DEF LoseResponse, IInv, TypeOK
<1> QED
  BY <1>1, LossFine DEF LoseResponse

\* Answering r, from wherever it is, is the contract's performing it.
LEMMA AnswerPerforms ==
  ASSUME NEW r \in requests \cup running, HandledAsPromised(r),
         (requests \cup running)' = (requests \cup running) \ {r}, sent' = sent
  PROVE  Contract!Next
<1>1. PICK a \in JsonRpcResponse :
        /\ responses' = responses \cup {a}
        /\ a.id = r.id /\ a.client = r.client
        /\ \/ a.error = {} /\ Contract!Succeed(r, a.result)
           \/ a.result = {} /\ a.error # {} /\ UNCHANGED <<enrolled, margin>>
  BY DEF HandledAsPromised
<1>2. Contract!Perform(r)
  BY <1>1 DEF Contract!Perform, Contract!state
<1> QED
  BY <1>2 DEF Contract!Next

LEMMA RefuseFine == ASSUME IInv, NEW r \in requests, Refuse(r) PROVE Fine
<1>1. PICK c \in ControlErrorCode : responses' = responses \cup {error(r, c)}
  BY DispatchErrors DEF Refuse, RefuseUnknown, RefuseParams
<1>2. /\ requests' = requests \ {r}
      /\ UNCHANGED <<enrolled, margin, running, pending, view, sent, counted>>
  BY DEF Refuse
<1>3. r \in JsonRpcRequest
  BY DEF IInv, TypeOK
<1>4. Contract!Next
  <2>1. HandledAsPromised(r)
    BY <1>1, <1>2, <1>3, ErrorHandled
  <2>2. (requests \cup running)' = (requests \cup running) \ {r}
    BY <1>2 DEF IInv, InOnePlace
  <2> QED
    BY <1>2, <2>1, <2>2, AnswerPerforms
<1>5. TypeOK'
  <2>1. error(r, c) \in JsonRpcResponse
    BY <1>3, ErrorType
  <2> QED
    BY <1>1, <1>2, <2>1 DEF IInv, TypeOK
<1> QED
  BY <1>2, <1>4, <1>5
  DEF Fine, IInv, InOnePlace, OnlyCheckedCallsRun, CountsReconcile

LEMMA AcceptFine == ASSUME IInv, NEW r \in requests, Accept(r) PROVE Fine
<1>1. /\ Resolves(r.call.method) /\ Accepts(r.call)
      /\ requests' = requests \ {r} /\ running' = running \cup {r}
      /\ UNCHANGED <<enrolled, margin, responses, pending, view, sent, counted>>
  BY DEF Accept
<1>2. TypeOK'
  BY <1>1 DEF IInv, TypeOK
<1>3. InOnePlace' /\ CountsReconcile'
  BY <1>1 DEF IInv, InOnePlace, CountsReconcile
<1>4. OnlyCheckedCallsRun'
  BY <1>1, AcceptedIsChecked DEF IInv, OnlyCheckedCallsRun
<1>5. UNCHANGED Contract!contract
  BY <1>1 DEF Contract!contract
<1> QED
  BY <1>2, <1>3, <1>4, <1>5 DEF Fine, IInv

LEMMA HandleFine == ASSUME IInv, NEW r \in running, Handle(r) PROVE Fine
<1>1. running' = running \ {r} /\ UNCHANGED <<requests, pending, view, sent>>
  BY DEF Handle
<1>2. HandledAsPromised(r) /\ StateKept
  BY HandlersHandle
<1>3. Contract!Next
  <2>1. (requests \cup running)' = (requests \cup running) \ {r}
    BY <1>1 DEF IInv, InOnePlace
  <2> QED
    BY <1>1, <1>2, <2>1, AnswerPerforms
<1>4. TypeOK'
  <2>1. responses' \in SUBSET JsonRpcResponse
    BY <1>2 DEF HandledAsPromised, IInv, TypeOK
  <2> QED
    BY <1>1, <1>2, <2>1 DEF StateKept, IInv, TypeOK
<1> QED
  BY <1>1, <1>2, <1>3, <1>4
  DEF Fine, IInv, StateKept, InOnePlace, OnlyCheckedCallsRun

LEMMA StepFine == IInv /\ [Next]_vars => Fine
<1> SUFFICES ASSUME IInv, [Next]_vars PROVE Fine
  OBVIOUS
<1>1. CASE dispatch
  BY <1>1, RefuseFine, AcceptFine DEF dispatch
<1>2. CASE run
  BY <1>2, HandleFine DEF run
<1>3. CASE \E c \in Client : Send(c) \/ receive(c) \/ GiveUp(c)
  BY <1>3, SendFine, ReceiveFine, GiveUpFine DEF receive
<1>4. CASE \E r \in requests : LoseRequest(r)
  BY <1>4, LoseRequestFine
<1>5. CASE \E resp \in responses : LoseResponse(resp)
  BY <1>5, LoseResponseFine
<1>6. CASE UNCHANGED vars
  BY <1>6 DEF vars, Fine, IInv, TypeOK, InOnePlace, OnlyCheckedCallsRun,
              CountsReconcile, Contract!contract
<1> QED
  BY <1>1, <1>2, <1>3, <1>4, <1>5, <1>6 DEF Next

LEMMA InitFine == Init => IInv /\ Contract!Init
<1> SUFFICES ASSUME Init PROVE IInv /\ Contract!Init
  OBVIOUS
<1>1. Cardinality({}) = 0
  BY FS_EmptySet
<1>2. TypeOK
  BY ConstantsAssumption DEF Init, TypeOK
<1> QED
  BY <1>1, <1>2 DEF Init, IInv, InOnePlace, OnlyCheckedCallsRun,
                    CountsReconcile, Contract!Init

LEMMA Invariant == Spec => []IInv
<1>1. IInv /\ [Next]_vars => IInv'
  BY StepFine DEF Fine
<1>2. Init => IInv
  BY InitFine
<1> QED
  BY <1>1, <1>2, PTL DEF Spec

-----------------------------------------------------------------------------
(* The theorems                                                            *)

\* Registry, margin, messages and views stay well typed: keys are enrolled in
\* one spelling, whatever spellings they arrive in (normalize_public_key).
THEOREM TypeCorrect == Spec => []TypeOK
<1>1. IInv => TypeOK
  BY DEF IInv
<1> QED
  BY <1>1, Invariant, PTL

\* No handler is awaited with params that break a rule of their type, the rules
\* left to the handlers apart (decode and validated() in dispatch_method): the
\* types and the arms between them leave none out.
THEOREM CheckedCalls == Spec => []OnlyCheckedCallsRun
<1>1. IInv => OnlyCheckedCallsRun
  BY DEF IInv
<1> QED
  BY <1>1, Invariant, PTL

\* The counts wallet_watch and wallet_unwatch report add up to the registry.
THEOREM CountsAddUp == Spec => []CountsReconcile
<1>1. IInv => CountsReconcile
  BY DEF IInv
<1> QED
  BY <1>1, Invariant, PTL

\* Dispatching, handling and losing implement the contract: every call takes
\* effect at most once, at one instant, and its answer reports that effect.
THEOREM CallsHonourContract == Spec => HonoursContract
<1>1. Init => Contract!Init
  BY InitFine
<1>2. IInv /\ [Next]_vars => [Contract!Next]_(Contract!contract)
  BY StepFine DEF Fine
<1> QED
  BY <1>1, <1>2, Invariant, PTL DEF Spec, HonoursContract, Contract!Spec

-----------------------------------------------------------------------------
(***************************************************************************)
(* A client reads its own answers (AnswersAreOwn).                         *)
(*                                                                         *)
(* Nothing but the id ties a response to its call, so the invariant is     *)
(* about ids: of the requests held anywhere, client memory included, no    *)
(* two share one; a response that some waiting client would match suits    *)
(* the call that client made; and ids grow, so that a call given up is     *)
(* never answered to its successor.                                        *)
(***************************************************************************)

Waiting == UNION {pending[c] : c \in Client}
Alive == requests \cup running \cup Waiting

\* A response with one result or one error that a call can have.
Suits(call, resp) ==
  \/ \E v \in resp.result :
       /\ resp.result = {v} /\ resp.error = {}
       /\ v.of = call.method \/ (v = Nothing /\ call.method \in Proxied)
       /\ call.method # Unknown
       /\ call.method = MARGIN_SET => v.total = call.params.number
  \/ \E e \in resp.error :
       /\ resp.result = {} /\ resp.error = {e}
       /\ call.method = Unknown => e = "METHOD_NOT_FOUND"

IdsAreOwn ==
  /\ \A r \in Alive, s \in Alive : r.id = s.id => r = s
  /\ \A r \in Alive : r.id <= sent
  /\ \A resp \in responses : resp.id <= sent
  /\ \A c \in Client : \A a \in view[c] : a.id <= sent

ResponsesSuit ==
  \A resp \in responses : \A r \in Waiting : resp.id = r.id => Suits(r.call, resp)

-----------------------------------------------------------------------------
(* One response                                                            *)

LEMMA UnknownIsNoMethod == Unknown \notin ControlMethod
BY DEF Unknown, ControlMethod, category

LEMMA MarginSetIsTyped == MARGIN_SET \notin Proxied /\ MARGIN_SET # Unknown /\ Unknown \notin Proxied
BY DEF MARGIN_SET, Proxied, Unknown

\* What a client makes of a response that suits its call.
OwnAnswer(call, got) ==
  /\ Cardinality(got.result) + Cardinality(got.error) = 1
  /\ \A v \in got.result : v.of \in {call.method, "null"}
  /\ call.method = Unknown => got.error = {"METHOD_NOT_FOUND"}
  /\ call.method = MARGIN_SET /\ got.error = {} =>
       \A v \in got.result : v.total = call.params.number

LEMMA OneError ==
  ASSUME NEW call, NEW e, NEW got, got.result = {}, got.error = {e},
         call.method = Unknown => e = "METHOD_NOT_FOUND"
  PROVE  OwnAnswer(call, got)
<1>1. Cardinality({}) = 0 /\ Cardinality({e}) = 1
  BY FS_EmptySet, FS_Singleton
<1> QED
  BY <1>1 DEF OwnAnswer

LEMMA OneResult ==
  ASSUME NEW call, NEW v, NEW got, got.result = {v}, got.error = {},
         v.of \in {call.method, "null"}, call.method # Unknown,
         call.method = MARGIN_SET => v.total = call.params.number
  PROVE  OwnAnswer(call, got)
<1>1. Cardinality({}) = 0 /\ Cardinality({v}) = 1
  BY FS_EmptySet, FS_Singleton
<1> QED
  BY <1>1 DEF OwnAnswer

LEMMA SuitableIsOwn ==
  ASSUME NEW call, NEW resp \in JsonRpcResponse, Suits(call, resp)
  PROVE  OwnAnswer(call, parse_response(call.method, Carried(resp)))
<1> DEFINE got == parse_response(call.method, Carried(resp))
<1>1. ASSUME NEW e, resp.result = {}, resp.error = {e},
             call.method = Unknown => e = "METHOD_NOT_FOUND"
      PROVE  OwnAnswer(call, got)
  <2>1. Carried(resp) = resp
    BY <1>1 DEF Carried
  <2>2. into_result(resp).result = {} /\ into_result(resp).error = {e}
    BY <1>1 DEF into_result
  <2>3. got.result = {} /\ got.error = {e}
    BY <2>1, <2>2 DEF parse_response
  <2> HIDE DEF got
  <2> QED
    BY <1>1, <2>3, OneError
<1>2. ASSUME NEW v, resp.result = {v}, resp.error = {},
             v.of = call.method \/ (v = Nothing /\ call.method \in Proxied),
             call.method # Unknown,
             call.method = MARGIN_SET => v.total = call.params.number
      PROVE  OwnAnswer(call, got)
  <2>1. CASE Wire /\ v = Nothing
    <3>1. Carried(resp).result = {} /\ Carried(resp).error = {}
      BY <1>2, <2>1 DEF Carried, JsonRpcResponse
    <3>2. /\ into_result(Carried(resp)).result = {}
          /\ into_result(Carried(resp)).error = {"CONTROL_ERROR"}
      BY <3>1 DEF into_result
    <3>3. got.result = {} /\ got.error = {"CONTROL_ERROR"}
      BY <3>2 DEF parse_response
    <3> HIDE DEF got
    <3> QED
      BY <1>2, <3>3, OneError
  <2>2. CASE ~ (Wire /\ v = Nothing)
    <3>1. Carried(resp) = resp
      BY <1>2, <2>2 DEF Carried
    <3>2. into_result(resp).result = {v} /\ into_result(resp).error = {}
      BY <1>2 DEF into_result
    <3>3. got.result = {v} /\ got.error = {}
      BY <1>2, <3>1, <3>2 DEF parse_response
    <3>4. v.of \in {call.method, "null"}
      BY <1>2 DEF Nothing
    <3> HIDE DEF got
    <3> QED
      BY <1>2, <3>3, <3>4, OneResult
  <2> QED
    BY <2>1, <2>2
<1> QED
  BY <1>1, <1>2 DEF Suits

-----------------------------------------------------------------------------
(* What the node answers                                                   *)

LEMMA SuccessSuits ==
  ASSUME NEW r, NEW v, v.of = r.call.method, r.call.method # Unknown,
         r.call.method = MARGIN_SET => v.total = r.call.params.number
  PROVE  Suits(r.call, success(r, {v}))
BY DEF Suits, success

LEMMA ErrorSuits ==
  ASSUME NEW r, NEW e, r.call.method = Unknown => e = "METHOD_NOT_FOUND"
  PROVE  Suits(r.call, error(r, e))
BY DEF Suits, error

\* The call r is answered by one response, under its id, that suits it.
Answers(r) ==
  \E resp : responses' = responses \cup {resp} /\ resp.id = r.id /\ Suits(r.call, resp)

LEMMA SuccessAnswers ==
  ASSUME NEW r, NEW v, v.of = r.call.method, r.call.method # Unknown,
         r.call.method = MARGIN_SET => v.total = r.call.params.number,
         responses' = responses \cup {success(r, {v})}
  PROVE  Answers(r)
<1>1. success(r, {v}).id = r.id
  BY DEF success
<1> QED
  BY <1>1, SuccessSuits DEF Answers

LEMMA ErrorAnswers ==
  ASSUME NEW r, NEW e, r.call.method = Unknown => e = "METHOD_NOT_FOUND",
         responses' = responses \cup {error(r, e)}
  PROVE  Answers(r)
<1>1. error(r, e).id = r.id
  BY DEF error
<1> QED
  BY <1>1, ErrorSuits DEF Answers

LEMMA RefusalAnswers == ASSUME NEW r \in requests, Refuse(r) PROVE Answers(r)
<1>1. Unknown \notin ControlMethod
  BY UnknownIsNoMethod
<1>2. CASE RefuseUnknown(r)
  BY <1>2, DispatchErrors, ErrorAnswers DEF RefuseUnknown
<1>3. CASE RefuseParams(r)
  BY <1>1, <1>3, DispatchErrors, ErrorAnswers DEF RefuseParams, Resolves
<1> QED
  BY <1>2, <1>3 DEF Refuse

LEMMA HandlerAnswers == ASSUME IInv, NEW r \in running, Handle(r) PROVE Answers(r)
<1>1. r.call.method # Unknown
  BY RunningCall, UnknownIsNoMethod
<1>2. ASSUME NEW m \in Modelled, r.call.method = m, NEW count, NEW total, NEW keys,
             m = MARGIN_SET => total = r.call.params.number,
             responses' = responses \cup {success(r, Ok(m, count, total, keys))}
      PROVE  Answers(r)
  <2> DEFINE v == [of |-> m, count |-> count, total |-> total, keys |-> keys]
  <2>1. v.of = m /\ v.total = total /\ Ok(m, count, total, keys) = {v}
    BY DEF Ok
  <2> HIDE DEF v
  <2> QED
    BY <1>1, <1>2, <2>1, SuccessAnswers
<1>3. CASE wallet_watch(r)
  <2> DEFINE added == normalized(r.call.params.keys) \ enrolled
  <2>1. responses' = responses \cup
          {success(r, Ok(WATCH, Cardinality(added), Cardinality(enrolled'), {}))}
    BY <1>3 DEF wallet_watch
  <2>2. r.call.method = WATCH /\ WATCH \in Modelled /\ WATCH # MARGIN_SET
    BY <1>3 DEF wallet_watch, Modelled, WATCH, MARGIN_SET
  <2> HIDE DEF added
  <2> QED
    BY <1>2, <2>1, <2>2
<1>4. CASE wallet_unwatch(r)
  <2> DEFINE removed == normalized(r.call.params.keys) \cap enrolled
  <2>1. responses' = responses \cup
          {success(r, Ok(UNWATCH, Cardinality(removed), Cardinality(enrolled'), {}))}
    BY <1>4 DEF wallet_unwatch
  <2>2. r.call.method = UNWATCH /\ UNWATCH \in Modelled /\ UNWATCH # MARGIN_SET
    BY <1>4 DEF wallet_unwatch, Modelled, UNWATCH, MARGIN_SET
  <2> HIDE DEF removed
  <2> QED
    BY <1>2, <2>1, <2>2
<1>5. CASE wallet_watched(r)
  <2>1. WATCHED \in Modelled /\ WATCHED # MARGIN_SET
    BY DEF Modelled, WATCHED, MARGIN_SET
  <2> QED
    BY <1>2, <1>5, <2>1 DEF wallet_watched
<1>6. CASE collateral_margin_get(r)
  <2>1. MARGIN_GET \in Modelled /\ MARGIN_GET # MARGIN_SET
    BY DEF Modelled, MARGIN_GET, MARGIN_SET
  <2> QED
    BY <1>2, <1>6, <2>1 DEF collateral_margin_get
<1>7. CASE collateral_margin_set(r)
  <2>1. MARGIN_SET \in Modelled
    BY DEF Modelled
  <2> QED
    BY <1>2, <1>7, <2>1 DEF collateral_margin_set
<1>8. CASE wallet_reset_coin_db(r)
  <2>1. RESET \in Modelled /\ RESET # MARGIN_SET
    BY DEF Modelled, RESET, MARGIN_SET
  <2>2. CASE r.call.params.ok
    BY <1>2, <1>8, <2>1, <2>2 DEF wallet_reset_coin_db
  <2>3. CASE ~ r.call.params.ok
    <3>1. responses' = responses \cup {error(r, "INVALID_PARAMS")}
      BY <1>8, <2>3 DEF wallet_reset_coin_db
    <3> QED
      BY <1>1, <3>1, ErrorAnswers
  <2> QED
    BY <2>2, <2>3
<1>9. CASE external_handler(r)
  <2>1. r.call.method # MARGIN_SET
    BY <1>9 DEF external_handler, Modelled
  <2>2. CASE responses' = responses \cup {success(r, Ok(r.call.method, 0, 0, {}))}
    <3> DEFINE v == [of |-> r.call.method, count |-> 0, total |-> 0, keys |-> {}]
    <3>1. v.of = r.call.method /\ Ok(r.call.method, 0, 0, {}) = {v}
      BY DEF Ok
    <3> HIDE DEF v
    <3> QED
      BY <1>1, <2>1, <2>2, <3>1, SuccessAnswers
  <2>3. CASE r.call.method \in Proxied /\ responses' = responses \cup {success(r, {Nothing})}
    <3>1. success(r, {Nothing}).id = r.id /\ Suits(r.call, success(r, {Nothing}))
      BY <1>1, <2>1, <2>3 DEF success, Suits
    <3> QED
      BY <2>3, <3>1 DEF Answers
  <2>4. CASE \E c \in ControlErrorCode : responses' = responses \cup {error(r, c)}
    BY <1>1, <2>4, ErrorAnswers
  <2> QED
    BY <1>9, <2>2, <2>3, <2>4 DEF external_handler
<1> QED
  BY <1>3, <1>4, <1>5, <1>6, <1>7, <1>8, <1>9 DEF Handle
-----------------------------------------------------------------------------
(* The steps                                                               *)

\* The inductive parts beyond IInv.
Own == IdsAreOwn /\ ResponsesSuit /\ AnswersAreOwn

LEMMA IdsAreNat ==
  ASSUME TypeOK
  PROVE  /\ sent \in Nat
         /\ \A r \in Alive : r.id \in Nat
         /\ \A resp \in responses : resp.id \in Nat
         /\ \A c \in Client : \A a \in view[c] : a.id \in Nat
<1>1. Alive \subseteq JsonRpcRequest
  BY DEF TypeOK, Alive, Waiting
<1>2. \A c \in Client : view[c] \subseteq Answered
  BY DEF TypeOK
<1> QED
  BY <1>1, <1>2 DEF TypeOK, JsonRpcRequest, JsonRpcResponse, Answered, RequestId

\* Messages disappear or move on, and clients stop waiting.
LEMMA FewerOwn ==
  ASSUME Own, Alive' \subseteq Alive, Waiting' \subseteq Waiting,
         responses' \subseteq responses, UNCHANGED <<view, sent>>,
         \A c \in Client : pending'[c] \subseteq pending[c]
  PROVE  Own'
<1>1. IdsAreOwn'
  BY DEF Own, IdsAreOwn
<1>2. ResponsesSuit'
  BY DEF Own, ResponsesSuit
<1>3. AnswersAreOwn'
  BY DEF Own, AnswersAreOwn
<1> QED
  BY <1>1, <1>2, <1>3 DEF Own

\* The node answers a call it holds.
LEMMA AnswerOwn ==
  ASSUME IInv, Own, NEW r \in requests \cup running, Answers(r),
         Alive' \subseteq Alive, UNCHANGED <<pending, view, sent>>
  PROVE  Own'
<1>1. PICK resp : responses' = responses \cup {resp} /\ resp.id = r.id /\ Suits(r.call, resp)
  BY DEF Answers
<1>2. r \in Alive /\ r.id <= sent
  BY DEF Alive, Own, IdsAreOwn
<1>3. Waiting' = Waiting
  BY DEF Waiting
<1>4. IdsAreOwn'
  BY <1>1, <1>2 DEF Own, IdsAreOwn
<1>5. ResponsesSuit'
  <2>1. \A s \in Waiting : s.id = r.id => s = r
    BY <1>2 DEF Alive, Own, IdsAreOwn
  <2> QED
    BY <1>1, <1>3, <2>1 DEF Own, ResponsesSuit
<1>6. AnswersAreOwn'
  BY DEF Own, AnswersAreOwn
<1> QED
  BY <1>4, <1>5, <1>6 DEF Own

LEMMA SendOwn == ASSUME IInv, Own, NEW c \in Client, Send(c) PROVE Own'
<1>0. PICK m \in Method \cup {Unknown} : \E params \in Asked(m) :
        /\ requests' = requests \cup {build_request(c, m, params)}
        /\ pending' = [pending EXCEPT ![c] = {build_request(c, m, params)}]
  BY DEF Send
<1>1. PICK r :
        /\ requests' = requests \cup {r}
        /\ pending' = [pending EXCEPT ![c] = {r}]
        /\ r.id = sent + 1
  <2>1. \A params : build_request(c, m, params).id = sent + 1
    BY DEF build_request
  <2> QED
    BY <1>0, <2>1
<1>2. sent' = sent + 1 /\ UNCHANGED <<running, responses, view>> /\ pending[c] = {}
  BY DEF Send
<1>3. pending \in [Client -> SUBSET JsonRpcRequest] /\ TypeOK
  BY DEF IInv, TypeOK
<1>4. Waiting' = Waiting \cup {r}
  BY <1>1, <1>2, <1>3 DEF Waiting
<1>5. Alive' = Alive \cup {r}
  BY <1>1, <1>2, <1>4 DEF Alive
<1>6. /\ sent \in Nat
      /\ \A s \in Alive : s.id \in Nat /\ s.id <= sent
      /\ \A resp \in responses : resp.id \in Nat /\ resp.id <= sent
      /\ \A d \in Client : \A a \in view[d] : a.id \in Nat /\ a.id <= sent
  BY <1>3, IdsAreNat DEF Own, IdsAreOwn
<1>7. IdsAreOwn'
  <2>1. \A s \in Alive : s.id # r.id /\ s.id <= sent'
    BY <1>1, <1>2, <1>6
  <2>2. \A s \in Alive', t \in Alive' : s.id = t.id => s = t
    BY <1>5, <2>1 DEF Own, IdsAreOwn
  <2>3. \A s \in Alive' : s.id <= sent'
    BY <1>1, <1>2, <1>5, <1>6, <2>1
  <2>4. /\ \A resp \in responses' : resp.id <= sent'
        /\ \A d \in Client : \A a \in view'[d] : a.id <= sent'
    BY <1>2, <1>6
  <2> QED
    BY <2>2, <2>3, <2>4 DEF IdsAreOwn
<1>8. ResponsesSuit'
  <2>1. \A resp \in responses : resp.id # r.id
    BY <1>1, <1>6
  <2> QED
    BY <1>2, <1>4, <2>1 DEF Own, ResponsesSuit
<1>9. AnswersAreOwn'
  <2>1. \A d \in Client : \A a \in view[d] : \A s \in pending'[d] : a.id < s.id
    <3> SUFFICES ASSUME NEW d \in Client, NEW a \in view[d], NEW s \in pending'[d]
                 PROVE  a.id < s.id
      OBVIOUS
    <3>1. CASE d = c
      BY <1>1, <1>3, <1>6, <3>1
    <3>2. CASE d # c
      BY <1>1, <1>3, <3>2 DEF Own, AnswersAreOwn
    <3> QED
      BY <3>1, <3>2
  <2> QED
    BY <1>2, <2>1 DEF Own, AnswersAreOwn
<1> QED
  BY <1>7, <1>8, <1>9 DEF Own

LEMMA ReceiveOwn ==
  ASSUME IInv, Own, NEW c \in Client, NEW resp \in responses, Receive(c, resp)
  PROVE  Own'
<1>1. PICK r \in pending[c] :
        LET got == parse_response(r.call.method, Carried(resp)) IN
        /\ resp.id = r.id
        /\ view' = [view EXCEPT ![c] =
             {[id |-> r.id, call |-> r.call, result |-> got.result, error |-> got.error]}]
  BY DEF Receive
<1> DEFINE got == parse_response(r.call.method, Carried(resp))
<1> DEFINE answer == [id |-> r.id, call |-> r.call, result |-> got.result, error |-> got.error]
<1>2. /\ pending' = [pending EXCEPT ![c] = {}] /\ responses' = responses \ {resp}
      /\ UNCHANGED <<requests, running, sent>>
  BY DEF Receive
<1>3. TypeOK /\ resp \in JsonRpcResponse
  BY DEF IInv, TypeOK
<1>4. r \in Waiting /\ r \in Alive
  BY DEF Waiting, Alive
<1>5. OwnAnswer(r.call, got)
  BY <1>1, <1>3, <1>4, SuitableIsOwn DEF Own, ResponsesSuit
<1>6. answer.id = r.id /\ answer.call = r.call /\ OwnAnswer(answer.call, answer)
  BY <1>5 DEF OwnAnswer
<1>7. view' = [view EXCEPT ![c] = {answer}]
  BY <1>1
<1> HIDE DEF answer
<1>8. \A d \in Client : pending'[d] \subseteq pending[d]
  BY <1>2, <1>3 DEF TypeOK
<1>9. Waiting' \subseteq Waiting /\ Alive' \subseteq Alive
  BY <1>2, <1>8 DEF Waiting, Alive
<1>10. \A d \in Client : \A a \in view'[d] : (d = c /\ a = answer) \/ (d # c /\ a \in view[d])
  BY <1>3, <1>7 DEF TypeOK
<1>11. IdsAreOwn'
  BY <1>2, <1>4, <1>6, <1>9, <1>10 DEF Own, IdsAreOwn
<1>12. ResponsesSuit'
  BY <1>2, <1>9 DEF Own, ResponsesSuit
<1>13. AnswersAreOwn'
  <2>1. pending'[c] = {}
    BY <1>2, <1>3 DEF TypeOK
  <2> SUFFICES ASSUME NEW d \in Client, NEW a \in view'[d]
               PROVE  OwnAnswer(a.call, a) /\ \A s \in pending'[d] : a.id < s.id
    BY DEF AnswersAreOwn, OwnAnswer
  <2>2. CASE d = c /\ a = answer
    BY <1>6, <2>1, <2>2
  <2>3. CASE d # c /\ a \in view[d]
    BY <1>8, <2>3 DEF Own, AnswersAreOwn, OwnAnswer
  <2> QED
    BY <1>10, <2>2, <2>3
<1> QED
  BY <1>11, <1>12, <1>13 DEF Own

LEMMA StepOwn == IInv /\ Own /\ [Next]_vars => Own'
<1> SUFFICES ASSUME IInv, Own, [Next]_vars PROVE Own'
  OBVIOUS
<1>1. ASSUME NEW r \in requests, Refuse(r) PROVE Own'
  <2>1. requests' = requests \ {r} /\ UNCHANGED <<running, pending, view, sent>>
    BY <1>1 DEF Refuse
  <2>2. Alive' \subseteq Alive
    BY <2>1 DEF Alive, Waiting
  <2> QED
    BY <1>1, <2>1, <2>2, RefusalAnswers, AnswerOwn
<1>2. ASSUME NEW r \in requests, Accept(r) PROVE Own'
  <2>1. requests' = requests \ {r} /\ running' = running \cup {r}
        /\ UNCHANGED <<responses, pending, view, sent>>
    BY <1>2 DEF Accept
  <2>2. Alive' \subseteq Alive /\ Waiting' = Waiting
    BY <2>1 DEF Alive, Waiting
  <2> QED
    BY <2>1, <2>2, FewerOwn
<1>3. ASSUME NEW r \in running, Handle(r) PROVE Own'
  <2>1. running' = running \ {r} /\ UNCHANGED <<requests, pending, view, sent>>
    BY <1>3 DEF Handle
  <2>2. Alive' \subseteq Alive
    BY <2>1 DEF Alive, Waiting
  <2> QED
    BY <1>3, <2>1, <2>2, HandlerAnswers, AnswerOwn
<1>4. ASSUME NEW c \in Client, GiveUp(c) PROVE Own'
  <2>1. pending' = [pending EXCEPT ![c] = {}]
        /\ UNCHANGED <<requests, running, responses, view, sent>>
    BY <1>4 DEF GiveUp
  <2>2. \A d \in Client : pending'[d] \subseteq pending[d]
    BY <2>1 DEF IInv, TypeOK
  <2>3. Alive' \subseteq Alive /\ Waiting' \subseteq Waiting
    BY <2>1, <2>2 DEF Alive, Waiting
  <2> QED
    BY <2>1, <2>2, <2>3, FewerOwn
<1>5. ASSUME requests' \subseteq requests, responses' \subseteq responses,
             UNCHANGED <<running, pending, view, sent>>
      PROVE  Own'
  <2>1. Alive' \subseteq Alive /\ Waiting' = Waiting
    BY <1>5 DEF Alive, Waiting
  <2> QED
    BY <1>5, <2>1, FewerOwn
<1>6. CASE \E r \in requests : LoseRequest(r)
  BY <1>5, <1>6 DEF LoseRequest
<1>7. CASE \E resp \in responses : LoseResponse(resp)
  BY <1>5, <1>7 DEF LoseResponse
<1>8. CASE UNCHANGED vars
  BY <1>5, <1>8 DEF vars
<1> QED
  BY <1>1, <1>2, <1>3, <1>4, <1>6, <1>7, <1>8, SendOwn, ReceiveOwn
  DEF Next, dispatch, run, receive

LEMMA InitOwn == Init => Own
<1> SUFFICES ASSUME Init PROVE Own
  OBVIOUS
<1>1. Alive = {} /\ Waiting = {} /\ responses = {} /\ \A c \in Client : view[c] = {}
  BY DEF Init, Alive, Waiting
<1> QED
  BY <1>1 DEF Own, IdsAreOwn, ResponsesSuit, AnswersAreOwn

-----------------------------------------------------------------------------
(* The theorem                                                             *)

\* Whatever overtook what, was lost or given up, a client that matches ids reads
\* one outcome per call, and it is that of its own call (parse_response).
THEOREM OwnAnswers == Spec => []AnswersAreOwn
<1>1. Own => AnswersAreOwn
  BY DEF Own
<1> QED
  BY <1>1, InitOwn, StepOwn, Invariant, PTL DEF Spec
===============================================================================
