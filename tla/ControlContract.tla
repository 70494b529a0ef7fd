--------------------------- MODULE ControlContract ---------------------------
(***************************************************************************)
(* What the control plane promises, without its parts: a submitted call is *)
(* open; it is answered at most once; an error changes nothing; a success  *)
(* was legal and reports the change it made, all of it, at one instant.    *)
(* Calls and answers may be lost at any time.                              *)
(***************************************************************************)
EXTENDS Catalog, FiniteSets

CONSTANTS Client, Key, MAX_SAFETY_MARGIN_BP, DEFAULT_SAFETY_MARGIN_BP

VARIABLES enrolled, margin, open, answers, sent

state == <<enrolled, margin>>
contract == <<enrolled, margin, open, answers, sent>>

Named(call) == {raw[1] : raw \in call.params.keys}
Malformed(call) == \E raw \in call.params.keys : raw[2] = "malformed"

Init ==
  /\ enrolled = {}
  /\ margin = DEFAULT_SAFETY_MARGIN_BP
  /\ open = {}
  /\ answers = {}
  /\ sent = 0

Submit ==
  /\ sent' = sent + 1
  /\ \E r \in open' : r.id = sent' /\ r.client \in Client /\
       open' = open \cup {r}
  /\ UNCHANGED <<enrolled, margin, answers>>

\* One result that reports the change, to the registry or to the margin.
Reports(m, result, count, total, keys) ==
  result = {[of |-> m, count |-> count, total |-> total, keys |-> keys]}

Watch(call, result) ==
  /\ call.method = "control.wallet.watch"
  /\ ~Malformed(call)
  /\ enrolled' = enrolled \cup Named(call)
  /\ margin' = margin
  /\ Reports(call.method, result,
       Cardinality(enrolled') - Cardinality(enrolled), Cardinality(enrolled'), {})

Unwatch(call, result) ==
  /\ call.method = "control.wallet.unwatch"
  /\ ~Malformed(call)
  /\ enrolled' = enrolled \ Named(call)
  /\ margin' = margin
  /\ Reports(call.method, result,
       Cardinality(enrolled) - Cardinality(enrolled'), Cardinality(enrolled'), {})

Watched(call, result) ==
  /\ call.method = "control.wallet.watched"
  /\ UNCHANGED state
  /\ Reports(call.method, result, 0, 0, enrolled)

MarginGet(call, result) ==
  /\ call.method = "control.collateral.margin.get"
  /\ UNCHANGED state
  /\ Reports(call.method, result, 0, margin, {})

MarginSet(call, result) ==
  /\ call.method = "control.collateral.margin.set"
  /\ call.params.number <= MAX_SAFETY_MARGIN_BP
  /\ enrolled' = enrolled
  /\ margin' = call.params.number
  /\ Reports(call.method, result, 0, call.params.number, {})

ResetCoinDb(call, result) ==
  /\ call.method = "control.wallet.resetCoinDb"
  /\ call.params.ok
  /\ UNCHANGED state
  /\ Reports(call.method, result, 0, 0, {})

Other(call, result) ==
  /\ call.method \in ControlMethod
  /\ call.method \notin {"control.wallet.watch", "control.wallet.unwatch",
       "control.wallet.watched", "control.collateral.margin.get",
       "control.collateral.margin.set", "control.wallet.resetCoinDb"}
  /\ UNCHANGED state
  /\ \E of \in {call.method, "null"} : Reports(of, result, 0, 0, {})

Succeed(r, result) ==
  \/ Watch(r.call, result) \/ Unwatch(r.call, result) \/ Watched(r.call, result)
  \/ MarginGet(r.call, result) \/ MarginSet(r.call, result)
  \/ ResetCoinDb(r.call, result) \/ Other(r.call, result)

Perform(r) ==
  /\ r \in open
  /\ open' = open \ {r}
  /\ \E a \in answers' :
       /\ answers' = answers \cup {a}
       /\ a.id = r.id /\ a.client = r.client
       /\ \/ a.error = {} /\ Succeed(r, a.result)
          \/ a.result = {} /\ a.error # {} /\ UNCHANGED state
  /\ sent' = sent

\* A call or an answer is lost, or an answer is taken by its client.
Lose ==
  /\ open' \subseteq open
  /\ answers' \subseteq answers
  /\ UNCHANGED <<enrolled, margin, sent>>

Next == Submit \/ (\E r \in open : Perform(r)) \/ Lose

Spec == Init /\ [][Next]_contract
=============================================================================
