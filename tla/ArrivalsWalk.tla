----------------------------- MODULE ArrivalsWalk -----------------------------
(***************************************************************************)
(* A client polls control.wallet.arrivals for payments recorded since its  *)
(* position, while the node's arrival ledger grows between two polls and   *)
(* between the two reads one answer is made of: the page first, the head   *)
(* of the ledger afterwards.                                               *)
(*                                                                         *)
(* Rows are their ledger positions, which start at one and are not reused. *)
(***************************************************************************)
EXTENDS Integers, FiniteSets

CONSTANTS
  PageSize,   \* the page sizes served, once asked for and clamped
  MaxSeq      \* bound: arrivals recorded in one behaviour

ConstantsAssumption == PageSize \subseteq Nat /\ MaxSeq \in Nat

VARIABLES
  ledger,    \* the last position recorded
  drafts,    \* the page read, until the head is read too
  answers,   \* the response on its way to the client, if any
  position,  \* where the client resumes from
  fresh,     \* whether the client has yet to choose where to begin
  begin,     \* history: the position the client chose to begin after
  told       \* history: the arrivals the client was told of

vars == <<ledger, drafts, answers, position, fresh, begin, told>>

Init ==
  /\ ledger \in 0..MaxSeq
  /\ drafts = {}
  /\ answers = {}
  /\ position = 0
  /\ fresh = TRUE
  /\ begin = 0
  /\ told = {}

-----------------------------------------------------------------------------
(* The node                                                                *)

Arrive ==
  /\ ledger < MaxSeq
  /\ ledger' = ledger + 1
  /\ UNCHANGED <<drafts, answers, position, fresh, begin, told>>

\* Mutated form: the row the client names is served again.
After_inclusive(after_seq) == {seq \in 1..ledger : seq >= after_seq}

\* Strictly after the position.
After(after_seq) == {seq \in 1..ledger : seq > after_seq}

\* Oldest first.
Page(rows, size) == {seq \in rows : Cardinality({s \in rows : s < seq}) < size}

wallet_arrivals ==
  /\ drafts = {}
  /\ answers = {}
  /\ \E size \in PageSize : drafts' = {Page(After(position), size)}
  /\ UNCHANGED <<ledger, answers, position, fresh, begin, told>>

\* Mutated form: the client resumes from the head of the ledger.
Cursor_latest(arrivals) == ledger

\* Mutated form: an empty page answers with no position.
Cursor_zero(arrivals) ==
  IF arrivals = {} THEN 0 ELSE CHOOSE seq \in arrivals : \A s \in arrivals : s <= seq

\* The last row handed over, or the client's own position.
Cursor(arrivals) ==
  IF arrivals = {} THEN position
  ELSE CHOOSE seq \in arrivals : \A s \in arrivals : s <= seq

ReadLatest ==
  /\ \E arrivals \in drafts :
       answers' = {[arrivals |-> arrivals, cursor |-> Cursor(arrivals), latest |-> ledger]}
  /\ drafts' = {}
  /\ UNCHANGED <<ledger, position, fresh, begin, told>>

Lose ==
  /\ drafts \cup answers # {}
  /\ drafts' = {}
  /\ answers' = {}
  /\ UNCHANGED <<ledger, position, fresh, begin, told>>

-----------------------------------------------------------------------------
(* The client                                                              *)

Take ==
  \E resp \in answers :
    /\ told' = told \cup resp.arrivals
    /\ position' = resp.cursor
    /\ fresh' = FALSE
    /\ answers' = {}
    /\ UNCHANGED <<ledger, drafts, begin>>

\* A first run begins from now instead of replaying the ledger.
BeginNow ==
  \E resp \in answers :
    /\ fresh
    /\ position' = resp.latest
    /\ begin' = resp.latest
    /\ fresh' = FALSE
    /\ answers' = {}
    /\ UNCHANGED <<ledger, drafts, told>>

Next == Arrive \/ wallet_arrivals \/ ReadLatest \/ Lose \/ Take \/ BeginNow

Spec == Init /\ [][Next]_vars

\* The client polls again and again, and answers that are sent often enough
\* arrive.
FairSpec ==
  /\ Spec
  /\ WF_vars(wallet_arrivals)
  /\ SF_vars(ReadLatest)
  /\ SF_vars(Take \/ BeginNow)

-----------------------------------------------------------------------------
(* Properties                                                              *)

\* The client was told of every arrival its position has gone past, those
\* recorded between the page and the head of the ledger included.
NoneSteppedOver == \A seq \in 1..position : seq > begin => seq \in told

\* No payment is announced twice, an empty page in between or not.
ToldOnce == \A resp \in answers : resp.arrivals \cap told = {}

\* Every payment recorded after the place the client begins at is announced to
\* it, although answers are lost and more payments arrive.
EveryArrivalIsTold ==
  \A seq \in 1..MaxSeq :
    (~fresh /\ begin < seq /\ seq <= ledger) ~> seq \in told
=============================================================================
