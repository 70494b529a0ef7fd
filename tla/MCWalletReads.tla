----------------------------- MODULE MCWalletReads -----------------------------
(***************************************************************************)
(* The two wallet reads a client resumes by position, for TLC: the coin    *)
(* set (CoinWalk) and the arrival ledger (ArrivalsWalk).  They share no    *)
(* state, so one behaviour reads one of them while the other rests: the    *)
(* state spaces add up instead of multiplying.                             *)
(***************************************************************************)
EXTENDS CoinWalk

CONSTANTS PageSize, MaxSeq

VARIABLES
  ledger, drafts, answers, position, fresh, begin, told,
  reading    \* which of the two this behaviour reads

Arrivals == INSTANCE ArrivalsWalk

ASSUME ArrivalsAssumption == Arrivals!ConstantsAssumption

arrivals_vars == <<ledger, drafts, answers, position, fresh, begin, told>>
reads_vars == <<vars, arrivals_vars, reading>>

RestingCoins ==
  /\ coins = {} /\ paged = TRUE /\ reply = {} /\ walk = "idle"
  /\ after = NoCursor /\ seen = {} /\ stayed = {}

RestingArrivals == Arrivals!Init /\ ledger = 0

ReadsInit ==
  \/ reading = "coins" /\ Init /\ RestingArrivals
  \/ reading = "arrivals" /\ RestingCoins /\ Arrivals!Init

ReadCoins ==
  /\ reading = "coins"
  /\ Next
  /\ UNCHANGED <<arrivals_vars, reading>>

ReadArrivals ==
  /\ reading = "arrivals"
  /\ Arrivals!Next
  /\ UNCHANGED <<vars, reading>>

ReadsNext == ReadCoins \/ ReadArrivals

Coins(A) == reading = "coins" /\ A
Ledger(A) == reading = "arrivals" /\ A

\* FairSpec of CoinWalk and of ArrivalsWalk, each while it is the one read.
ReadsSpec ==
  /\ ReadsInit
  /\ [][ReadsNext]_reads_vars
  /\ WF_vars(Coins(first_page))
  /\ WF_vars(Coins(Answer))
  /\ SF_vars(Coins(TakeReply))
  /\ WF_arrivals_vars(Ledger(Arrivals!wallet_arrivals))
  /\ SF_arrivals_vars(Ledger(Arrivals!ReadLatest))
  /\ SF_arrivals_vars(Ledger(Arrivals!Take \/ Arrivals!BeginNow))

-----------------------------------------------------------------------------
(* The properties of ArrivalsWalk by name; those of CoinWalk have theirs   *)

\* No arrival is stepped over by a client that resumes from the cursor
\* (WalletArrivalsResult), not even one recorded while a page was assembled.
NoneSteppedOver == Arrivals!NoneSteppedOver

\* No payment is announced to a client twice.
ToldOnce == Arrivals!ToldOnce

\* Every payment after the place a client begins at is announced in the end.
EveryArrivalIsTold == Arrivals!EveryArrivalIsTold
=============================================================================
