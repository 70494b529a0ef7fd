------------------------ MODULE ReservationContract ------------------------
(***************************************************************************)
(* The promise the reservation methods make to a caller (the obligations   *)
(* stated on ControlHandler's wallet_reservations_* methods and enforced   *)
(* by the tests): acquisition takes every coin or none, a live clash is    *)
(* the one reason to refuse a well-formed request, a handle is never       *)
(* minted twice, every hold lapses within the node's maximum, a handle     *)
(* with no live hold releases nothing and says so, and held lists exactly  *)
(* the live holds.  This is an abstract specification, used as a property  *)
(* of Reservations; it says nothing of how a node keeps its table.         *)
(***************************************************************************)
EXTENDS Integers

CONSTANT MaxTtl   \* the node's own maximum lifetime

VARIABLES
  holds,   \* the reservations: [id, coins, expires]
  now,     \* the node's own clock, never the caller's
  reply,   \* [outcome, coins] of the last call
  minted   \* handles given out so far

vars == <<holds, now, reply, minted>>

Live == {h \in holds : h.expires > now}
LiveCoins == UNION {h.coins : h \in Live}

Replies(outcome, coins) == reply' = [outcome |-> outcome, coins |-> coins]

Init == holds = {} /\ now = 0 /\ minted = {}

\* reserve: every coin of one new hold, under a handle nobody has seen.
Grant ==
  \E h \in holds' \ holds :
    /\ h.id \notin minted
    /\ h.coins \cap LiveCoins = {}
    /\ h.expires \in now .. (now + MaxTtl)
    /\ holds' = holds \cup {h}
    /\ minted' = minted \cup {h.id}
    /\ Replies("Granted", h.coins)
    /\ UNCHANGED now

\* A refusal writes nothing, and a clash is refused only for a live hold.
Refuse ==
  /\ \/ Replies("InvalidParams", {})
     \/ /\ reply'.coins \cap LiveCoins # {}
        /\ Replies("WalletCoinsReserved", reply'.coins)
  /\ UNCHANGED <<holds, now, minted>>

\* release: every coin of one live hold.
Free ==
  \E h \in Live :
    /\ holds' = holds \ {h}
    /\ Replies("Released", h.coins)
    /\ UNCHANGED <<now, minted>>

\* release of a handle with no live hold: a success that frees nothing; the
\* node may forget lapsed holds.
FreeNothing ==
  /\ Live \subseteq holds'
  /\ holds' \subseteq holds
  /\ Replies("NothingReleased", {})
  /\ UNCHANGED <<now, minted>>

Held ==
  /\ Replies("Held", LiveCoins)
  /\ UNCHANGED <<holds, now, minted>>

\* Time passes, or a client comes or goes: no hold is touched.
Environment ==
  /\ now' >= now
  /\ Replies("None", {})
  /\ UNCHANGED <<holds, minted>>

Next == Grant \/ Refuse \/ Free \/ FreeNothing \/ Held \/ Environment

Spec == Init /\ [][Next]_vars
=============================================================================
