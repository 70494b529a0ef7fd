------------------------------ MODULE Authority ------------------------------
(***************************************************************************)
(* Who can make the node do what, and what is left when that is taken      *)
(* back.  Apps reach the node with no token or with the paired tokens they *)
(* were handed; the operator reads the master token from a local file.     *)
(* The gate in front of the dispatcher consults the catalog's predicates   *)
(* (requires_auth and requires_master_token, src/src/method.rs); the gate  *)
(* and the handlers behind it are the node's, outside this repository.     *)
(*                                                                         *)
(* Two pieces of state persist and confer authority: the paired tokens and *)
(* the book of Chia peers, where a trusted peer is believed without        *)
(* corroboration and a banned one is not asked at all.  Other methods      *)
(* leave them alone.  Both are kept by the node, outside this repository,  *)
(* and the operations on them are marked external: what add answers is the *)
(* reference node's (corroboration_bypassed), and the book is one of which *)
(* that answer is true.                                                    *)
(***************************************************************************)
EXTENDS Catalog, Integers, FiniteSets

CONSTANTS
  App,         \* programs that ask to be paired
  Operator,    \* the person with the master token
  Ip,          \* Chia full nodes, each with one address
  MaxPairings  \* bound: pairings requested in one behaviour

ASSUME ConstantsAssumption == Operator \notin App /\ MaxPairings \in Nat

VARIABLES
  requested,  \* pairing -> the app that asked for it
  approved,   \* pairing -> who approved it
  delivered,  \* pairings whose token was returned by a poll
  issued,     \* pairings whose token is valid
  trusted,    \* trusted Chia peers: [peer, by], by the caller that added it
  discovered, \* peers the node found, believed as far as others agree
  banned,     \* peers not to be asked
  told        \* Ip -> was the operator told that the peer is believed by itself

tokens == <<requested, approved, delivered, issued>>
peers == <<trusted, discovered, banned, told>>
vars == <<requested, approved, delivered, issued, trusted, discovered, banned, told>>

Pairing == 1..MaxPairings
Caller == App \cup {Operator}

\* The token minted for a pairing is named after it; zero is the master token.
Master == 0
Holds(caller) ==
  IF caller = Operator THEN {Master} ELSE {p \in delivered : requested[p] = caller}

Authorized(caller, m) ==
  \/ ~requires_auth(m)
  \/ Master \in Holds(caller)
  \/ ~requires_master_token(m) /\ Holds(caller) \cap issued # {}

Put(f, key, value) == [k \in DOMAIN f \cup {key} |-> IF k = key THEN value ELSE f[k]]

Init ==
  /\ requested = [p \in {} |-> Operator]
  /\ approved = [p \in {} |-> Operator]
  /\ delivered = {}
  /\ issued = {}
  /\ trusted = {}
  /\ discovered = {}
  /\ banned = {}
  /\ told = [ip \in Ip |-> FALSE]

-----------------------------------------------------------------------------
(* What each method does to the persistent state, once let through         *)

pairing_request(caller) ==
  LET p == Cardinality(DOMAIN requested) + 1 IN
  /\ p \in Pairing
  /\ requested' = Put(requested, p, caller)
  /\ UNCHANGED <<approved, delivered, issued>> /\ UNCHANGED peers

pairing_approve(caller, p) ==
  /\ p \in DOMAIN requested \ DOMAIN approved
  /\ approved' = Put(approved, p, caller)
  /\ issued' = issued \cup {p}
  /\ UNCHANGED <<requested, delivered>> /\ UNCHANGED peers

\* Mutated form: the token is returned before the operator has approved.
pairing_poll_unapproved(caller, p) ==
  /\ p \in DOMAIN requested \ delivered
  /\ requested[p] = caller
  /\ delivered' = delivered \cup {p}
  /\ UNCHANGED <<requested, approved, issued>> /\ UNCHANGED peers

\* The pairing id is known to the app that asked; the token is returned once.
pairing_poll(caller, p) ==
  /\ p \in DOMAIN approved \ delivered
  /\ requested[p] = caller
  /\ delivered' = delivered \cup {p}
  /\ UNCHANGED <<requested, approved, issued>> /\ UNCHANGED peers

pairing_revoke(p) ==
  /\ p \in issued
  /\ issued' = issued \ {p}
  /\ UNCHANGED <<requested, approved, delivered>> /\ UNCHANGED peers

-----------------------------------------------------------------------------
(* Chia peers                                                              *)

\* An address as a caller spells it; the peer it names is its ip.
Spelling == [ip : Ip, form : {"canonical", "other"}]

\* Mutated form: the spelling is trimmed and kept.
canonical_peer_ip_trimmed(raw) == raw

canonical_peer_ip(raw) == [ip |-> raw.ip, form |-> "canonical"]

Trusted == {e.peer : e \in trusted}
Tracked == Trusted \cup discovered \cup banned

\* Mutated form: what was asked for, whatever became of the entry.
corroboration_bypassed_requested(peer) == TRUE

\* What add reports is the trust that results: none where it met a ban.
corroboration_bypassed(peer) == peer \notin banned

Tell(caller, ip, believed) ==
  told' = IF caller = Operator THEN [told EXCEPT ![ip] = believed] ELSE told

\* An add clears a ban, and trusts the peer if that is what it reports; otherwise
\* the entry stays, subject to corroboration like a discovered one.
chia_peers_add(caller, raw) ==
  LET peer == canonical_peer_ip(raw)
      bypassed == corroboration_bypassed(peer)
  IN
  /\ \/ /\ bypassed
        /\ trusted' = {e \in trusted : e.peer # peer} \cup {[peer |-> peer, by |-> caller]}
        /\ discovered' = discovered \ {peer}
     \/ /\ ~bypassed
        /\ trusted' = trusted
        /\ discovered' = discovered \cup {peer}
  /\ banned' = banned \ {peer}
  /\ Tell(caller, raw.ip, bypassed)
  /\ UNCHANGED tokens

\* Removing what is not tracked changes nothing, and the caller is told so.
chia_peers_remove(caller, raw, ban) ==
  LET peer == canonical_peer_ip(raw) IN
  /\ peer \in Tracked
  /\ trusted' = {e \in trusted : e.peer # peer}
  /\ discovered' = discovered \ {peer}
  /\ banned' = IF ban THEN banned \cup {peer} ELSE banned \ {peer}
  /\ Tell(caller, raw.ip, FALSE)
  /\ UNCHANGED tokens

Discover(raw) ==
  LET peer == canonical_peer_ip(raw) IN
  /\ peer \notin Tracked
  /\ discovered' = discovered \cup {peer}
  /\ UNCHANGED <<trusted, banned, told>> /\ UNCHANGED tokens

-----------------------------------------------------------------------------

Effect(caller, m) ==
  \/ m = "pairing.request" /\ caller # Operator /\ pairing_request(caller)
  \/ m = "control.pairing.approve" /\ \E p \in Pairing : pairing_approve(caller, p)
  \/ m = "pairing.poll" /\ \E p \in Pairing : pairing_poll(caller, p)
  \/ m = "control.pairing.revoke" /\ \E p \in Pairing : pairing_revoke(p)
  \/ m = "control.chiaPeers.add" /\ \E raw \in Spelling : chia_peers_add(caller, raw)
  \/ m = "control.chiaPeers.remove" /\ \E raw \in Spelling, ban \in BOOLEAN :
       chia_peers_remove(caller, raw, ban)

\* A call the gate lets through; UNAUTHORIZED changes nothing.
Called(caller, m) ==
  /\ Authorized(caller, m)
  /\ Effect(caller, m)

Next ==
  \/ \E caller \in Caller, m \in ControlMethod : Called(caller, m)
  \/ \E raw \in Spelling : Discover(raw)

Spec == Init /\ [][Next]_vars

-----------------------------------------------------------------------------
(* Properties                                                              *)

TypeOK ==
  /\ DOMAIN requested \subseteq Pairing
  /\ \A p \in DOMAIN requested : requested[p] \in App
  /\ DOMAIN approved \subseteq DOMAIN requested
  /\ \A p \in DOMAIN approved : approved[p] \in Caller
  /\ delivered \subseteq DOMAIN approved
  /\ issued \subseteq DOMAIN approved
  /\ trusted \in SUBSET [peer : Spelling, by : Caller]
  /\ discovered \subseteq Spelling
  /\ banned \subseteq Spelling
  /\ told \in [Ip -> BOOLEAN]

\* Every token in existence was approved by the operator: no chain of open
\* calls, paired tokens and polls lets an app mint one.
TokensComeFromTheOperator == \A p \in DOMAIN approved : approved[p] = Operator

Revoked(app) == \A p \in DOMAIN requested : requested[p] = app => p \notin issued

\* Revoking an app's tokens is the whole remedy: from then on the gate lets it
\* through to the token-less methods only, and no peer it added is believed.
RevocationTakesAuthorityBack ==
  \A app \in App : Revoked(app) =>
    /\ \A m \in ControlMethod : Authorized(app, m) => ~requires_auth(m)
    /\ \A e \in trusted : e.by # app

\* Tokens are revoked, and peers stop being trusted, only by the operator: an
\* app strips neither its rivals' tokens nor the operator's trust.
OnlyOperatorTakesAway ==
  [][ \A app \in App : \A m \in ControlMethod : Called(app, m) =>
        issued \subseteq issued' /\ trusted \subseteq trusted' ]_vars

Believed(ip) == \E peer \in Trusted : peer.ip = ip
Banned(ip) == \E peer \in banned : peer.ip = ip

\* The operator always knows whom the node believes without corroboration: the
\* answers to add and remove, under whatever spelling, are the whole story
\* (canonical_peer_ip, ChiaPeersAddResult.corroboration_bypassed,
\* ChiaPeerRemovalOutcome).
OperatorIsTold == \A ip \in Ip : told[ip] = Believed(ip)

\* A banned peer is not believed, and no one step makes it so, whatever spelling
\* it was banned, added or removed under: it leaves the bans without trust, and
\* only a further add confers any.  For the add that meets a ban this is what the
\* reference node answers and its test demands (MockNode::chia_peers_add,
\* adding_a_banned_peer_reports_that_no_bypass_was_granted).  The docs of
\* ChiaPeersRemoveParams::ban and SPEC.md say instead that such an add confers
\* the bypass: that reading is corroboration_bypassed_requested, and it breaks
\* this property.
BansHold == [][ \A ip \in Ip : Banned(ip) => ~Believed(ip) /\ ~Believed(ip)' ]_vars
=============================================================================
