--------------------------- MODULE AuthorityProofs ---------------------------
(***************************************************************************)
(* Proofs about Authority, for any number of apps, addresses and pairings. *)
(*                                                                         *)
(* Everything rests on one fact: the master token is the operator's alone. *)
(* A token an app holds was delivered to it, so it is named after a        *)
(* pairing, and no pairing is named like the master token.  Hence every    *)
(* effect behind the master tier is the operator's (MasterCallsAreOperators),*)
(* and that is what the inductive invariant records of the persistent      *)
(* state.                                                                  *)
(*                                                                         *)
(* The book of peers is kept under canonical spellings, so that an address *)
(* names one entry; no entry is trusted and banned; and since no app       *)
(* reaches add and remove, the operator has heard of every change.         *)
(***************************************************************************)
EXTENDS Authority, TLAPS

\* What stands was put there by the operator: minted tokens and trusted peers.
OperatorsOnly ==
  /\ TokensComeFromTheOperator
  /\ \A e \in trusted : e.by = Operator

\* The book of peers, as the operator knows it.
BookIsKnown ==
  /\ \A p \in Tracked : p.form = "canonical"
  /\ Trusted \cap banned = {}
  /\ OperatorIsTold

IInv == TypeOK /\ OperatorsOnly /\ BookIsKnown

MasterOnly ==
  {"control.pairing.approve", "control.pairing.revoke",
   "control.chiaPeers.add", "control.chiaPeers.remove"}

-----------------------------------------------------------------------------
(* The gate                                                                *)

\* No app holds the master token: what it holds was delivered for a pairing.
LEMMA NoAppIsMaster ==
  ASSUME TypeOK, NEW caller \in Caller, Master \in Holds(caller)
  PROVE  caller = Operator
<1>1. CASE caller # Operator
  <2>1. Master \in delivered
    BY <1>1 DEF Holds
  <2>2. Master \in Pairing
    BY <2>1 DEF TypeOK
  <2> QED
    BY <2>2, ConstantsAssumption DEF Master, Pairing
<1> QED
  BY <1>1

\* The four methods that change what stands are the operator's.
LEMMA MasterCallsAreOperators ==
  ASSUME TypeOK, NEW caller \in Caller, NEW m \in MasterOnly, Authorized(caller, m)
  PROVE  caller = Operator
<1>1. requires_auth(m) /\ requires_master_token(m)
  BY DEF MasterOnly, requires_auth, requires_master_token, is_open_read, is_pairing_admin
<1>2. Master \in Holds(caller)
  BY <1>1 DEF Authorized
<1> QED
  BY <1>2, NoAppIsMaster

-----------------------------------------------------------------------------
(* The invariant                                                           *)

\* What pairing does leaves the book of peers alone.
LEMMA BookKeeps ==
  ASSUME IInv, UNCHANGED peers
  PROVE  /\ BookIsKnown'
         /\ \A e \in trusted' : e.by = Operator
         /\ trusted' \in SUBSET [peer : Spelling, by : Caller]
         /\ discovered' \subseteq Spelling
         /\ banned' \subseteq Spelling
         /\ told' \in [Ip -> BOOLEAN]
<1>1. UNCHANGED <<trusted, discovered, banned, told>>
  BY DEF peers
<1>2. BookIsKnown'
  BY <1>1 DEF IInv, BookIsKnown, OperatorIsTold, Believed, Tracked, Trusted
<1> QED
  BY <1>1, <1>2 DEF IInv, OperatorsOnly, TypeOK

LEMMA InitEstablishes == Init => IInv
BY DEF Init, IInv, TypeOK, OperatorsOnly, TokensComeFromTheOperator, BookIsKnown, OperatorIsTold,
   Believed, Tracked, Trusted

LEMMA RequestKeeps ==
  ASSUME IInv, NEW caller \in App, pairing_request(caller)
  PROVE  IInv'
<1> DEFINE p == Cardinality(DOMAIN requested) + 1
<1>1. p \in Pairing /\ requested' = Put(requested, p, caller)
  BY DEF pairing_request
<1>2. DOMAIN requested' = DOMAIN requested \cup {p}
  BY <1>1 DEF Put
<1>3. requested'[p] = caller /\ \A k \in DOMAIN requested \ {p} : requested'[k] = requested[k]
  BY <1>1 DEF Put
<1>4. UNCHANGED <<approved, delivered, issued>> /\ UNCHANGED peers
  BY DEF pairing_request
<1> HIDE DEF p
<1>5. TypeOK'
  <2>1. \A k \in DOMAIN requested' : k \in Pairing /\ requested'[k] \in App
    BY <1>1, <1>2, <1>3 DEF IInv, TypeOK
  <2>2. DOMAIN approved' \subseteq DOMAIN requested'
    BY <1>2, <1>4 DEF IInv, TypeOK
  <2> QED
    BY <1>4, <2>1, <2>2, BookKeeps DEF IInv, TypeOK
<1> QED
  BY <1>4, <1>5, BookKeeps DEF IInv, OperatorsOnly, TokensComeFromTheOperator

LEMMA ApproveKeeps ==
  ASSUME IInv, NEW p \in Pairing, pairing_approve(Operator, p)
  PROVE  IInv'
<1>1. p \in DOMAIN requested /\ approved' = Put(approved, p, Operator)
  BY DEF pairing_approve
<1>2. DOMAIN approved' = DOMAIN approved \cup {p}
  BY <1>1 DEF Put
<1>3. approved'[p] = Operator /\ \A k \in DOMAIN approved \ {p} : approved'[k] = approved[k]
  BY <1>1 DEF Put
<1>4. issued' = issued \cup {p} /\ UNCHANGED <<requested, delivered>> /\ UNCHANGED peers
  BY DEF pairing_approve
<1>5. TypeOK'
  <2>1. \A k \in DOMAIN approved' : k \in DOMAIN requested' /\ approved'[k] \in Caller
    BY <1>1, <1>2, <1>3, <1>4 DEF IInv, TypeOK, Caller
  <2>2. delivered' \subseteq DOMAIN approved' /\ issued' \subseteq DOMAIN approved'
    BY <1>2, <1>4 DEF IInv, TypeOK
  <2> QED
    BY <1>4, <2>1, <2>2, BookKeeps DEF IInv, TypeOK
<1> QED
  BY <1>2, <1>3, <1>4, <1>5, BookKeeps DEF IInv, OperatorsOnly, TokensComeFromTheOperator

LEMMA PollKeeps ==
  ASSUME IInv, NEW caller \in Caller, NEW p \in Pairing, pairing_poll(caller, p)
  PROVE  IInv'
<1>1. UNCHANGED peers
  BY DEF pairing_poll
<1>2. TypeOK'
  BY <1>1, BookKeeps DEF pairing_poll, IInv, TypeOK
<1> QED
  BY <1>1, <1>2, BookKeeps DEF pairing_poll, IInv, OperatorsOnly, TokensComeFromTheOperator

LEMMA RevokeKeeps ==
  ASSUME IInv, NEW p \in Pairing, pairing_revoke(p)
  PROVE  IInv'
<1>1. UNCHANGED peers
  BY DEF pairing_revoke
<1>2. TypeOK'
  BY <1>1, BookKeeps DEF pairing_revoke, IInv, TypeOK
<1> QED
  BY <1>1, <1>2, BookKeeps DEF pairing_revoke, IInv, OperatorsOnly, TokensComeFromTheOperator

-----------------------------------------------------------------------------
(* The book of peers                                                       *)

\* A peer is canonical, and two canonical peers with one address are one.
LEMMA CanonicalIsOne ==
  ASSUME NEW raw \in Spelling
  PROVE  /\ canonical_peer_ip(raw) \in Spelling
         /\ canonical_peer_ip(raw).ip = raw.ip
         /\ canonical_peer_ip(raw).form = "canonical"
         /\ \A p \in Spelling : p.form = "canonical" /\ p.ip = raw.ip => p = canonical_peer_ip(raw)
BY DEF Spelling, canonical_peer_ip

\* A step that changes the book, by what it does to the trusted peers.
LEMMA AddKeeps ==
  ASSUME IInv, NEW raw \in Spelling, chia_peers_add(Operator, raw)
  PROVE  IInv'
<1> DEFINE peer == canonical_peer_ip(raw)
<1>1. peer \in Spelling /\ peer.ip = raw.ip /\ peer.form = "canonical"
  BY CanonicalIsOne
<1>2. UNCHANGED <<requested, approved, delivered, issued>>
  BY DEF chia_peers_add, tokens
<1>3. told' = [told EXCEPT ![raw.ip] = peer \notin banned]
  BY DEF chia_peers_add, Tell, corroboration_bypassed
<1>4. raw.ip \in Ip /\ Operator \in Caller
  BY DEF Spelling, Caller
<1>5. CASE peer \notin banned
  <2>1. /\ trusted' = {e \in trusted : e.peer # peer} \cup {[peer |-> peer, by |-> Operator]}
        /\ discovered' = discovered \ {peer}
        /\ banned' = banned
    BY <1>5 DEF chia_peers_add, corroboration_bypassed
  <2>2. Trusted' = Trusted \cup {peer}
    <3> DEFINE kept == {e \in trusted : e.peer # peer}
               new == [peer |-> peer, by |-> Operator]
    <3>1. trusted' = kept \cup {new} /\ new.peer = peer
      BY <2>1
    <3>2. {e.peer : e \in kept} = Trusted \ {peer}
      BY DEF Trusted
    <3>3. Trusted' = {e.peer : e \in trusted'}
      BY DEF Trusted
    <3> HIDE DEF kept, new
    <3>4. {e.peer : e \in kept \cup {new}} = {e.peer : e \in kept} \cup {new.peer}
      OBVIOUS
    <3> QED
      BY <3>1, <3>2, <3>3, <3>4
  <2>3. TypeOK'
    BY <1>1, <1>2, <1>3, <1>4, <1>5, <2>1 DEF IInv, TypeOK
  <2>4. OperatorsOnly'
    BY <1>2, <2>1 DEF IInv, OperatorsOnly, TokensComeFromTheOperator
  <2>5. OperatorIsTold'
    BY <1>1, <1>3, <1>4, <1>5, <2>2 DEF IInv, BookIsKnown, OperatorIsTold, Believed, TypeOK
  <2>6. BookIsKnown'
    BY <1>1, <1>5, <2>1, <2>2, <2>5 DEF IInv, BookIsKnown, Tracked
  <2> QED
    BY <2>3, <2>4, <2>6 DEF IInv
<1>6. CASE peer \in banned
  <2>1. /\ trusted' = trusted
        /\ discovered' = discovered \cup {peer}
        /\ banned' = banned \ {peer}
    BY <1>6 DEF chia_peers_add, corroboration_bypassed
  <2>2. Trusted' = Trusted
    BY <2>1 DEF Trusted
  <2>3. TypeOK'
    BY <1>1, <1>2, <1>3, <1>4, <1>6, <2>1 DEF IInv, TypeOK
  <2>4. OperatorsOnly'
    BY <1>2, <2>1 DEF IInv, OperatorsOnly, TokensComeFromTheOperator
  <2>5. ~Believed(raw.ip)
    BY <1>6, CanonicalIsOne DEF IInv, TypeOK, BookIsKnown, Believed, Tracked, Trusted
  <2>6. OperatorIsTold'
    BY <1>3, <1>4, <1>6, <2>2, <2>5 DEF IInv, BookIsKnown, OperatorIsTold, Believed, TypeOK
  <2>7. BookIsKnown'
    BY <1>1, <1>6, <2>1, <2>2, <2>6 DEF IInv, BookIsKnown, Tracked
  <2> QED
    BY <2>3, <2>4, <2>7 DEF IInv
<1> QED
  BY <1>5, <1>6

LEMMA RemoveKeeps ==
  ASSUME IInv, NEW raw \in Spelling, NEW ban \in BOOLEAN, chia_peers_remove(Operator, raw, ban)
  PROVE  IInv'
<1> DEFINE peer == canonical_peer_ip(raw)
<1>1. peer \in Spelling /\ peer.ip = raw.ip /\ peer.form = "canonical"
  BY CanonicalIsOne
<1>2. UNCHANGED <<requested, approved, delivered, issued>>
  BY DEF chia_peers_remove, tokens
<1>3. told' = [told EXCEPT ![raw.ip] = FALSE]
  BY DEF chia_peers_remove, Tell
<1>4. raw.ip \in Ip
  BY DEF Spelling
<1>5. trusted' = {e \in trusted : e.peer # peer} /\ discovered' = discovered \ {peer}
  BY DEF chia_peers_remove
<1>6. Trusted' = Trusted \ {peer}
  BY <1>5 DEF Trusted
<1>7. banned' \subseteq banned \cup {peer}
  BY DEF chia_peers_remove
<1>8. TypeOK'
  BY <1>1, <1>2, <1>3, <1>4, <1>5, <1>7 DEF IInv, TypeOK
<1>9. OperatorsOnly'
  BY <1>2, <1>5 DEF IInv, OperatorsOnly, TokensComeFromTheOperator
<1>10. OperatorIsTold'
  <2>1. ~Believed(raw.ip)'
    BY <1>6, CanonicalIsOne DEF IInv, TypeOK, BookIsKnown, Believed, Tracked, Trusted
  <2> QED
    BY <1>1, <1>3, <1>4, <1>6, <2>1 DEF IInv, BookIsKnown, OperatorIsTold, Believed, TypeOK
<1>11. BookIsKnown'
  BY <1>1, <1>5, <1>6, <1>7, <1>10 DEF IInv, BookIsKnown, Tracked
<1> QED
  BY <1>8, <1>9, <1>11 DEF IInv

LEMMA DiscoverKeeps ==
  ASSUME IInv, NEW raw \in Spelling, Discover(raw)
  PROVE  IInv'
<1> DEFINE peer == canonical_peer_ip(raw)
<1>1. peer \in Spelling /\ peer.form = "canonical"
  BY CanonicalIsOne
<1>2. /\ discovered' = discovered \cup {peer}
      /\ UNCHANGED <<trusted, banned, told, requested, approved, delivered, issued>>
  BY DEF Discover, tokens
<1>3. TypeOK'
  BY <1>1, <1>2 DEF IInv, TypeOK
<1>4. BookIsKnown'
  BY <1>1, <1>2 DEF IInv, BookIsKnown, OperatorIsTold, Believed, Tracked, Trusted
<1> QED
  BY <1>2, <1>3, <1>4 DEF IInv, OperatorsOnly, TokensComeFromTheOperator

\* One case per method with an effect on what persists.
LEMMA StepKeeps == IInv /\ [Next]_vars => IInv'
<1> SUFFICES ASSUME IInv, [Next]_vars PROVE IInv'
  OBVIOUS
<1>1. CASE UNCHANGED vars
  BY <1>1 DEF vars, IInv, TypeOK, OperatorsOnly, TokensComeFromTheOperator, BookIsKnown,
     OperatorIsTold, Believed, Tracked, Trusted
<1>2. CASE \E raw \in Spelling : Discover(raw)
  BY <1>2, DiscoverKeeps
<1>3. CASE \E caller \in Caller, m \in ControlMethod : Called(caller, m)
  <2>1. PICK caller \in Caller, m \in ControlMethod : Authorized(caller, m) /\ Effect(caller, m)
    BY <1>3 DEF Called
  <2>2. m \in MasterOnly => caller = Operator
    BY <2>1, MasterCallsAreOperators DEF IInv
  <2>3. CASE m = "pairing.request" /\ caller # Operator /\ pairing_request(caller)
    BY <2>3, RequestKeeps DEF Caller
  <2>4. CASE m = "control.pairing.approve" /\ \E p \in Pairing : pairing_approve(caller, p)
    BY <2>2, <2>4, ApproveKeeps DEF MasterOnly
  <2>5. CASE m = "pairing.poll" /\ \E p \in Pairing : pairing_poll(caller, p)
    BY <2>5, PollKeeps
  <2>6. CASE m = "control.pairing.revoke" /\ \E p \in Pairing : pairing_revoke(p)
    BY <2>6, RevokeKeeps
  <2>7. CASE m = "control.chiaPeers.add" /\ \E raw \in Spelling : chia_peers_add(caller, raw)
    BY <2>2, <2>7, AddKeeps DEF MasterOnly
  <2>8. CASE m = "control.chiaPeers.remove" /\ \E raw \in Spelling, ban \in BOOLEAN :
       chia_peers_remove(caller, raw, ban)
    BY <2>2, <2>8, RemoveKeeps DEF MasterOnly
  <2> QED
    BY <2>1, <2>3, <2>4, <2>5, <2>6, <2>7, <2>8 DEF Effect
<1> QED
  BY <1>1, <1>2, <1>3 DEF Next

LEMMA Invariant == Spec => []IInv
BY InitEstablishes, StepKeeps, PTL DEF Spec

-----------------------------------------------------------------------------
(* The theorems                                                            *)

\* Pairings, tokens and trusted peers stay well typed: in particular no token
\* is delivered or valid that was not approved.
THEOREM TypeCorrect == Spec => []TypeOK
<1>1. IInv => TypeOK
  BY DEF IInv
<1> QED
  BY <1>1, Invariant, PTL

\* No caller without the master token gets a token minted, however many apps
\* ask, poll and hold tokens (is_pairing_admin, requires_master_token).
THEOREM OperatorMintsTokens == Spec => []TokensComeFromTheOperator
<1>1. IInv => TokensComeFromTheOperator
  BY DEF IInv, OperatorsOnly
<1> QED
  BY <1>1, Invariant, PTL

\* An app whose tokens are revoked is back at the token-less methods, and the
\* node believes no peer on its word (requires_auth, requires_master_token).
THEOREM RevocationIsComplete == Spec => []RevocationTakesAuthorityBack
<1>1. IInv => RevocationTakesAuthorityBack
  <2> SUFFICES ASSUME IInv, NEW app \in App, Revoked(app)
               PROVE  /\ \A m \in ControlMethod : Authorized(app, m) => ~requires_auth(m)
                      /\ \A e \in trusted : e.by # app
    BY DEF RevocationTakesAuthorityBack
  <2>1. app \in Caller /\ app # Operator
    BY ConstantsAssumption DEF Caller
  <2>2. Master \notin Holds(app)
    BY <2>1, NoAppIsMaster DEF IInv
  <2>3. Holds(app) \cap issued = {}
    <3>1. \A p \in Holds(app) : p \in DOMAIN requested /\ requested[p] = app
      BY <2>1 DEF Holds, IInv, TypeOK
    <3> QED
      BY <3>1 DEF Revoked
  <2>4. \A m \in ControlMethod : Authorized(app, m) => ~requires_auth(m)
    BY <2>2, <2>3 DEF Authorized
  <2>5. \A e \in trusted : e.by # app
    BY <2>1 DEF IInv, OperatorsOnly
  <2> QED
    BY <2>4, <2>5
<1> QED
  BY <1>1, Invariant, PTL

\* No call of an app takes a token or a trusted peer away: revoke and remove are
\* the operator's, and what an app may call only adds.
THEOREM OnlyTheOperatorRevokes == Spec => OnlyOperatorTakesAway
<1> DEFINE Keeps == issued \subseteq issued' /\ trusted \subseteq trusted'
<1> DEFINE Property == \A app \in App : \A m \in ControlMethod : Called(app, m) => Keeps
<1>1. IInv => Property
  <2> SUFFICES ASSUME IInv, NEW app \in App, NEW m \in ControlMethod, Called(app, m)
               PROVE  Keeps
    OBVIOUS
  <2>1. app \in Caller /\ app # Operator
    BY ConstantsAssumption DEF Caller
  <2>2. m \notin MasterOnly
    BY <2>1, MasterCallsAreOperators DEF IInv, Called
  <2>3. \/ pairing_request(app)
        \/ \E p \in Pairing : pairing_poll(app, p)
    BY <2>2 DEF Called, Effect, MasterOnly
  <2> QED
    BY <2>3 DEF pairing_request, pairing_poll, peers
<1> HIDE DEF Property
<1>2. IInv /\ [Next]_vars => [Property]_vars
  BY <1>1
<1>3. Spec => [][Property]_vars
  BY <1>2, Invariant, PTL DEF Spec
<1> QED
  BY <1>3 DEF OnlyOperatorTakesAway, Property, Keeps

\* The operator knows at any time whom the node believes without corroboration,
\* for any number of peers and of spellings tried (canonical_peer_ip).
THEOREM OperatorKnowsTheTrusted == Spec => []OperatorIsTold
<1>1. IInv => OperatorIsTold
  BY DEF IInv, BookIsKnown
<1> QED
  BY <1>1, Invariant, PTL

\* However many peers are banned, none of them is believed, and no step that lifts
\* a ban trusts the peer, an add included (MockNode::chia_peers_add).
THEOREM BansGrantNoTrust == Spec => BansHold
<1> DEFINE Property == \A ip \in Ip : Banned(ip) => ~Believed(ip) /\ ~Believed(ip)'
<1>1. IInv /\ [Next]_vars => [Property]_vars
  <2> SUFFICES ASSUME IInv, Next, NEW ip \in Ip, Banned(ip)
               PROVE  ~Believed(ip) /\ ~Believed(ip)'
    BY DEF Property
  <2>1. PICK b \in banned : b.ip = ip
    BY DEF Banned
  <2>2. b \in Spelling /\ b.form = "canonical" /\ b \notin Trusted
    BY <2>1 DEF IInv, TypeOK, BookIsKnown, Tracked
  <2>3. \A p \in Spelling : p.form = "canonical" /\ p.ip = ip => p = b
    BY <2>1, <2>2 DEF Spelling
  <2>4. Trusted \subseteq Spelling /\ \A p \in Trusted : p.form = "canonical"
    BY DEF IInv, TypeOK, BookIsKnown, Tracked, Trusted
  <2>5. ~Believed(ip)
    BY <2>2, <2>3, <2>4 DEF Believed
  <2>6. Trusted' \subseteq Trusted \/ \E raw \in Spelling :
          canonical_peer_ip(raw) \notin banned /\ Trusted' \subseteq Trusted \cup {canonical_peer_ip(raw)}
    <3>1. CASE \E raw \in Spelling : Discover(raw)
      BY <3>1 DEF Discover, Trusted
    <3>2. CASE \E caller \in Caller, m \in ControlMethod : Called(caller, m)
      <4>1. PICK caller \in Caller, m \in ControlMethod : Effect(caller, m)
        BY <3>2 DEF Called
      <4>2. CASE \E raw \in Spelling : chia_peers_add(caller, raw)
        BY <4>2 DEF chia_peers_add, corroboration_bypassed, Trusted
      <4>3. CASE \E raw \in Spelling, ban \in BOOLEAN : chia_peers_remove(caller, raw, ban)
        BY <4>3 DEF chia_peers_remove, Trusted
      <4>4. CASE UNCHANGED peers
        BY <4>4 DEF peers, Trusted
      <4> QED
        BY <4>1, <4>2, <4>3, <4>4
        DEF Effect, pairing_request, pairing_approve, pairing_poll, pairing_revoke
    <3> QED
      BY <3>1, <3>2 DEF Next
  <2>7. b \notin Trusted'
    BY <2>1, <2>2, <2>6
  <2>8. \A p \in Trusted' : p \in Spelling /\ p.form = "canonical"
    BY <2>4, <2>6, CanonicalIsOne
  <2> QED
    BY <2>3, <2>5, <2>7, <2>8 DEF Believed
<1> HIDE DEF Property
<1>2. Spec => [][Property]_vars
  BY <1>1, Invariant, PTL DEF Spec
<1> QED
  BY <1>2 DEF BansHold, Property
=============================================================================
