------------------------------- MODULE Catalog -------------------------------
(***************************************************************************)
(* The method catalog and the error taxonomy of the control plane          *)
(* (src/src/method.rs, src/src/error.rs).  A method is its wire name; the  *)
(* classification predicates are sets and conditions over wire names.      *)
(***************************************************************************)
EXTENDS Integers

\* ControlMethod::category and ControlMethod::name together.
category == [
  status |-> {"control.status"},
  config |-> {"control.config.get", "control.config.setUpstream",
              "control.config.setMirrorAdvertiseUrls"},
  log |-> {"control.log.setLevel"},
  cache |-> {"control.cache.get", "control.cache.setCap", "control.cache.clear"},
  hosted_stores |-> {"control.hostedStores.list", "control.hostedStores.pin",
                     "control.hostedStores.unpin", "control.hostedStores.status",
                     "control.capsule.fetch"},
  sync |-> {"control.sync.status", "control.sync.trigger"},
  updater |-> {"control.updater.status", "control.updater.setChannel",
               "control.updater.pause", "control.updater.resume",
               "control.updater.checkNow"},
  pairing |-> {"control.pairing.list", "control.pairing.approve",
               "control.pairing.revoke", "pairing.request", "pairing.poll"},
  peers |-> {"control.peerStatus", "control.peerCounts", "control.peers.connect",
             "control.peers.disconnect", "control.chiaPeers.add",
             "control.chiaPeers.list", "control.chiaPeers.remove"},
  subscriptions |-> {"control.subscribe", "control.unsubscribe",
                     "control.listSubscriptions"},
  wallet |-> {"control.wallet.balance", "control.wallet.coins",
              "control.wallet.coinById", "control.wallet.coinSpend",
              "control.wallet.coinsByParent", "control.wallet.arrivals",
              "control.wallet.operatorAddress", "control.wallet.peak",
              "control.wallet.syncStatus", "control.wallet.broadcast",
              "control.wallet.watch", "control.wallet.unwatch",
              "control.wallet.watched", "control.wallet.reservations.held",
              "control.wallet.reservations.reserve",
              "control.wallet.reservations.release", "control.wallet.resetCoinDb"},
  spends |-> {"control.spends.list"},
  collateral |-> {"control.collateral.requirement", "control.collateral.margin.get",
                  "control.collateral.margin.set", "control.collateral.buffer",
                  "control.mirror.bondStates", "control.mirror.reconcile"},
  profile |-> {"control.profile.putBody", "control.profile.getBody"}]

ControlMethod == UNION {category[area] : area \in DOMAIN category}

\* from_name: an unknown wire name resolves to nothing.
Resolves(wire_name) == wire_name \in ControlMethod

-----------------------------------------------------------------------------
(* Who may call what                                                       *)

is_open_read(m) ==
  m \in {"control.wallet.balance", "control.wallet.coins", "control.wallet.coinById",
         "control.wallet.coinSpend", "control.wallet.coinsByParent",
         "control.wallet.peak", "control.wallet.syncStatus", "control.peerCounts"}

\* Mutated form: the whole pairing family is taken for its open bootstrap.
requires_auth_pairing(m) == ~is_open_read(m) /\ m \notin category.pairing

requires_auth(m) == ~is_open_read(m) /\ m \notin {"pairing.request", "pairing.poll"}

\* Mutated form: minting a token is left to any valid token.
is_pairing_admin_lax(m) == m \in {"control.pairing.list", "control.pairing.revoke"}

is_pairing_admin(m) ==
  m \in {"control.pairing.list", "control.pairing.approve", "control.pairing.revoke"}

\* Mutated form: the master tier is the pairing lifecycle and nothing else.
requires_master_token_pairing(m) == is_pairing_admin(m)

requires_master_token(m) ==
  \/ is_pairing_admin(m)
  \/ m \in {"control.chiaPeers.add", "control.chiaPeers.remove"}

-----------------------------------------------------------------------------
(* Errors                                                                  *)

\* ControlErrorCode::code.
code == [
  PARSE_ERROR |-> -32700, INVALID_REQUEST |-> -32600, METHOD_NOT_FOUND |-> -32601,
  INVALID_PARAMS |-> -32602, DISPATCH_FAILED |-> -32000, UNAUTHORIZED |-> -32030,
  NOT_SUPPORTED |-> -32031, CONTROL_ERROR |-> -32032,
  WALLET_NO_CHAIN_SOURCE |-> -32040, WALLET_NOT_SYNCED |-> -32041,
  WALLET_READ_FAILED |-> -32042, WALLET_RATE_LIMITED |-> -32043,
  WALLET_NODE_SPEND_DISABLED |-> -32044, WALLET_COINS_RESERVED |-> -32046,
  WALLET_RESERVATIONS_UNAVAILABLE |-> -32047, SPEND_AUDIT_UNREADABLE |-> -32048]

ControlErrorCode == DOMAIN code

\* Resolved from the number; a number the catalog lacks resolves to nothing.
from_code(number) == {c \in ControlErrorCode : code[c] = number}
=============================================================================
