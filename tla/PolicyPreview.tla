--------------------------- MODULE PolicyPreview ---------------------------
(***************************************************************************)
(* The policy evaluation of crates/keymesh-core (policy/mod.rs), by which  *)
(* off-chain code foresees what the PolicyManager will decide, beside the  *)
(* contract of TransactionPolicy: same settings, same calls.               *)
(*                                                                         *)
(* classify takes the two restrictions as flags its caller resolves. Its   *)
(* first rule asks the selector flag, not the selector, so the caller has  *)
(* to raise it for the administration selectors on the manager as well, as *)
(* the comment on the flags demands. Values are u128 there and uint256 in  *)
(* the contract; the ones here fit both.                                   *)
(***************************************************************************)
EXTENDS TransactionPolicy

(* PolicyConfig::is_configured *)
IsConfigured(c) == c.version # 0

(* PolicyConfig::effective_request_quorum *)
EffectiveRequestQuorum(c) ==
    IF c.guardianApprovalsRequired = 0 THEN 1 ELSE c.guardianApprovalsRequired

(* is_authorization_version_valid *)
IsAuthorizationVersionValid(requested, current) == requested = current

HasSelector(call) == call.selector # "none"

(* Mutant: the threshold itself escalates. *)
ClassifyAtThreshold(c, toPolicyManager, selectorRestricted, destinationRestricted, call) ==
    IF \/ HasSelector(call) /\ selectorRestricted /\ toPolicyManager
       \/ /\ IsConfigured(c)
          /\ \/ HasSelector(call) /\ selectorRestricted
             \/ destinationRestricted
             \/ call.value >= c.valueThreshold
    THEN "DEVICE_PLUS_GUARDIANS"
    ELSE IF IsConfigured(c) THEN c.defaultMode ELSE "DEVICE_ONLY"

(* classify *)
Classify(c, toPolicyManager, selectorRestricted, destinationRestricted, call) ==
    IF \/ HasSelector(call) /\ selectorRestricted /\ toPolicyManager
       \/ /\ IsConfigured(c)
          /\ \/ HasSelector(call) /\ selectorRestricted
             \/ destinationRestricted
             \/ call.value > c.valueThreshold
    THEN "DEVICE_PLUS_GUARDIANS"
    ELSE IF IsConfigured(c) THEN c.defaultMode ELSE "DEVICE_ONLY"

(* What a caller that reads the wallet's settings now passes. *)
Preview(w, call) ==
    Classify(config[w],
             call.to = PolicyManager,
             call.selector \in restrictedSelectors[w] \/ IsAdminCall(call),
             call.to \in restrictedDestinations[w],
             call)

----------------------------------------------------------------------------
(* Properties *)

(* What off-chain code foresees from the settings it has read stays what   *)
(* the contract decides as long as the policy version is the one it read:  *)
(* whether a call needs the guardians, and how many of them a request      *)
(* opened for it will ask. No setting changes without the version.         *)
PreviewHolds ==
    [][\A w \in Wallets :
          IsAuthorizationVersionValid(config[w].version, config'[w].version) =>
              /\ \A t \in Transactions :
                    Preview(w, t.call) = "DEVICE_PLUS_GUARDIANS"
                    <=> RequiresGuardians(w, t.call)'
              /\ \A t \in Opened' \ Opened :
                    authorization'[t].wallet = w =>
                        authorization'[t].approvalsRequired = EffectiveRequestQuorum(config[w])
      ]_allVars
=============================================================================
