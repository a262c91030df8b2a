--------------------------- MODULE GovernanceProofs ---------------------------
(***************************************************************************)
(* Theorems about roles, handovers and upgrades, for any accounts,         *)
(* contracts, code and timelocks.                                          *)
(***************************************************************************)
EXTENDS Governance, TLAPS

LEMMA GovInitInv == GovInit => GovInv
BY GovernanceAssumption
   DEF GovInit, GovInv, GovTypeOK, OneAdmin, OfferRecorded, ProposalRecorded, Roles

(* Roles and the handover preserve the invariant: no step of theirs touches the
   upgrades.                                                                 *)
LEMMA RoleStepsInv ==
    ASSUME GovInv, NEW caller \in Accounts, NEW role \in Roles,
           NEW account \in Accounts,
           \/ GrantRole(caller, role, account)
           \/ RevokeRole(caller, role, account)
           \/ ProposeAdmin(caller, account)
           \/ AcceptAdmin(caller)
           \/ CancelAdminProposal(caller)
    PROVE  GovInv'
<1> USE DEF GovInv, handover, upgrades
<1>1. CASE GrantRole(caller, role, account) \/ RevokeRole(caller, role, account)
  BY <1>1 DEF GrantRole, RevokeRole, GovTypeOK, OneAdmin, OfferRecorded,
              ProposalRecorded, Roles
<1>2. CASE ProposeAdmin(caller, account)
  BY <1>2 DEF ProposeAdmin, GovTypeOK, OneAdmin, OfferRecorded, ProposalRecorded
<1>3. CASE AcceptAdmin(caller)
  <2>1. members'["ADMIN"] = {caller} /\ admin' = caller
    BY <1>3 DEF AcceptAdmin, GovTypeOK, OneAdmin, Roles
  <2>2. OneAdmin'
    BY <2>1 DEF OneAdmin
  <2>3. GovTypeOK' /\ OfferRecorded' /\ ProposalRecorded'
    BY <1>3 DEF AcceptAdmin, GovTypeOK, OfferRecorded, ProposalRecorded
  <2> QED
    BY <2>2, <2>3
<1>4. CASE CancelAdminProposal(caller)
  BY <1>4 DEF CancelAdminProposal, GovTypeOK, OneAdmin, OfferRecorded,
              ProposalRecorded
<1> QED
  BY <1>1, <1>2, <1>3, <1>4

(* Upgrades preserve the invariant: none touches roles or offers, and what stands
   after a step stood before or was filed by it.                             *)
LEMMA UpgradeStepsInv ==
    ASSUME GovInv, NEW caller \in Accounts, NEW c \in Contracts, NEW hash \in Hashes,
           \/ ProposeUpgrade(caller, c, hash)
           \/ ExecuteUpgrade(caller, c, hash)
           \/ UpgradeAtOnce(caller, c, hash)
           \/ CancelUpgrade(caller, c)
           \/ Migrate(caller, c)
    PROVE  GovInv'
<1> USE DEF GovInv, handover, upgrades
<1>1. OneAdmin' /\ OfferRecorded'
  BY DEF OneAdmin, OfferRecorded, ProposeUpgrade, ExecuteUpgrade, UpgradeAtOnce,
         CancelUpgrade, Migrate
<1>2. CASE ProposeUpgrade(caller, c, hash)
  <2> DEFINE p == [wasm_hash |-> hash, eta |-> now + timelock]
             f == [wasm_hash |-> hash, at |-> now, timelock |-> timelock]
  <2>1. /\ pending' = [pending EXCEPT ![c] = {p}]
        /\ filed' = [filed EXCEPT ![c] = {f}]
        /\ UNCHANGED <<now, admin, members, pending_admin, timelock, wasm, migrating,
                       offered>>
    BY <1>2 DEF ProposeUpgrade, Proposal
  <2>2. /\ p \in [wasm_hash : Hashes, eta : Nat]
        /\ f \in [wasm_hash : Hashes, at : Nat, timelock : Nat]
    BY DEF GovTypeOK
  <2>3. GovTypeOK'
    BY <2>1, <2>2 DEF GovTypeOK
  <2>4. /\ p.wasm_hash = f.wasm_hash /\ p.eta = f.at + f.timelock
        /\ f.timelock >= MIN_UPGRADE_TIMELOCK
    BY DEF GovTypeOK
  <2>5. /\ pending'[c] = {p} /\ filed'[c] = {f}
        /\ \A d \in Contracts \ {c} : pending'[d] = pending[d] /\ filed'[d] = filed[d]
    BY <2>1 DEF GovTypeOK
  <2>6. ProposalRecorded'
    BY <2>4, <2>5, GovernanceAssumption DEF ProposalRecorded
  <2> QED
    BY <1>1, <2>3, <2>6
<1>3. CASE ExecuteUpgrade(caller, c, hash) \/ CancelUpgrade(caller, c)
  <2>1. GovTypeOK'
    BY <1>3 DEF ExecuteUpgrade, CancelUpgrade, GovTypeOK
  <2>2. /\ pending'[c] = {}
        /\ \A d \in Contracts \ {c} : pending'[d] = pending[d] /\ filed'[d] = filed[d]
    BY <1>3 DEF ExecuteUpgrade, CancelUpgrade, GovTypeOK
  <2>3. ProposalRecorded'
    BY <2>2, GovernanceAssumption DEF ProposalRecorded
  <2> QED
    BY <1>1, <2>1, <2>3
<1>4. CASE UpgradeAtOnce(caller, c, hash) \/ Migrate(caller, c)
  BY <1>1, <1>4 DEF UpgradeAtOnce, Migrate, GovTypeOK, ProposalRecorded
<1> QED
  BY <1>2, <1>3, <1>4

LEMMA GovStepInv == GovInv /\ [GovNext]_govVars => GovInv'
<1> SUFFICES ASSUME GovInv, [GovNext]_govVars
             PROVE  GovInv'
  OBVIOUS
<1>1. CASE Tick
  BY <1>1 DEF Tick, handover, upgrades, GovInv, GovTypeOK, OneAdmin, OfferRecorded,
              ProposalRecorded
<1>2. ASSUME NEW caller \in Accounts, NEW seconds \in Timelocks,
             SetUpgradeTimelock(caller, seconds)
      PROVE  GovInv'
  BY <1>2, GovernanceAssumption
     DEF SetUpgradeTimelock, handover, upgrades, GovInv, GovTypeOK, OneAdmin,
         OfferRecorded, ProposalRecorded
<1>3. ASSUME NEW caller \in Accounts, NEW account \in Accounts,
             \/ \E role \in Roles : \/ GrantRole(caller, role, account)
                                    \/ RevokeRole(caller, role, account)
             \/ ProposeAdmin(caller, account)
             \/ AcceptAdmin(caller)
             \/ CancelAdminProposal(caller)
      PROVE  GovInv'
  <2>1. "ADMIN" \in Roles
    BY DEF Roles
  <2> QED
    BY <1>3, <2>1, RoleStepsInv
<1>4. ASSUME NEW caller \in Accounts, NEW c \in Contracts,
             \/ \E hash \in Hashes : \/ ProposeUpgrade(caller, c, hash)
                                     \/ ExecuteUpgrade(caller, c, hash)
                                     \/ UpgradeAtOnce(caller, c, hash)
             \/ CancelUpgrade(caller, c)
             \/ Migrate(caller, c)
      PROVE  GovInv'
  <2>1. wasm[c] \in Hashes
    BY DEF GovInv, GovTypeOK
  <2> QED
    BY <1>4, <2>1, UpgradeStepsInv
<1>5. CASE UNCHANGED govVars
  BY <1>5 DEF govVars, handover, upgrades, GovInv, GovTypeOK, OneAdmin,
              OfferRecorded, ProposalRecorded
<1> QED
  BY <1>1, <1>2, <1>3, <1>4, <1>5 DEF GovNext

(* The invariant holds throughout. *)
THEOREM GovAlwaysInv == GovSpec => []GovInv
BY GovInitInv, GovStepInv, PTL DEF GovSpec

(* Values keep their types and the timelock never falls under its floor. *)
THEOREM GovTyped == GovSpec => []GovTypeOK
<1>1. GovInv => GovTypeOK
  BY DEF GovInv
<1> QED
  BY <1>1, GovAlwaysInv, PTL

(* Pointer and role always name the same single admin. *)
THEOREM AlwaysOneAdmin == GovSpec => []OneAdmin
<1>1. GovInv => OneAdmin
  BY DEF GovInv
<1> QED
  BY <1>1, GovAlwaysInv, PTL

(* The admin changes only by an offer of the admin in office that stands. *)
THEOREM HandoverAlwaysByConsent == GovSpec => HandoverByConsent
<1>1. GovInv /\ [GovNext]_govVars
        => [admin' # admin => <<admin, admin'>> \in offered]_govVars
  <2> SUFFICES ASSUME GovInv, GovNext, admin' # admin
               PROVE  <<admin, admin'>> \in offered
    OBVIOUS
  <2>1. PICK account \in Accounts : AcceptAdmin(account)
    BY DEF GovNext, Tick, GrantRole, RevokeRole, ProposeAdmin, CancelAdminProposal,
           SetUpgradeTimelock, ProposeUpgrade, ExecuteUpgrade, CancelUpgrade,
           UpgradeAtOnce, Migrate, handover
  <2> QED
    BY <2>1 DEF AcceptAdmin, GovInv, OfferRecorded
<1> QED
  BY <1>1, GovAlwaysInv, PTL DEF GovSpec, HandoverByConsent

(* No timelocked contract runs code that was not proposed a timelock ago and left
   alone since.                                                              *)
THEOREM TimelockAlwaysHonoured == GovSpec => TimelockHonoured
<1>1. GovInv /\ [GovNext]_govVars
        => [\A c \in Timelocked :
               wasm'[c] # wasm[c] =>
                  \E f \in filed[c] : /\ f.wasm_hash = wasm'[c]
                                      /\ now >= f.at + f.timelock
                                      /\ f.timelock >= MIN_UPGRADE_TIMELOCK]_govVars
  <2> SUFFICES ASSUME GovInv, GovNext, NEW c \in Timelocked, wasm'[c] # wasm[c]
               PROVE  \E f \in filed[c] : /\ f.wasm_hash = wasm'[c]
                                          /\ now >= f.at + f.timelock
                                          /\ f.timelock >= MIN_UPGRADE_TIMELOCK
    OBVIOUS
  <2>1. c \in Contracts /\ wasm \in [Contracts -> Hashes]
    BY GovernanceAssumption DEF GovInv, GovTypeOK
  <2>2. PICK caller \in Accounts, d \in Contracts, hash \in Hashes :
           ExecuteUpgrade(caller, d, hash) \/ UpgradeAtOnce(caller, d, hash)
    BY <2>1 DEF GovNext, Tick, GrantRole, RevokeRole, ProposeAdmin, AcceptAdmin,
           CancelAdminProposal, SetUpgradeTimelock, ProposeUpgrade, CancelUpgrade,
           Migrate, upgrades
  <2>3. ExecuteUpgrade(caller, c, hash) /\ wasm'[c] = hash
    BY <2>1, <2>2 DEF ExecuteUpgrade, UpgradeAtOnce
  <2>4. PICK p \in pending[c] : now >= p.eta /\ p.wasm_hash = hash
    BY <2>3 DEF ExecuteUpgrade
  <2>5. PICK f \in filed[c] : /\ f.wasm_hash = p.wasm_hash
                              /\ p.eta = f.at + f.timelock
                              /\ f.timelock >= MIN_UPGRADE_TIMELOCK
    BY <2>4 DEF GovInv, ProposalRecorded
  <2> QED
    BY <2>3, <2>4, <2>5
<1> QED
  BY <1>1, GovAlwaysInv, PTL DEF GovSpec, TimelockHonoured
==============================================================================
