------------------------------ MODULE Governance ------------------------------
(***************************************************************************)
(* Who may do what, and when code may change: the roles and the admin      *)
(* handover of the config manager (contracts/config-manager) and the       *)
(* upgrades of every contract (contracts/interfaces/src/upgrade.rs, whose  *)
(* hooks are the same in all four timelocked contracts).                   *)
(*                                                                         *)
(* The admin is recorded twice: the config manager's setters compare the   *)
(* caller with the stored pointer `admin`, every other contract asks       *)
(* has_role("ADMIN").  A handover takes two calls by two accounts, an      *)
(* upgrade two calls a timelock apart; roles, timelock and proposals       *)
(* change in between.                                                      *)
(***************************************************************************)
EXTENDS Integers

CONSTANTS
    Accounts,
    Contracts,              \* every contract of the protocol
    Timelocked,             \* those that implement TimelockedUpgradeable
    Hashes,                 \* code that may be installed
    Timelocks,              \* what the admin may try to set
    MIN_UPGRADE_TIMELOCK,
    DEFAULT_UPGRADE_TIMELOCK,
    MaxTime                 \* bound of the clock

ASSUME GovernanceAssumption ==
    /\ Timelocked \subseteq Contracts
    /\ Timelocks \subseteq Nat
    /\ MIN_UPGRADE_TIMELOCK \in Nat
    /\ DEFAULT_UPGRADE_TIMELOCK \in Nat
    /\ DEFAULT_UPGRADE_TIMELOCK >= MIN_UPGRADE_TIMELOCK
    /\ MaxTime \in Nat

VARIABLES
    now,            \* ledger timestamp
    admin,          \* AccessControlStorageKey::Admin
    members,        \* who holds each role
    pending_admin,  \* PendingAdmin: a set, empty or a singleton
    timelock,       \* UpgradeTimelock
    pending,        \* pending_upgrade of each contract: a set as well
    wasm,           \* the installed code of each contract
    migrating,      \* the flag enable_migration arms
    offered,        \* history: <<proposer, account>> of the standing offer
    filed           \* history: the standing proposal of each contract, with
                    \* when and under which timelock it was made

handover == <<admin, pending_admin, offered>>
upgrades == <<pending, wasm, migrating, filed>>
govVars == <<now, members, timelock, handover, upgrades>>

(* KEEPER and ORACLE are granted like PAUSER and play no part here.            *)
Roles == {"ADMIN", "UPGRADER", "PAUSER"}

GovInit ==
    /\ now = 0
    /\ admin \in Accounts
    /\ members = [r \in Roles |-> IF r = "ADMIN" THEN {admin} ELSE {}]
    /\ pending_admin = {}
    /\ timelock = DEFAULT_UPGRADE_TIMELOCK
    /\ pending = [c \in Contracts |-> {}]
    /\ wasm \in [Contracts -> Hashes]
    /\ migrating = [c \in Contracts |-> FALSE]
    /\ offered = {}
    /\ filed = [c \in Contracts |-> {}]

Tick ==
    /\ now < MaxTime
    /\ now' = now + 1
    /\ UNCHANGED <<members, timelock, handover, upgrades>>

-----------------------------------------------------------------------------
(* Roles and the handover.  `caller` has signed.                             *)

(* Treats ADMIN like any other role.                                         *)
Unreserved_GrantRole(caller, role, account) ==
    /\ caller = admin
    /\ members' = [members EXCEPT ![role] = @ \cup {account}]
    /\ UNCHANGED <<now, timelock, handover, upgrades>>

GrantRole(caller, role, account) ==
    /\ caller = admin
    /\ role # "ADMIN"
    /\ members' = [members EXCEPT ![role] = @ \cup {account}]
    /\ UNCHANGED <<now, timelock, handover, upgrades>>

RevokeRole(caller, role, account) ==
    /\ caller = admin
    /\ role # "ADMIN"
    /\ members' = [members EXCEPT ![role] = @ \ {account}]
    /\ UNCHANGED <<now, timelock, handover, upgrades>>

ProposeAdmin(caller, account) ==
    /\ caller = admin
    /\ caller # account
    /\ pending_admin' = {account}
    /\ offered' = {<<caller, account>>}
    /\ UNCHANGED <<now, admin, members, timelock, upgrades>>

(* The new admin takes over: pointer and role move together.                 *)
AcceptAdmin(account) ==
    /\ account \in pending_admin
    /\ admin \in members["ADMIN"]
    /\ members' = [members EXCEPT !["ADMIN"] = (@ \ {admin}) \cup {account}]
    /\ admin' = account
    /\ pending_admin' = {}
    /\ offered' = {}
    /\ UNCHANGED <<now, timelock, upgrades>>

(* Says that it cancels, and leaves the offer where it is.                   *)
Idle_CancelAdminProposal(caller) ==
    /\ caller = admin
    /\ offered' = {}
    /\ UNCHANGED <<now, admin, members, pending_admin, timelock, upgrades>>

CancelAdminProposal(caller) ==
    /\ caller = admin
    /\ pending_admin' = {}
    /\ offered' = {}
    /\ UNCHANGED <<now, admin, members, timelock, upgrades>>

SetUpgradeTimelock(caller, seconds) ==
    /\ caller = admin
    /\ seconds >= MIN_UPGRADE_TIMELOCK
    /\ timelock' = seconds
    /\ UNCHANGED <<now, members, handover, upgrades>>

-----------------------------------------------------------------------------
(* Upgrades                                                                  *)

(* Keeps the date of the proposal it replaces.                               *)
Antedated_Proposal(c, hash) ==
    [wasm_hash |-> hash,
     eta       |-> IF pending[c] = {} THEN now + timelock
                   ELSE (CHOOSE p \in pending[c] : TRUE).eta]

Proposal(c, hash) == [wasm_hash |-> hash, eta |-> now + timelock]

(* A proposal replaces the one that stands.                                  *)
ProposeUpgrade(caller, c, hash) ==
    /\ c \in Timelocked
    /\ caller \in members["UPGRADER"]
    /\ pending' = [pending EXCEPT ![c] = {Proposal(c, hash)}]
    /\ filed' = [filed EXCEPT ![c] = {[wasm_hash |-> hash, at |-> now,
                                       timelock |-> timelock]}]
    /\ UNCHANGED <<now, members, timelock, handover, wasm, migrating>>

ExecuteUpgrade(caller, c, hash) ==
    /\ c \in Timelocked
    /\ caller \in members["UPGRADER"]
    /\ \E p \in pending[c] : now >= p.eta /\ p.wasm_hash = hash
    /\ pending' = [pending EXCEPT ![c] = {}]
    /\ migrating' = [migrating EXCEPT ![c] = TRUE]
    /\ wasm' = [wasm EXCEPT ![c] = hash]
    /\ filed' = [filed EXCEPT ![c] = {}]
    /\ UNCHANGED <<now, members, timelock, handover>>

(* The veto.  Accepted whether or not something is pending.                  *)
CancelUpgrade(caller, c) ==
    /\ c \in Timelocked
    /\ caller \in members["PAUSER"]
    /\ pending' = [pending EXCEPT ![c] = {}]
    /\ filed' = [filed EXCEPT ![c] = {}]
    /\ UNCHANGED <<now, members, timelock, handover, wasm, migrating>>

(* OpenZeppelin's upgrade, which the Oracle contract derives unchanged.      *)
UpgradeAtOnce(caller, c, hash) ==
    /\ c \in Contracts \ Timelocked
    /\ caller \in members["UPGRADER"]
    /\ migrating' = [migrating EXCEPT ![c] = TRUE]
    /\ wasm' = [wasm EXCEPT ![c] = hash]
    /\ UNCHANGED <<now, members, timelock, handover, pending, filed>>

Migrate(caller, c) ==
    /\ caller \in members["UPGRADER"]
    /\ migrating[c]
    /\ migrating' = [migrating EXCEPT ![c] = FALSE]
    /\ UNCHANGED <<now, members, timelock, handover, pending, wasm, filed>>

GovNext ==
    \/ Tick
    \/ \E caller \in Accounts :
         \/ \E role \in Roles, account \in Accounts :
              \/ GrantRole(caller, role, account)
              \/ RevokeRole(caller, role, account)
         \/ \E account \in Accounts : ProposeAdmin(caller, account)
         \/ AcceptAdmin(caller)
         \/ CancelAdminProposal(caller)
         \/ \E seconds \in Timelocks : SetUpgradeTimelock(caller, seconds)
         \/ \E c \in Contracts, hash \in Hashes :
              \/ ProposeUpgrade(caller, c, hash)
              \/ ExecuteUpgrade(caller, c, hash)
              \/ UpgradeAtOnce(caller, c, hash)
         \/ \E c \in Contracts : CancelUpgrade(caller, c) \/ Migrate(caller, c)

GovSpec == GovInit /\ [][GovNext]_govVars

-----------------------------------------------------------------------------
(* Type invariant; the timelock never falls under its floor.                 *)
GovTypeOK ==
    /\ now \in Nat
    /\ admin \in Accounts
    /\ members \in [Roles -> SUBSET Accounts]
    /\ pending_admin \subseteq Accounts
    /\ timelock \in Nat /\ timelock >= MIN_UPGRADE_TIMELOCK
    /\ pending \in [Contracts -> SUBSET [wasm_hash : Hashes, eta : Nat]]
    /\ wasm \in [Contracts -> Hashes]
    /\ migrating \in [Contracts -> BOOLEAN]
    /\ offered \subseteq Accounts \X Accounts
    /\ filed \in [Contracts -> SUBSET [wasm_hash : Hashes, at : Nat, timelock : Nat]]

(* The two records of the admin agree: the account the config manager obeys is
   the only one the other contracts take for the admin, at any point of any
   sequence of grants, revocations and handovers (contract.rs, accept_admin;
   its invariant comment).  In particular no accepted offer ever fails on the
   check of that comment.                                                    *)
OneAdmin == members["ADMIN"] = {admin}

(* The admin only changes to an account to which the admin in office, not one
   of its predecessors, has made an offer that it has neither withdrawn nor
   replaced (contract.rs, propose_admin .. cancel_admin_proposal).           *)
HandoverByConsent ==
    [][admin' # admin => <<admin, admin'>> \in offered]_govVars

(* New code of a contract was proposed under exactly its hash a full timelock
   ago, as it was when proposed and not less than the floor, and since then
   neither vetoed, nor replaced by another proposal, nor used: whatever is
   proposed, cancelled or reconfigured meanwhile (upgrade.rs).               *)
TimelockHonoured ==
    [][\A c \in Timelocked :
          wasm'[c] # wasm[c] =>
             \E f \in filed[c] : /\ f.wasm_hash = wasm'[c]
                                 /\ now >= f.at + f.timelock
                                 /\ f.timelock >= MIN_UPGRADE_TIMELOCK]_govVars

-----------------------------------------------------------------------------
(* The inductive invariant: an offer stands iff it is recorded, and was made by
   the admin in office; so for proposals, dated as they were filed.          *)
OfferRecorded ==
    \A account \in pending_admin : <<admin, account>> \in offered

ProposalRecorded ==
    \A c \in Timelocked : \A p \in pending[c] :
        \E f \in filed[c] : /\ f.wasm_hash = p.wasm_hash
                            /\ p.eta = f.at + f.timelock
                            /\ f.timelock >= MIN_UPGRADE_TIMELOCK

GovInv == GovTypeOK /\ OneAdmin /\ OfferRecorded /\ ProposalRecorded
==============================================================================
