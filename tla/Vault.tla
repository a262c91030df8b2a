-------------------------------- MODULE Vault --------------------------------
(***************************************************************************)
(* The liquidity vault (contracts/vault/src).  It holds the LPs' USDC,     *)
(* issues shares for it, keeps liquidity reserved against open positions   *)
(* and unclaimed fees apart from what LPs may take out, and locks a        *)
(* depositor's shares for a cooldown.                                      *)
(*                                                                         *)
(* A Soroban transaction is atomic: a panic undoes all of it.  So every    *)
(* entrypoint is one action, whose guard is the conjunction of the         *)
(* entrypoint's checks, and a rejected call is a step that is not taken.   *)
(*                                                                         *)
(* The first part of the module is the ledger of the vault as operators on *)
(* a ledger record: what the position manager calls inside its own         *)
(* transactions (module PositionManager composes them).  The second part   *)
(* is the vault as a state machine of its own, in which the position       *)
(* manager may make any call at any time, so that what is shown about the  *)
(* vault depends on nothing the position manager does.                     *)
(***************************************************************************)
EXTENDS PerpMath, FiniteSets

CONSTANTS LPs,            \* accounts that hold shares
          Admins,         \* holders of the ADMIN role
          Pausers,        \* holders of the PAUSER role
          Amounts,        \* USDC amounts LPs and donors move
          ShareAmounts,   \* share amounts minted, redeemed and transferred
          Cooldowns,      \* values cooldown_duration takes
          VirtualShares,  \* 10 ^ decimals_offset of the OZ vault, 1_000_000
          PMAmounts,      \* amounts in the position manager's calls
          NetPnls,        \* values it pushes with update_net_pnl
          MaxTime,        \* bound: last ledger timestamp
          MaxAssets,      \* bound: USDC held by the vault
          MaxShares       \* bound: shares in circulation

ASSUME VaultAssumption ==
    /\ Amounts \subseteq Nat
    /\ ShareAmounts \subseteq Nat
    /\ Cooldowns \subseteq Nat
    /\ VirtualShares \in Nat \ {0}
    /\ PMAmounts \subseteq Nat
    /\ NetPnls \subseteq Int
    /\ MaxTime \in Nat
    /\ MaxAssets \in Nat
    /\ MaxShares \in Nat

-----------------------------------------------------------------------------
(* The ledger *)

Ledger == [balance: Nat,          \* the vault's own USDC, OZ total_assets
           reserved_usdc: Nat,
           unclaimed_fees: Nat,
           net_pnl: Int,          \* net_global_trader_pnl
           is_paused: BOOLEAN]

EmptyLedger == [balance |-> 0, reserved_usdc |-> 0, unclaimed_fees |-> 0,
                net_pnl |-> 0, is_paused |-> FALSE]

(* Faulty variant: forgets the fees. *)
FeesIgnored_free_liquidity(v) ==
    AtLeastZero(v.balance - v.reserved_usdc - AtLeastZero(v.net_pnl))

free_liquidity(v) ==
    AtLeastZero(v.balance - v.reserved_usdc - v.unclaimed_fees
                - AtLeastZero(v.net_pnl))

total_assets_excl_pnl(v) == AtLeastZero(v.balance - v.unclaimed_fees)

(* Calls of the position manager.  Each has the condition under which the
   call does not panic and the ledger it leaves.                            *)
CanPayProfit(v, amount) == amount > 0 /\ amount <= free_liquidity(v)
pay_profit(v, amount)   == [v EXCEPT !.balance = @ - amount]

CanReserve(v, amount) == amount > 0 /\ v.reserved_usdc + amount <= v.balance
reserve_liquidity(v, amount) == [v EXCEPT !.reserved_usdc = @ + amount]

(* Faulty variants: a bound that is off by one, a release never booked.      *)
OffByOne_CanRelease(v, amount) == amount > 0 /\ amount < v.reserved_usdc
Forgotten_release_liquidity(v, amount) == v

CanRelease(v, amount) == amount > 0 /\ amount <= v.reserved_usdc
release_liquidity(v, amount) == [v EXCEPT !.reserved_usdc = @ - amount]

update_net_pnl(v, pnl) == [v EXCEPT !.net_pnl = pnl]

(* USDC arrives by a plain token transfer; record_absorbed_collateral then
   only verifies that the balance grew by `amount` in this transaction.     *)
receive(v, amount) == [v EXCEPT !.balance = @ + amount]

(* Faulty variant: accrues against reserved liquidity. *)
Greedy_CanAccrue(v, amount) == amount > 0 /\ v.unclaimed_fees + amount <= v.balance

CanAccrue(v, amount) ==
    amount > 0 /\ v.unclaimed_fees + amount + v.reserved_usdc <= v.balance
accrue_fees(v, amount) == [v EXCEPT !.unclaimed_fees = @ + amount]

CanClaimTo(v, amount) ==
    /\ amount > 0
    /\ amount <= v.unclaimed_fees
    /\ amount <= v.balance          \* the token refuses to overdraw
claim_fees_to(v, amount) ==
    [v EXCEPT !.balance = @ - amount, !.unclaimed_fees = @ - amount]

-----------------------------------------------------------------------------
(* The state machine *)

VARIABLES
    vault,       \* the ledger
    shares,      \* share balance of each LP
    supply,      \* total shares
    expiry,      \* LockupExpiresAt; 0 when the account has none
    cooldown,    \* ConfigManager's cooldown_duration in force
    now,         \* ledger timestamp
    startedAt    \* history: when the youngest cooldown touching the account's
                 \* shares began; 0 when none did

lpVars == <<shares, supply, expiry, startedAt>>
clockVars == <<cooldown, now>>
vaultVars == <<vault, shares, supply, expiry, cooldown, now, startedAt>>

(* The OZ vault's conversions, with virtual shares and one virtual asset. *)
SharesFor(assets)   == (assets * (supply + VirtualShares)) \div (vault.balance + 1)
SharesForUp(assets) == (assets * (supply + VirtualShares) + vault.balance)
                           \div (vault.balance + 1)
AssetsFor(amount)   == (amount * (vault.balance + 1)) \div (supply + VirtualShares)
AssetsForUp(amount) == (amount * (vault.balance + 1) + supply + VirtualShares - 1)
                           \div (supply + VirtualShares)

LockupElapsed(u) == now >= expiry[u]

(* Faulty variant: not clamped to free liquidity. *)
Unclamped_max_withdraw(u) ==
    IF vault.is_paused THEN 0 ELSE AssetsFor(shares[u])

max_withdraw(u) ==
    IF vault.is_paused THEN 0
    ELSE Least(AssetsFor(shares[u]), free_liquidity(vault))

max_redeem(u) ==
    IF vault.is_paused THEN 0 ELSE SharesFor(max_withdraw(u))

Credit(f, u, amount) == [f EXCEPT ![u] = @ + amount]

Debit(f, u, amount) == [f EXCEPT ![u] = @ - amount]

(* `u` pays `assets` for `amount` new shares and starts a new lockup, whatever
   lockup it had.                                                            *)
TakeIn(u, assets, amount) ==
    /\ vault.balance + assets <= MaxAssets
    /\ supply + amount <= MaxShares
    /\ vault' = receive(vault, assets)
    /\ shares' = Credit(shares, u, amount)
    /\ supply' = supply + amount
    /\ expiry' = [expiry EXCEPT ![u] = now + cooldown]
    /\ startedAt' = [startedAt EXCEPT ![u] = now]
    /\ UNCHANGED clockVars

Deposit(u, assets) ==
    /\ ~vault.is_paused
    /\ assets > 0
    /\ TakeIn(u, assets, SharesFor(assets))

Mint(u, amount) ==
    /\ ~vault.is_paused
    /\ amount > 0
    /\ TakeIn(u, AssetsForUp(amount), amount)

(* `u` gives `amount` shares back for `assets`. *)
TakeOut(u, assets, amount) ==
    /\ ~vault.is_paused
    /\ LockupElapsed(u)
    /\ assets <= free_liquidity(vault)
    /\ amount <= shares[u]
    /\ vault' = [vault EXCEPT !.balance = @ - assets]
    /\ shares' = Debit(shares, u, amount)
    /\ supply' = supply - amount
    /\ UNCHANGED <<expiry, startedAt, clockVars>>

(* Faulty variant: rounds the shares to burn down. *)
RoundedDown_Withdraw(u, assets) ==
    /\ assets <= AssetsFor(shares[u])
    /\ TakeOut(u, assets, SharesFor(assets))

Withdraw(u, assets) ==
    /\ assets <= AssetsFor(shares[u])
    /\ TakeOut(u, assets, SharesForUp(assets))

Redeem(u, amount) == TakeOut(u, AssetsFor(amount), amount)

(* Faulty variants: no inheritance, and one that may shorten the receiver's
   lockup; a transfer that credits a stale balance.                          *)
None_Inherited(f, t) == expiry[t]
Overwriting_Inherited(f, t) == IF expiry[f] > now THEN expiry[f] ELSE expiry[t]
Stale_Moved(f, t, amount) ==
    [shares EXCEPT ![f] = shares[f] - amount, ![t] = shares[t] + amount]

Moved(f, t, amount) == Credit(Debit(shares, f, amount), t, amount)

(* transfer and transfer_from: shares move, then the sender's running lockup
   is inherited when it ends later than the receiver's.  Not pause-gated.    *)
Inherited(f, t) ==
    IF expiry[f] > now /\ expiry[f] > expiry[t] THEN expiry[f] ELSE expiry[t]

Transfer(f, t, amount) ==
    /\ amount <= shares[f]
    /\ shares' = Moved(f, t, amount)
    /\ expiry' = [expiry EXCEPT ![t] = Inherited(f, t)]
    /\ startedAt' = IF amount > 0
                    THEN [startedAt EXCEPT ![t] = Greatest(@, startedAt[f])]
                    ELSE startedAt
    /\ UNCHANGED <<vault, supply, clockVars>>

ClaimFees ==
    /\ CanClaimTo(vault, vault.unclaimed_fees)
    /\ vault' = claim_fees_to(vault, vault.unclaimed_fees)
    /\ UNCHANGED <<lpVars, clockVars>>

VaultPause ==
    /\ vault' = [vault EXCEPT !.is_paused = TRUE]
    /\ UNCHANGED <<lpVars, clockVars>>

VaultUnpause ==
    /\ vault' = [vault EXCEPT !.is_paused = FALSE]
    /\ UNCHANGED <<lpVars, clockVars>>

SetCooldown(c) ==
    /\ cooldown' = c
    /\ UNCHANGED <<vault, lpVars, now>>

Tick ==
    /\ now < MaxTime
    /\ now' = now + 1
    /\ UNCHANGED <<vault, lpVars, cooldown>>

(* Anyone may send USDC to the vault's address; so does the position manager
   when it forwards revenue or absorbed collateral.                          *)
ReceiveUsdc(amount) ==
    /\ vault.balance + amount <= MaxAssets
    /\ vault' = receive(vault, amount)
    /\ UNCHANGED <<lpVars, clockVars>>

(* A call of the position manager in a transaction of its own. *)
PMCall ==
    /\ \/ \E a \in PMAmounts :
             \/ CanPayProfit(vault, a) /\ vault' = pay_profit(vault, a)
             \/ CanReserve(vault, a)   /\ vault' = reserve_liquidity(vault, a)
             \/ CanRelease(vault, a)   /\ vault' = release_liquidity(vault, a)
             \/ CanAccrue(vault, a)    /\ vault' = accrue_fees(vault, a)
             \/ CanClaimTo(vault, a)   /\ vault' = claim_fees_to(vault, a)
       \/ \E p \in NetPnls : vault' = update_net_pnl(vault, p)
    /\ UNCHANGED <<lpVars, clockVars>>

(* The vault as initialize leaves it, at any admissible cooldown. *)
VaultInit ==
    /\ vault = EmptyLedger
    /\ shares = [u \in LPs |-> 0]
    /\ supply = 0
    /\ expiry = [u \in LPs |-> 0]
    /\ cooldown \in Cooldowns
    /\ now = 1
    /\ startedAt = [u \in LPs |-> 0]

LPStep ==
    \E u \in LPs :
        \/ \E a \in Amounts : Deposit(u, a) \/ Withdraw(u, a)
        \/ \E s \in ShareAmounts : Mint(u, s) \/ Redeem(u, s)
        \/ \E t \in LPs, s \in ShareAmounts : Transfer(u, t, s)

VaultAdminStep ==
    \/ \E admin \in Admins : ClaimFees \/ \E c \in Cooldowns : SetCooldown(c)
    \/ \E pauser \in Pausers : VaultPause \/ VaultUnpause

VaultNext ==
    \/ LPStep
    \/ VaultAdminStep
    \/ PMCall
    \/ \E a \in Amounts : ReceiveUsdc(a)
    \/ Tick

VaultSpec == VaultInit /\ [][VaultNext]_vaultVars

-----------------------------------------------------------------------------
(* Correctness *)

(* The sum of a function with natural values, counted: one element for every
   unit of every value.                                                      *)
Units(f) == UNION {{x} \X (1..f[x]) : x \in DOMAIN f}

Total(f) == Cardinality(Units(f))

(* Every stored amount is a non-negative integer (net PnL may be
   negative), and the cooldown in force is an admissible one.               *)
VaultTypeOK ==
    /\ vault \in Ledger
    /\ shares \in [LPs -> Nat]
    /\ supply \in Nat
    /\ expiry \in [LPs -> Nat]
    /\ cooldown \in Cooldowns
    /\ now \in Nat \ {0}
    /\ startedAt \in [LPs -> Nat]

(* The shares in circulation are exactly the shares the accounts hold:
   deposits, withdrawals and transfers, to oneself included, neither create
   nor lose any (FungibleToken impl and OZ vault calls in contract.rs).     *)
SharesAddUp == supply = Total(shares)

(* Accrued fees are always covered by USDC the vault really holds, whatever
   LPs withdraw, winners are paid and PM reserves in between, so claim_fees
   can never fail for lack of funds (accrue_fees, free_liquidity,
   claim_fees).                                                             *)
FeesFunded == vault.unclaimed_fees <= vault.balance

(* The vault can meet its reservations and its fees: clause 3 of
   test-suites/src/testutils/invariants.rs.                                 *)
Solvent(v) == v.reserved_usdc + v.unclaimed_fees <= v.balance

(* Only a new reservation can take a solvent vault out of solvency: every
   withdrawal, payout, accrual and claim stops short of it
   (require_free_liquidity, accrue_fees).                                   *)
OnlyReservingEndsSolvency ==
    [][Solvent(vault) /\ ~Solvent(vault')
         => vault'.reserved_usdc > vault.reserved_usdc]_vaultVars

(* Nobody takes assets out of shares before a full cooldown, at some setting
   the admin allowed, has run since those shares' last deposit -- also when
   they changed hands on the way, in whole or in part
   (record_lockup, propagate_lockup_on_transfer, require_lockup_elapsed).   *)
CooldownHonoured ==
    [][\A u \in LPs :
          shares'[u] < shares[u] /\ supply' < supply
            => \E c \in Cooldowns : now >= startedAt[u] + c]_vaultVars

(* An account's lockup gets shorter only when that account itself deposits:
   neither the admin's cooldown changes nor a transfer from anybody shortens
   it (LockupExpiresAt in storage.rs, propagate_lockup_on_transfer).        *)
CutsOnlyDepositorsLockup ==
    \A u \in LPs :
        expiry'[u] < expiry[u]
          => /\ vault'.balance > vault.balance
             /\ \A w \in LPs \ {u} : shares'[w] = shares[w]

LockupCutOnlyByOwnDeposit == [][CutsOnlyDepositorsLockup]_vaultVars

(* Deposits and withdrawals never make the remaining shares worth less: all
   rounding of the four ERC-4626 operations favours the vault.              *)
NoDilution ==
    [][supply' # supply
         => (vault'.balance + 1) * (supply + VirtualShares)
              >= (vault.balance + 1) * (supply' + VirtualShares)]_vaultVars

(* What max_withdraw and max_redeem quote to an unlocked account can be taken
   in full: the clamp to free liquidity and the double rounding never quote
   more than withdraw or redeem then accepts (max_withdraw, max_redeem).     *)
QuotesExecutable ==
    \A u \in LPs :
        /\ SharesForUp(max_withdraw(u)) <= shares[u]
        /\ max_redeem(u) <= shares[u]
        /\ AssetsFor(max_redeem(u)) <= free_liquidity(vault)

-----------------------------------------------------------------------------
(* The inductive invariant of the proofs (PositionManagerProofs).
   CooldownHonoured needs that the history is kept for whoever holds shares,
   and that a cooldown some admin allowed either runs until the account's
   expiry or has run out.                                                    *)
StartRecorded == \A u \in LPs : shares[u] > 0 => startedAt[u] > 0

CooldownCovered ==
    \A u \in LPs :
        startedAt[u] > 0
          => \E c \in Cooldowns : startedAt[u] + c <= Greatest(now, expiry[u])

VaultInv ==
    /\ VaultTypeOK
    /\ IsFiniteSet(Units(shares))
    /\ SharesAddUp
    /\ FeesFunded
    /\ StartRecorded
    /\ CooldownCovered
=============================================================================
