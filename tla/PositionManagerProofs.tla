------------------------ MODULE PositionManagerProofs ------------------------
(***************************************************************************)
(* Theorems about the vault, for every sequence of calls by the position   *)
(* manager, and about the position manager with the vault it calls, for    *)
(* every set of traders and markets, every mark price, every configuration *)
(* the validators accept and every sequence of calls.                      *)
(***************************************************************************)
EXTENDS PositionManager, Induction

(***************************************************************************)
(* The vault                                                               *)
(***************************************************************************)

(* Sums counted by Units *)

(* Crediting `a` to one account of a balance function adds `a` to its total: what
   a mint of shares does to the supply (TakeIn).                             *)
LEMMA UnitsGrow ==
    ASSUME NEW D, NEW f \in [D -> Nat], NEW x \in D, NEW a \in Nat,
           IsFiniteSet(Units(f))
    PROVE  /\ IsFiniteSet(Units(Credit(f, x, a)))
           /\ Total(Credit(f, x, a)) = Total(f) + a
<1> DEFINE g == [f EXCEPT ![x] = @ + a]
           New == {x} \X ((f[x] + 1)..(f[x] + a))
<1>1. Units(g) = Units(f) \cup New
  <2>1. f[x] \in Nat
    OBVIOUS
  <2>2. 1..(f[x] + a) = (1..f[x]) \cup ((f[x] + 1)..(f[x] + a))
    BY <2>1
  <2>3. g[x] = f[x] + a /\ \A y \in D \ {x} : g[y] = f[y]
    OBVIOUS
  <2>4. {x} \X (1..g[x]) = ({x} \X (1..f[x])) \cup New
    BY <2>2, <2>3
  <2>5. DOMAIN f = D /\ DOMAIN g = D
    OBVIOUS
  <2>6. Units(g) \subseteq Units(f) \cup New
    BY <2>3, <2>4, <2>5 DEF Units
  <2>7. Units(f) \cup New \subseteq Units(g)
    BY <2>3, <2>4, <2>5 DEF Units
  <2> QED
    BY <2>6, <2>7
<1>2. Units(f) \cap New = {}
  <2> SUFFICES ASSUME NEW e, e \in Units(f), e \in New
               PROVE  FALSE
    OBVIOUS
  <2>1. PICK y \in D : e \in {y} \X (1..f[y])
    BY DEF Units
  <2>2. PICK i \in 1..f[y] : e = <<y, i>>
    BY <2>1
  <2>3. PICK j \in (f[x] + 1)..(f[x] + a) : e = <<x, j>>
    OBVIOUS
  <2>4. y = x /\ i = j
    BY <2>2, <2>3
  <2>5. f[x] \in Nat
    OBVIOUS
  <2>6. i <= f[x] /\ j > f[x]
    BY <2>2, <2>3, <2>4, <2>5
  <2> QED
    BY <2>2, <2>3, <2>4, <2>5, <2>6
<1>3. IsFiniteSet(New) /\ Cardinality(New) = a
  <2>1. /\ IsFiniteSet((f[x] + 1)..(f[x] + a))
        /\ Cardinality((f[x] + 1)..(f[x] + a)) = a
    <3>1. f[x] + 1 \in Int /\ f[x] + a \in Int
      OBVIOUS
    <3>2. (f[x] + 1 > f[x] + a <=> a = 0) /\ (f[x] + a) - (f[x] + 1) + 1 = a
      OBVIOUS
    <3> QED
      BY <3>1, <3>2, FS_Interval
  <2>2. IsFiniteSet({x}) /\ Cardinality({x}) = 1
    BY FS_Singleton
  <2>3. /\ IsFiniteSet(New)
        /\ Cardinality(New)
             = Cardinality({x}) * Cardinality((f[x] + 1)..(f[x] + a))
    <3> DEFINE I == (f[x] + 1)..(f[x] + a)
    <3> HIDE DEF I
    <3>1. IsFiniteSet(I)
      BY <2>1 DEF I
    <3> QED
      BY <2>2, <3>1, FS_Product, Zenon DEF I
  <2>4. 1 * a = a
    OBVIOUS
  <2> QED
    BY <2>1, <2>2, <2>3, <2>4, Zenon
<1>4. IsFiniteSet(Units(f) \cup New)
      /\ Cardinality(Units(f) \cup New)
           = Cardinality(Units(f)) + Cardinality(New) - Cardinality(Units(f) \cap New)
  BY <1>3, FS_Union
<1>5. Cardinality(Units(f)) \in Nat
  BY FS_CardinalityType
<1>6. Cardinality(Units(f) \cap New) = 0
  BY <1>2, FS_EmptySet
<1>7. IsFiniteSet(Units(g)) /\ Total(g) = Total(f) + a
  <2> HIDE DEF g, New
  <2> QED
    BY <1>1, <1>3, <1>4, <1>5, <1>6 DEF Total
<1> QED
  BY <1>7 DEF Credit

(* Debiting `a` takes `a` off the total: what burning shares does (TakeOut). *)
LEMMA UnitsShrink ==
    ASSUME NEW D, NEW f \in [D -> Nat], NEW x \in D, NEW a \in Nat, a <= f[x],
           IsFiniteSet(Units(f))
    PROVE  /\ IsFiniteSet(Units(Debit(f, x, a)))
           /\ Total(Debit(f, x, a)) = Total(f) - a
           /\ Total(f) - a \in Nat
<1> DEFINE g == [f EXCEPT ![x] = @ - a]
<1>1. g \in [D -> Nat]
  OBVIOUS
<1>2. Credit(g, x, a) = f
  <2>1. g[x] = f[x] - a /\ f[x] \in Nat
    OBVIOUS
  <2>2. [g EXCEPT ![x] = @ + a] \in [D -> Nat]
    BY <1>1
  <2>3. \A y \in D : [g EXCEPT ![x] = @ + a][y] = f[y]
    BY <1>1, <2>1
  <2> QED
    BY <2>2, <2>3 DEF Credit
<1>3. \A y \in D : 1..g[y] \subseteq 1..f[y]
  OBVIOUS
<1>4. Units(g) \subseteq Units(f)
  BY <1>3 DEF Units
<1>5. IsFiniteSet(Units(g))
  BY <1>4, FS_Subset
<1>6. Total(f) = Total(g) + a
  <2> HIDE DEF g
  <2> QED
    BY <1>1, <1>2, <1>5, UnitsGrow
<1>7. Total(f) \in Nat /\ Total(g) \in Nat
  BY <1>5, FS_CardinalityType DEF Total
<1> QED
  BY <1>5, <1>6, <1>7 DEF Debit

-----------------------------------------------------------------------------
(* The conversions between assets and shares *)

(* Integer division rounds down; the form the vault rounds up with, up. *)
LEMMA QuotientBounds ==
    ASSUME NEW a \in Nat, NEW b \in Nat \ {0}
    PROVE  /\ a \div b \in Nat
           /\ b * (a \div b) <= a
           /\ (a + b - 1) \div b \in Nat
           /\ b * ((a + b - 1) \div b) >= a
<1>1. a \div b \in Nat /\ a % b \in 0..(b - 1) /\ a = b * (a \div b) + (a % b)
  OBVIOUS
<1> DEFINE c == a + b - 1
<1>2. c \in Nat
  OBVIOUS
<1>3. c \div b \in Nat /\ c % b \in 0..(b - 1) /\ c = b * (c \div b) + (c % b)
  <2> HIDE DEF c
  <2> QED
    BY <1>2
<1> QED
  BY <1>1, <1>3

(* The four share conversions as quotients of whole exchange rates. *)
LEMMA ConversionQuotients ==
    ASSUME VaultTypeOK, NEW x \in Nat
    PROVE  /\ vault.balance + 1 \in Nat \ {0}
           /\ supply + VirtualShares \in Nat \ {0}
           /\ SharesFor(x) = (x * (supply + VirtualShares)) \div (vault.balance + 1)
           /\ SharesForUp(x) = (x * (supply + VirtualShares) + (vault.balance + 1) - 1)
                                   \div (vault.balance + 1)
           /\ AssetsFor(x) = (x * (vault.balance + 1)) \div (supply + VirtualShares)
           /\ AssetsForUp(x) = (x * (vault.balance + 1) + (supply + VirtualShares) - 1)
                                   \div (supply + VirtualShares)
<1> DEFINE B == vault.balance + 1
           S == supply + VirtualShares
<1>1. /\ B \in Nat \ {0} /\ S \in Nat \ {0} /\ vault.balance = B - 1
      /\ supply \in Nat /\ VirtualShares \in Nat
  BY VaultAssumption DEF VaultTypeOK, Ledger
<1>2. x * S + vault.balance = x * S + B - 1
  <2> HIDE DEF B, S
  <2>1. x * S \in Nat
    BY <1>1
  <2> QED
    BY <1>1, <2>1
<1>3. x * B + supply + VirtualShares - 1 = x * B + S - 1
  <2>1. x * B \in Nat
    <3> HIDE DEF B
    <3> QED
      BY <1>1
  <2> HIDE DEF B
  <2> QED
    BY <1>1, <2>1
<1> QED
  BY <1>1, <1>2, <1>3 DEF SharesFor, SharesForUp, AssetsFor, AssetsForUp

(* Conversions of natural amounts are natural amounts. *)
LEMMA ConversionsTyped ==
    ASSUME VaultTypeOK, NEW x \in Nat
    PROVE  /\ SharesFor(x) \in Nat /\ SharesForUp(x) \in Nat
           /\ AssetsFor(x) \in Nat /\ AssetsForUp(x) \in Nat
<1> DEFINE B == vault.balance + 1
           S == supply + VirtualShares
<1>1. /\ B \in Nat \ {0} /\ S \in Nat \ {0}
      /\ SharesFor(x) = (x * S) \div B
      /\ SharesForUp(x) = (x * S + B - 1) \div B
      /\ AssetsFor(x) = (x * B) \div S
      /\ AssetsForUp(x) = (x * B + S - 1) \div S
  BY ConversionQuotients
<1> HIDE DEF B, S
<1>2. x * S \in Nat /\ x * B \in Nat
  BY <1>1
<1> QED
  BY <1>1, <1>2, QuotientBounds

(* SharesFor and AssetsFor round down, the two others up. *)
LEMMA ConversionsRound ==
    ASSUME VaultTypeOK, NEW x \in Nat
    PROVE  /\ (vault.balance + 1) * SharesFor(x) <= (supply + VirtualShares) * x
           /\ (vault.balance + 1) * SharesForUp(x) >= (supply + VirtualShares) * x
           /\ (supply + VirtualShares) * AssetsFor(x) <= (vault.balance + 1) * x
           /\ (supply + VirtualShares) * AssetsForUp(x) >= (vault.balance + 1) * x
<1> DEFINE B == vault.balance + 1
           S == supply + VirtualShares
<1>1. B = vault.balance + 1 /\ S = supply + VirtualShares
  OBVIOUS
<1>2. /\ B \in Nat \ {0} /\ S \in Nat \ {0}
      /\ SharesFor(x) = (x * S) \div B
      /\ SharesForUp(x) = (x * S + B - 1) \div B
      /\ AssetsFor(x) = (x * B) \div S
      /\ AssetsForUp(x) = (x * B + S - 1) \div S
  BY ConversionQuotients
<1> HIDE DEF B, S
<1>3. x * S \in Nat /\ x * B \in Nat /\ x * S = S * x /\ x * B = B * x
  BY <1>2
<1>4. /\ B * ((x * S) \div B) <= x * S
      /\ B * ((x * S + B - 1) \div B) >= x * S
  BY <1>2, <1>3, QuotientBounds
<1>5. /\ S * ((x * B) \div S) <= x * B
      /\ S * ((x * B + S - 1) \div S) >= x * B
  BY <1>2, <1>3, QuotientBounds
<1> QED
  BY <1>1, <1>2, <1>3, <1>4, <1>5

(* Shares are never minted for nothing: the price is rounded up (mint). *)
LEMMA MintCharges ==
    ASSUME VaultTypeOK, NEW amount \in Nat \ {0}
    PROVE  AssetsForUp(amount) \in Nat \ {0}
<1> DEFINE B == vault.balance + 1
           S == supply + VirtualShares
           n == amount * B + S - 1
<1>1. B \in Nat \ {0} /\ S \in Nat \ {0}
  BY VaultAssumption DEF VaultTypeOK, Ledger
<1>2. amount * B \in Nat \ {0}
  <2> HIDE DEF B
  <2> QED
    BY <1>1
<1>3. AssetsForUp(amount) = n \div S
  BY ConversionQuotients
<1>4. n \in Nat /\ n >= S
  <2> HIDE DEF B, S
  <2> QED
    BY <1>1, <1>2
<1>5. n \div S # 0 /\ n \div S \in Nat
  <2> HIDE DEF n, S
  <2> QED
    BY <1>1, <1>4
<1> QED
  BY <1>3, <1>5

-----------------------------------------------------------------------------
(* The inductive invariant *)

(* Free liquidity never reaches into the fees, nor, when there is any, into the
   reservations (free_liquidity in logic.rs).                                *)
LEMMA FreeLiquidityBound ==
    ASSUME NEW v \in Ledger, v.unclaimed_fees <= v.balance
    PROVE  /\ free_liquidity(v) \in Nat
           /\ free_liquidity(v) <= v.balance - v.unclaimed_fees
           /\ free_liquidity(v) > 0
                => free_liquidity(v) <= v.balance - v.reserved_usdc - v.unclaimed_fees
  BY DEF free_liquidity, AtLeastZero, Ledger

(* A deposit or mint keeps the inductive invariant. *)
LEMMA TakeInInv ==
    ASSUME VaultInv, NEW u \in LPs, NEW assets \in Nat, NEW amount \in Nat,
           TakeIn(u, assets, amount)
    PROVE  VaultInv'
<1> USE DEF VaultInv
<1>1. VaultTypeOK'
  BY VaultAssumption DEF TakeIn, VaultTypeOK, Ledger, receive, clockVars, Credit
<1>2. IsFiniteSet(Units(shares))' /\ SharesAddUp'
  <2>1. /\ IsFiniteSet(Units(Credit(shares, u, amount)))
        /\ Total(Credit(shares, u, amount)) = Total(shares) + amount
    BY UnitsGrow DEF VaultTypeOK
  <2>2. shares' = Credit(shares, u, amount) /\ supply' = supply + amount
    BY DEF TakeIn
  <2> QED
    BY <2>1, <2>2 DEF SharesAddUp, Units, Total
<1>3. FeesFunded'
  BY DEF TakeIn, FeesFunded, VaultTypeOK, Ledger, receive
<1>4. StartRecorded'
  BY DEF TakeIn, StartRecorded, VaultTypeOK, Credit
<1>5. CooldownCovered'
  BY VaultAssumption DEF TakeIn, CooldownCovered, VaultTypeOK, clockVars, Greatest
<1> QED
  BY <1>1, <1>2, <1>3, <1>4, <1>5

(* A withdrawal or redemption keeps the inductive invariant. *)
LEMMA TakeOutInv ==
    ASSUME VaultInv, NEW u \in LPs, NEW assets \in Nat, NEW amount \in Nat,
           TakeOut(u, assets, amount)
    PROVE  VaultInv'
<1> USE DEF VaultInv
<1>1. /\ IsFiniteSet(Units(Debit(shares, u, amount)))
      /\ Total(Debit(shares, u, amount)) = supply - amount
      /\ supply - amount \in Nat
  BY UnitsShrink DEF VaultTypeOK, TakeOut, SharesAddUp
<1>2. assets <= vault.balance - vault.unclaimed_fees
  BY FreeLiquidityBound DEF TakeOut, VaultTypeOK, FeesFunded, Ledger
<1>3. VaultTypeOK'
  BY <1>1, <1>2 DEF TakeOut, VaultTypeOK, Ledger, clockVars, Debit
<1>4. IsFiniteSet(Units(shares))' /\ SharesAddUp'
  <2>1. shares' = Debit(shares, u, amount) /\ supply' = supply - amount
    BY DEF TakeOut
  <2> QED
    BY <1>1, <2>1 DEF SharesAddUp, Units, Total
<1>5. FeesFunded'
  BY <1>2 DEF TakeOut, FeesFunded, VaultTypeOK, Ledger
<1>6. StartRecorded'
  BY DEF TakeOut, StartRecorded, VaultTypeOK, Debit
<1>7. CooldownCovered'
  BY DEF TakeOut, CooldownCovered, clockVars
<1> QED
  BY <1>3, <1>4, <1>5, <1>6, <1>7

(* A share transfer keeps it, also to oneself: the receiver's lockup covers the
   younger of the two histories.                                             *)
LEMMA TransferInv ==
    ASSUME VaultInv, NEW f \in LPs, NEW t \in LPs, NEW amount \in Nat,
           Transfer(f, t, amount)
    PROVE  VaultInv'
<1> USE DEF VaultInv
<1> DEFINE g == Debit(shares, f, amount)
<1>1. shares \in [LPs -> Nat] /\ amount <= shares[f]
  BY DEF VaultTypeOK, Transfer
<1>2. IsFiniteSet(Units(g)) /\ Total(g) = Total(shares) - amount
  BY <1>1, UnitsShrink
<1>3. g \in [LPs -> Nat]
  BY <1>1 DEF Debit
<1>4. shares' = Credit(g, t, amount)
  BY DEF Transfer, Moved
<1>5. IsFiniteSet(Units(shares)) /\ Total(shares) \in Nat
  BY FS_CardinalityType DEF Total
<1>6. IsFiniteSet(Units(shares')) /\ Total(shares') = Total(shares)
  <2> HIDE DEF g
  <2>1. /\ IsFiniteSet(Units(Credit(g, t, amount)))
        /\ Total(Credit(g, t, amount)) = Total(g) + amount
    BY <1>2, <1>3, UnitsGrow
  <2> QED
    BY <1>2, <1>4, <1>5, <2>1
<1>7. VaultTypeOK'
  <2>1. shares' \in [LPs -> Nat]
    <3> HIDE DEF g
    <3> QED
      BY <1>3, <1>4 DEF Credit
  <2> QED
    BY <2>1 DEF Transfer, VaultTypeOK, clockVars, Inherited, Greatest
<1>8. SharesAddUp'
  BY <1>6 DEF SharesAddUp, Transfer, Total, Units
<1>9. FeesFunded'
  BY DEF Transfer, FeesFunded
<1>10. StartRecorded'
  <2> SUFFICES ASSUME NEW u \in LPs, shares'[u] > 0
               PROVE  startedAt'[u] > 0
    BY DEF StartRecorded
  <2>1. CASE u = t /\ amount > 0
    <3>1. startedAt'[u] = Greatest(startedAt[t], startedAt[f]) /\ startedAt[f] > 0
      BY <1>1, <2>1 DEF Transfer, StartRecorded, VaultTypeOK
    <3> QED
      BY <3>1 DEF Greatest, VaultTypeOK
  <2>2. CASE ~(u = t /\ amount > 0)
    <3>1. startedAt'[u] = startedAt[u]
      BY <2>2 DEF Transfer, VaultTypeOK
    <3>2. shares'[u] <= shares[u]
      BY <1>1, <2>2 DEF Transfer, Moved, Credit, Debit
    <3> QED
      BY <1>1, <3>1, <3>2 DEF StartRecorded, VaultTypeOK, Transfer, Moved, Credit, Debit
  <2> QED
    BY <2>1, <2>2
<1>11. CooldownCovered'
  <2> SUFFICES ASSUME NEW u \in LPs, startedAt'[u] > 0
               PROVE  \E c \in Cooldowns : startedAt'[u] + c <= Greatest(now, expiry'[u])
    BY DEF CooldownCovered, Transfer, clockVars
  <2>1. /\ now \in Nat /\ expiry \in [LPs -> Nat] /\ startedAt \in [LPs -> Nat]
        /\ expiry' = [expiry EXCEPT ![t] = Inherited(f, t)]
    BY DEF VaultTypeOK, Transfer
  <2>2. Greatest(now, expiry'[u]) >= Greatest(now, expiry[u])
    BY <2>1 DEF Inherited, Greatest
  <2>3. u = t => Greatest(now, expiry'[u]) >= Greatest(now, expiry[f])
    BY <2>1 DEF Inherited, Greatest
  <2>4. startedAt'[u] = startedAt[u] \/ (u = t /\ startedAt'[u] = startedAt[f])
    BY <2>1 DEF Transfer, Greatest
  <2>5. PICK w \in LPs : startedAt'[u] = startedAt[w]
                        /\ Greatest(now, expiry'[u]) >= Greatest(now, expiry[w])
    BY <2>2, <2>3, <2>4
  <2>6. PICK c \in Cooldowns : startedAt[w] + c <= Greatest(now, expiry[w])
    BY <2>5 DEF CooldownCovered
  <2>7. /\ Greatest(now, expiry'[u]) \in Int /\ Greatest(now, expiry[w]) \in Int
        /\ startedAt[w] + c \in Int
    BY <2>1, VaultAssumption DEF Greatest, Inherited
  <2> QED
    BY <2>5, <2>6, <2>7
<1> QED
  BY <1>6, <1>7, <1>8, <1>9, <1>10, <1>11

(* Steps that touch nothing but the ledger. *)
LEMMA LedgerInv ==
    ASSUME VaultInv, vault' \in Ledger,
           vault'.unclaimed_fees <= vault'.balance,
           UNCHANGED <<lpVars, clockVars>>
    PROVE  VaultInv'
  BY DEF VaultInv, lpVars, clockVars, VaultTypeOK, SharesAddUp, Units, Total,
         FeesFunded, StartRecorded, CooldownCovered

(* A claim keeps the fees that remain covered (claim_fees, claim_fees_to). *)
LEMMA ClaimKeepsFees ==
    ASSUME NEW v \in Ledger, v.unclaimed_fees <= v.balance,
           NEW a \in Int, CanClaimTo(v, a)
    PROVE  /\ claim_fees_to(v, a) \in Ledger
           /\ claim_fees_to(v, a).unclaimed_fees <= claim_fees_to(v, a).balance
<1> DEFINE b == v.balance - a
           f == v.unclaimed_fees - a
<1>1. b \in Nat /\ f \in Nat /\ f <= b
  BY DEF CanClaimTo, Ledger
<1>2. claim_fees_to(v, a) = [v EXCEPT !.balance = b, !.unclaimed_fees = f]
  BY DEF claim_fees_to
<1> HIDE DEF b, f
<1>3. [v EXCEPT !.balance = b, !.unclaimed_fees = f]
        = [balance |-> b, reserved_usdc |-> v.reserved_usdc, unclaimed_fees |-> f,
           net_pnl |-> v.net_pnl, is_paused |-> v.is_paused]
  <2> DEFINE w == [v EXCEPT !.balance = b]
  <2>1. w = [balance |-> b, reserved_usdc |-> v.reserved_usdc,
             unclaimed_fees |-> v.unclaimed_fees, net_pnl |-> v.net_pnl,
             is_paused |-> v.is_paused]
    BY DEF Ledger
  <2>2. [v EXCEPT !.balance = b, !.unclaimed_fees = f] = [w EXCEPT !.unclaimed_fees = f]
    OBVIOUS
  <2> HIDE DEF w
  <2> QED
    BY <2>1, <2>2
<1> QED
  BY <1>1, <1>2, <1>3 DEF Ledger

(* Every entrypoint of the vault, and every call of the position manager, keeps
   the inductive invariant.                                                  *)
LEMMA VaultStepInv == VaultInv /\ [VaultNext]_vaultVars => VaultInv'
<1> SUFFICES ASSUME VaultInv, [VaultNext]_vaultVars
             PROVE  VaultInv'
  OBVIOUS
<1> USE VaultAssumption
<1>1. VaultTypeOK /\ FeesFunded
  BY DEF VaultInv
<1>2. ASSUME NEW u \in LPs, NEW a \in Amounts, Deposit(u, a)
      PROVE  VaultInv'
  BY <1>1, <1>2, ConversionsTyped, TakeInInv DEF Deposit
<1>3. ASSUME NEW u \in LPs, NEW a \in Amounts, Withdraw(u, a)
      PROVE  VaultInv'
  BY <1>1, <1>3, ConversionsTyped, TakeOutInv DEF Withdraw
<1>4. ASSUME NEW u \in LPs, NEW s \in ShareAmounts, Mint(u, s)
      PROVE  VaultInv'
  BY <1>1, <1>4, ConversionsTyped, TakeInInv DEF Mint
<1>5. ASSUME NEW u \in LPs, NEW s \in ShareAmounts, Redeem(u, s)
      PROVE  VaultInv'
  BY <1>1, <1>5, ConversionsTyped, TakeOutInv DEF Redeem
<1>6. ASSUME NEW u \in LPs, NEW t \in LPs, NEW s \in ShareAmounts, Transfer(u, t, s)
      PROVE  VaultInv'
  BY <1>6, TransferInv
<1>7. CASE ClaimFees
  <2>1. vault' \in Ledger /\ vault'.unclaimed_fees <= vault'.balance
    <3>1. vault.unclaimed_fees \in Int /\ vault \in Ledger
      BY <1>1 DEF VaultTypeOK, Ledger
    <3> QED
      BY <1>1, <1>7, <3>1, ClaimKeepsFees DEF ClaimFees, FeesFunded
  <2> QED
    BY <1>7, <2>1, LedgerInv DEF ClaimFees
<1>8. CASE VaultPause \/ VaultUnpause
  BY <1>1, <1>8, LedgerInv DEF VaultPause, VaultUnpause, VaultTypeOK, Ledger, FeesFunded
<1>9. ASSUME NEW c \in Cooldowns, SetCooldown(c)
      PROVE  VaultInv'
  BY <1>9 DEF SetCooldown, lpVars, VaultInv, VaultTypeOK, SharesAddUp, Units, Total,
              FeesFunded, StartRecorded, CooldownCovered
<1>10. CASE PMCall
  <2>1. ASSUME NEW a \in PMAmounts, CanPayProfit(vault, a),
               vault' = pay_profit(vault, a)
        PROVE  vault' \in Ledger /\ vault'.unclaimed_fees <= vault'.balance
    BY <1>1, <2>1, FreeLiquidityBound
       DEF CanPayProfit, pay_profit, VaultTypeOK, Ledger, FeesFunded
  <2>2. ASSUME NEW a \in PMAmounts, CanReserve(vault, a),
               vault' = reserve_liquidity(vault, a)
        PROVE  vault' \in Ledger /\ vault'.unclaimed_fees <= vault'.balance
    BY <1>1, <2>2 DEF CanReserve, reserve_liquidity, VaultTypeOK, Ledger, FeesFunded
  <2>3. ASSUME NEW a \in PMAmounts, CanRelease(vault, a),
               vault' = release_liquidity(vault, a)
        PROVE  vault' \in Ledger /\ vault'.unclaimed_fees <= vault'.balance
    BY <1>1, <2>3 DEF CanRelease, release_liquidity, VaultTypeOK, Ledger, FeesFunded
  <2>4. ASSUME NEW a \in PMAmounts, CanAccrue(vault, a),
               vault' = accrue_fees(vault, a)
        PROVE  vault' \in Ledger /\ vault'.unclaimed_fees <= vault'.balance
    BY <1>1, <2>4 DEF CanAccrue, accrue_fees, VaultTypeOK, Ledger, FeesFunded
  <2>5. ASSUME NEW a \in PMAmounts, CanClaimTo(vault, a),
               vault' = claim_fees_to(vault, a)
        PROVE  vault' \in Ledger /\ vault'.unclaimed_fees <= vault'.balance
    BY <1>1, <2>5, ClaimKeepsFees DEF VaultTypeOK, FeesFunded
  <2>6. ASSUME NEW p \in NetPnls, vault' = update_net_pnl(vault, p)
        PROVE  vault' \in Ledger /\ vault'.unclaimed_fees <= vault'.balance
    BY <1>1, <2>6 DEF update_net_pnl, VaultTypeOK, Ledger, FeesFunded
  <2>7. vault' \in Ledger /\ vault'.unclaimed_fees <= vault'.balance
    BY <1>10, <2>1, <2>2, <2>3, <2>4, <2>5, <2>6 DEF PMCall
  <2> QED
    BY <1>10, <2>7, LedgerInv DEF PMCall
<1>11. ASSUME NEW a \in Amounts, ReceiveUsdc(a)
       PROVE  VaultInv'
  BY <1>1, <1>11, LedgerInv DEF ReceiveUsdc, receive, VaultTypeOK, Ledger, FeesFunded
<1>12. CASE Tick
  <2>1. CooldownCovered'
    <3> SUFFICES ASSUME NEW u \in LPs, startedAt[u] > 0
                 PROVE  \E c \in Cooldowns :
                            startedAt[u] + c <= Greatest(now + 1, expiry[u])
      BY <1>12 DEF Tick, lpVars, CooldownCovered
    <3>1. PICK c \in Cooldowns : startedAt[u] + c <= Greatest(now, expiry[u])
      BY DEF VaultInv, CooldownCovered
    <3> QED
      BY <1>1, <3>1 DEF Greatest, VaultTypeOK
  <2> QED
    BY <1>12, <2>1 DEF Tick, lpVars, VaultInv, VaultTypeOK, SharesAddUp, Units, Total,
                       FeesFunded, StartRecorded
<1>13. CASE UNCHANGED vaultVars
  BY <1>13 DEF vaultVars, VaultInv, VaultTypeOK, SharesAddUp, Units, Total,
               FeesFunded, StartRecorded, CooldownCovered
<1> QED
  BY <1>2, <1>3, <1>4, <1>5, <1>6, <1>7, <1>8, <1>9, <1>10, <1>11, <1>12, <1>13
     DEF VaultNext, LPStep, VaultAdminStep

(* A freshly initialized vault satisfies the inductive invariant. *)
LEMMA VaultStartInv == VaultInit => VaultInv
<1> SUFFICES ASSUME VaultInit
             PROVE  VaultInv
  OBVIOUS
<1>1. VaultTypeOK
  BY VaultAssumption DEF VaultInit, VaultTypeOK, Ledger, EmptyLedger
<1>2. Units(shares) = {}
  BY DEF VaultInit, Units
<1>3. IsFiniteSet(Units(shares)) /\ SharesAddUp
  BY <1>2, FS_EmptySet DEF VaultInit, SharesAddUp, Total
<1>4. FeesFunded /\ StartRecorded /\ CooldownCovered
  BY DEF VaultInit, EmptyLedger, FeesFunded, StartRecorded, CooldownCovered
<1> QED
  BY <1>1, <1>3, <1>4 DEF VaultInv

-----------------------------------------------------------------------------
(* The theorems *)

(* The inductive invariant holds in every reachable state of the vault. *)
THEOREM VaultAlwaysInv == VaultSpec => []VaultInv
  BY VaultStartInv, VaultStepInv, PTL DEF VaultSpec

(* The vault's amounts never go negative and never leave their types: no
   withdrawal, payout, release or claim subtracts more than is there.        *)
THEOREM VaultTyped == VaultSpec => []VaultTypeOK
<1>1. VaultInv => VaultTypeOK
  BY DEF VaultInv
<1> QED
  BY <1>1, VaultAlwaysInv, PTL

(* The share supply is the sum of the accounts' balances, for every set of
   accounts and every sequence of deposits, withdrawals and transfers.       *)
THEOREM SharesAlwaysAddUp == VaultSpec => []SharesAddUp
<1>1. VaultInv => SharesAddUp
  BY DEF VaultInv
<1> QED
  BY <1>1, VaultAlwaysInv, PTL

(* Accrued fees stay covered by the vault's USDC whatever LPs withdraw and
   the position manager pays out (free_liquidity, accrue_fees).              *)
THEOREM FeesAlwaysFunded == VaultSpec => []FeesFunded
<1>1. VaultInv => FeesFunded
  BY DEF VaultInv
<1> QED
  BY <1>1, VaultAlwaysInv, PTL

(* Only Withdraw and Redeem burn shares. *)
LEMMA OnlyTakingOutBurns ==
    ASSUME VaultInv, VaultNext, supply' < supply
    PROVE  \E u \in LPs, assets \in Nat, amount \in Nat : TakeOut(u, assets, amount)
<1> USE VaultAssumption
<1>1. VaultTypeOK
  BY DEF VaultInv
<1>2. ASSUME NEW u \in LPs, NEW assets \in Nat, NEW amount \in Nat,
             TakeIn(u, assets, amount)
      PROVE  FALSE
  BY <1>1, <1>2 DEF TakeIn, VaultTypeOK
<1>3. ASSUME NEW u \in LPs, NEW a \in Amounts
      PROVE  /\ ~Deposit(u, a)
             /\ Withdraw(u, a) => TakeOut(u, a, SharesForUp(a)) /\ SharesForUp(a) \in Nat
  BY <1>1, <1>2, ConversionsTyped DEF Deposit, Withdraw
<1>4. ASSUME NEW u \in LPs, NEW s \in ShareAmounts
      PROVE  /\ ~Mint(u, s)
             /\ Redeem(u, s) => TakeOut(u, AssetsFor(s), s) /\ AssetsFor(s) \in Nat
  BY <1>1, <1>2, ConversionsTyped DEF Mint, Redeem
<1>5. supply' # supply
  BY <1>1 DEF VaultTypeOK
<1>6. \E u \in LPs : \/ \E a \in Amounts : Deposit(u, a) \/ Withdraw(u, a)
                    \/ \E s \in ShareAmounts : Mint(u, s) \/ Redeem(u, s)
  BY <1>5 DEF VaultNext, LPStep, VaultAdminStep, Transfer, ClaimFees, SetCooldown,
              VaultPause, VaultUnpause, PMCall, ReceiveUsdc, Tick, lpVars
<1> QED
  BY <1>3, <1>4, <1>6

(* No shares are burnt before a cooldown the admin allowed has run since their
   last deposit, through whatever transfers they came: the cooldown cannot be
   got round by moving shares (propagate_lockup_on_transfer).                *)
THEOREM CooldownAlwaysHonoured == VaultSpec => CooldownHonoured
<1>1. ASSUME VaultInv, [VaultNext]_vaultVars, supply' < supply,
             NEW w \in LPs, shares'[w] < shares[w]
      PROVE  \E c \in Cooldowns : now >= startedAt[w] + c
  <2>1. VaultTypeOK /\ StartRecorded /\ CooldownCovered
    BY <1>1 DEF VaultInv
  <2>2. VaultNext
    BY <1>1, <2>1 DEF vaultVars, VaultTypeOK
  <2>3. PICK u \in LPs, assets \in Nat, amount \in Nat : TakeOut(u, assets, amount)
    BY <1>1, <2>2, OnlyTakingOutBurns
  <2>4. /\ LockupElapsed(u) /\ amount <= shares[u]
        /\ shares' = Debit(shares, u, amount)
    BY <2>3 DEF TakeOut
  <2>5. w = u /\ shares[w] > 0
    BY <1>1, <2>1, <2>4 DEF Debit, VaultTypeOK
  <2>6. PICK c \in Cooldowns : startedAt[w] + c <= Greatest(now, expiry[w])
    BY <2>1, <2>5 DEF StartRecorded, CooldownCovered
  <2>7. Greatest(now, expiry[w]) = now
    BY <2>1, <2>4, <2>5 DEF LockupElapsed, Greatest, VaultTypeOK
  <2> QED
    BY <2>1, <2>6, <2>7, VaultAssumption DEF VaultTypeOK
<1>2. VaultInv /\ [VaultNext]_vaultVars
        => [\A u \in LPs :
              shares'[u] < shares[u] /\ supply' < supply
                => \E c \in Cooldowns : now >= startedAt[u] + c]_vaultVars
  BY <1>1
<1> QED
  BY <1>2, VaultAlwaysInv, PTL DEF VaultSpec, CooldownHonoured

(* One step of the vault, for the theorem below. *)
LEMMA SolvencyStep ==
    ASSUME VaultInv, [VaultNext]_vaultVars, Solvent(vault),
           vault'.reserved_usdc <= vault.reserved_usdc
    PROVE  Solvent(vault')
<1> USE VaultAssumption
<1>1. VaultTypeOK /\ vault \in Ledger /\ vault.unclaimed_fees <= vault.balance
  BY DEF VaultInv, VaultTypeOK, FeesFunded
<1>2. ASSUME NEW u \in LPs, NEW a \in Nat, NEW s \in Nat, TakeIn(u, a, s)
      PROVE  Solvent(vault')
  BY <1>1, <1>2 DEF TakeIn, receive, Solvent, Ledger
<1>3. ASSUME NEW u \in LPs, NEW a \in Nat, NEW s \in Nat, TakeOut(u, a, s)
      PROVE  Solvent(vault')
  BY <1>1, <1>3, FreeLiquidityBound DEF TakeOut, Solvent, Ledger
<1>4. ASSUME NEW u \in LPs, NEW a \in Amounts, Deposit(u, a) \/ Withdraw(u, a)
      PROVE  Solvent(vault')
  BY <1>1, <1>2, <1>3, <1>4, ConversionsTyped DEF Deposit, Withdraw
<1>5. ASSUME NEW u \in LPs, NEW s \in ShareAmounts, Mint(u, s) \/ Redeem(u, s)
      PROVE  Solvent(vault')
  BY <1>1, <1>2, <1>3, <1>5, ConversionsTyped DEF Mint, Redeem
<1>6. ASSUME NEW a \in Int, CanClaimTo(vault, a), vault' = claim_fees_to(vault, a)
      PROVE  Solvent(vault')
  <2>1. /\ vault'.balance = vault.balance - a
        /\ vault'.unclaimed_fees = vault.unclaimed_fees - a
        /\ vault'.reserved_usdc = vault.reserved_usdc
    BY <1>1, <1>6 DEF claim_fees_to, Ledger
  <2> QED
    BY <1>1, <2>1 DEF Solvent, Ledger
<1>7. CASE PMCall
  <2>1. ASSUME NEW a \in PMAmounts, CanPayProfit(vault, a),
               vault' = pay_profit(vault, a)
        PROVE  Solvent(vault')
    BY <1>1, <2>1, FreeLiquidityBound DEF CanPayProfit, pay_profit, Solvent, Ledger
  <2>2. ASSUME NEW a \in PMAmounts, CanReserve(vault, a),
               vault' = reserve_liquidity(vault, a)
        PROVE  Solvent(vault')
    BY <1>1, <2>2 DEF CanReserve, reserve_liquidity, Ledger
  <2>3. ASSUME NEW a \in PMAmounts, CanRelease(vault, a),
               vault' = release_liquidity(vault, a)
        PROVE  Solvent(vault')
    BY <1>1, <2>3 DEF CanRelease, release_liquidity, Solvent, Ledger
  <2>4. ASSUME NEW a \in PMAmounts, CanAccrue(vault, a),
               vault' = accrue_fees(vault, a)
        PROVE  Solvent(vault')
    BY <1>1, <2>4 DEF CanAccrue, accrue_fees, Solvent, Ledger
  <2>5. ASSUME NEW p \in NetPnls, vault' = update_net_pnl(vault, p)
        PROVE  Solvent(vault')
    BY <1>1, <2>5 DEF update_net_pnl, Solvent, Ledger
  <2> QED
    BY <1>6, <1>7, <2>1, <2>2, <2>3, <2>4, <2>5 DEF PMCall
<1>8. CASE ClaimFees
  <2>1. vault.unclaimed_fees \in Int
    BY <1>1 DEF Ledger
  <2> QED
    BY <1>6, <1>8, <2>1 DEF ClaimFees
<1>9. CASE VaultPause \/ VaultUnpause
  BY <1>1, <1>9 DEF VaultPause, VaultUnpause, Solvent, Ledger
<1>10. ASSUME NEW a \in Amounts, ReceiveUsdc(a)
       PROVE  Solvent(vault')
  BY <1>1, <1>10 DEF ReceiveUsdc, receive, Solvent, Ledger
<1>11. CASE UNCHANGED vault
  BY <1>11
<1> QED
  BY <1>4, <1>5, <1>7, <1>8, <1>9, <1>10, <1>11
     DEF VaultNext, LPStep, VaultAdminStep, Transfer, SetCooldown, Tick, vaultVars

(* A solvent vault stays solvent in every step that makes no new reservation:
   LP withdrawals, payouts, accruals and claims all stop at what is reserved
   or owed as fees (require_free_liquidity, accrue_fees).                    *)
THEOREM SolvencyEndsOnlyByReserving == VaultSpec => OnlyReservingEndsSolvency
<1>1. VaultInv /\ [VaultNext]_vaultVars
        => [Solvent(vault) /\ ~Solvent(vault')
              => vault'.reserved_usdc > vault.reserved_usdc]_vaultVars
  <2>1. ASSUME VaultInv, [VaultNext]_vaultVars
        PROVE  vault'.reserved_usdc \in Int /\ vault.reserved_usdc \in Int
    BY <2>1, VaultStepInv DEF VaultInv, VaultTypeOK, Ledger
  <2> QED
    BY <2>1, SolvencyStep
<1> QED
  BY <1>1, VaultAlwaysInv, PTL DEF VaultSpec, OnlyReservingEndsSolvency

(* An account's lockup is only ever shortened by a deposit of its own, which
   starts a new one: neither the admin nor another holder can cut it
   (record_lockup, propagate_lockup_on_transfer).                            *)
THEOREM LockupCutOnlyByDepositor == VaultSpec => LockupCutOnlyByOwnDeposit
<1>1. ASSUME VaultInv, [VaultNext]_vaultVars, NEW w \in LPs, expiry'[w] < expiry[w]
      PROVE  /\ vault'.balance > vault.balance
             /\ \A x \in LPs \ {w} : shares'[x] = shares[x]
  <2> USE VaultAssumption
  <2>1. VaultTypeOK
    BY <1>1 DEF VaultInv
  <2>2. expiry' # expiry
    BY <1>1, <2>1 DEF VaultTypeOK
  <2>3. ASSUME NEW u \in LPs, NEW a \in Nat \ {0}, NEW s \in Nat, TakeIn(u, a, s)
        PROVE  /\ vault'.balance > vault.balance
               /\ \A x \in LPs \ {w} : shares'[x] = shares[x]
    <3>1. u = w
      BY <1>1, <2>1, <2>3 DEF TakeIn, VaultTypeOK
    <3>2. \A x \in LPs \ {w} : shares'[x] = shares[x]
      BY <2>1, <2>3, <3>1 DEF TakeIn, Credit, VaultTypeOK
    <3> QED
      BY <2>1, <2>3, <3>2 DEF TakeIn, receive, VaultTypeOK, Ledger
  <2>4. ASSUME NEW u \in LPs, NEW a \in Amounts, Deposit(u, a)
        PROVE  \E x \in Nat \ {0}, s \in Nat : TakeIn(u, x, s)
    BY <2>1, <2>4, ConversionsTyped DEF Deposit
  <2>5. ASSUME NEW u \in LPs, NEW s \in ShareAmounts, Mint(u, s)
        PROVE  \E x \in Nat \ {0}, y \in Nat : TakeIn(u, x, y)
    <3>1. s \in Nat \ {0} /\ TakeIn(u, AssetsForUp(s), s)
      BY <2>5 DEF Mint
    <3> QED
      BY <2>1, <3>1, MintCharges, ConversionsTyped
  <2>6. ASSUME NEW f \in LPs, NEW t \in LPs, NEW s \in ShareAmounts, Transfer(f, t, s)
        PROVE  FALSE
    BY <1>1, <2>1, <2>6 DEF Transfer, Inherited, VaultTypeOK
  <2> QED
    BY <1>1, <2>2, <2>3, <2>4, <2>5, <2>6
       DEF VaultNext, LPStep, VaultAdminStep, Withdraw, Redeem, TakeOut, ClaimFees,
           SetCooldown, VaultPause, VaultUnpause, PMCall, ReceiveUsdc, Tick, lpVars,
           vaultVars
<1>2. VaultInv /\ [VaultNext]_vaultVars => [CutsOnlyDepositorsLockup]_vaultVars
  BY <1>1 DEF CutsOnlyDepositorsLockup
<1> QED
  BY <1>2, VaultAlwaysInv, PTL DEF VaultSpec, LockupCutOnlyByOwnDeposit

(* No deposit, mint, withdrawal or redemption takes value from the other
   holders, at any exchange rate and any share offset: every conversion rounds
   for the vault (the OZ conversions contract.rs calls).                     *)
THEOREM RoundingFavoursVault == VaultSpec => NoDilution
<1> DEFINE B == vault.balance + 1
           S == supply + VirtualShares
<1>1. ASSUME VaultInv, [VaultNext]_vaultVars, supply' # supply
      PROVE  (vault'.balance + 1) * S >= B * (supply' + VirtualShares)
  <2> USE VaultAssumption
  <2>1. /\ VaultTypeOK /\ vault \in Ledger
        /\ B \in Nat \ {0} /\ S \in Nat \ {0} /\ VirtualShares \in Nat
        /\ vault.balance \in Nat /\ supply \in Nat
    BY <1>1 DEF VaultInv, VaultTypeOK, Ledger
  <2>2. ASSUME NEW u \in LPs, NEW a \in Nat, NEW s \in Nat, TakeIn(u, a, s),
               B * s <= S * a
        PROVE  (vault'.balance + 1) * S >= B * (supply' + VirtualShares)
    <3>1. vault'.balance + 1 = B + a /\ supply' + VirtualShares = S + s
      BY <2>1, <2>2 DEF TakeIn, receive, Ledger
    <3> HIDE DEF B, S
    <3>2. (B + a) * S = B * S + S * a /\ B * (S + s) = B * S + B * s
      BY <2>1
    <3>3. B * S \in Nat /\ S * a \in Nat /\ B * s \in Nat
      BY <2>1
    <3> QED
      BY <2>2, <3>1, <3>2, <3>3
  <2>3. ASSUME NEW u \in LPs, NEW a \in Nat, NEW s \in Nat, TakeOut(u, a, s),
               S * a <= B * s
        PROVE  (vault'.balance + 1) * S >= B * (supply' + VirtualShares)
    <3>1. vault'.balance + 1 = B - a /\ supply' + VirtualShares = S - s
      BY <2>1, <2>3 DEF TakeOut, Ledger
    <3> HIDE DEF B, S
    <3>2. (B - a) * S = B * S - S * a /\ B * (S - s) = B * S - B * s
      BY <2>1
    <3>3. B * S \in Nat /\ S * a \in Nat /\ B * s \in Nat
      BY <2>1
    <3> QED
      BY <2>3, <3>1, <3>2, <3>3
  <2>4. ASSUME NEW u \in LPs, NEW a \in Amounts, Deposit(u, a)
        PROVE  (vault'.balance + 1) * S >= B * (supply' + VirtualShares)
    BY <2>1, <2>2, <2>4, ConversionsTyped, ConversionsRound DEF Deposit
  <2>5. ASSUME NEW u \in LPs, NEW a \in Amounts, Withdraw(u, a)
        PROVE  (vault'.balance + 1) * S >= B * (supply' + VirtualShares)
    BY <2>1, <2>3, <2>5, ConversionsTyped, ConversionsRound DEF Withdraw
  <2>6. ASSUME NEW u \in LPs, NEW s \in ShareAmounts, Mint(u, s)
        PROVE  (vault'.balance + 1) * S >= B * (supply' + VirtualShares)
    BY <2>1, <2>2, <2>6, ConversionsTyped, ConversionsRound DEF Mint
  <2>7. ASSUME NEW u \in LPs, NEW s \in ShareAmounts, Redeem(u, s)
        PROVE  (vault'.balance + 1) * S >= B * (supply' + VirtualShares)
    BY <2>1, <2>3, <2>7, ConversionsTyped, ConversionsRound DEF Redeem
  <2> QED
    BY <1>1, <2>4, <2>5, <2>6, <2>7
       DEF VaultNext, LPStep, VaultAdminStep, Transfer, ClaimFees, SetCooldown,
           VaultPause, VaultUnpause, PMCall, ReceiveUsdc, Tick, lpVars, vaultVars
<1>2. VaultInv /\ [VaultNext]_vaultVars
        => [supply' # supply
              => (vault'.balance + 1) * (supply + VirtualShares)
                   >= (vault.balance + 1) * (supply' + VirtualShares)]_vaultVars
  BY <1>1
<1> QED
  BY <1>2, VaultAlwaysInv, PTL DEF VaultSpec, NoDilution
(* A quotient is at most what its dividend is a multiple of at most; so is one
   that was rounded up.                                                      *)
LEMMA QuotientAtMost ==
    ASSUME NEW a \in Nat, NEW b \in Nat \ {0}, NEW n \in Nat, a <= b * n
    PROVE  a \div b <= n /\ (a + b - 1) \div b <= n
<1>1. /\ a \div b \in Nat /\ b * (a \div b) <= a
  BY QuotientBounds
<1> DEFINE c == a + b - 1
<1>2. /\ c \in Nat /\ c \div b \in Int /\ c % b \in 0..(b - 1)
      /\ c = b * (c \div b) + (c % b)
  OBVIOUS
<1>3. \A q \in Int : q > n => b * q >= b * n + b
  <2> SUFFICES ASSUME NEW q \in Int, q > n
               PROVE  b * q >= b * n + b
    OBVIOUS
  <2>1. q - n - 1 \in Nat /\ b * (q - n - 1) \in Nat
    OBVIOUS
  <2>2. b * q = b * n + b + b * (q - n - 1)
    OBVIOUS
  <2> QED
    BY <2>1, <2>2
<1>4. b * n \in Nat
  OBVIOUS
<1>5. a \div b <= n
  BY <1>1, <1>3, <1>4
<1>6. c \div b <= n
  <2> SUFFICES ASSUME c \div b > n PROVE FALSE
    BY <1>2
  <2>1. b * (c \div b) >= b * n + b
    BY <1>2, <1>3
  <2> HIDE DEF c
  <2>2. b * (c \div b) \in Int
    BY <1>2
  <2>3. c >= b * n + b
    BY <1>2, <1>4, <2>1, <2>2
  <2> QED
    BY <1>4, <2>3 DEF c
<1> QED
  BY <1>5, <1>6

(* What max_withdraw and max_redeem quote can be taken in full, at every exchange
   rate: rounding down twice and clamping to the free liquidity never quotes
   more shares than the account has or more assets than are free.            *)
THEOREM QuotesAlwaysExecutable == VaultSpec => []QuotesExecutable
<1>1. VaultInv => QuotesExecutable
  <2> SUFFICES ASSUME VaultInv, NEW u \in LPs
               PROVE  /\ SharesForUp(max_withdraw(u)) <= shares[u]
                      /\ max_redeem(u) <= shares[u]
                      /\ AssetsFor(max_redeem(u)) <= free_liquidity(vault)
    BY DEF QuotesExecutable
  <2> DEFINE B == vault.balance + 1
             S == supply + VirtualShares
             n == shares[u]
             w == max_withdraw(u)
             r == max_redeem(u)
  <2>1. /\ VaultTypeOK /\ n \in Nat /\ free_liquidity(vault) \in Nat
    BY FreeLiquidityBound DEF VaultInv, VaultTypeOK, FeesFunded
  <2>2. AssetsFor(n) \in Nat /\ S * AssetsFor(n) <= B * n
    BY <2>1, ConversionsTyped, ConversionsRound
  <2>3. w \in Nat /\ w <= AssetsFor(n) /\ w <= free_liquidity(vault)
    BY <2>1, <2>2 DEF max_withdraw, Least
  <2>4. r \in Nat /\ r <= SharesFor(w)
    BY <2>1, <2>3, ConversionsTyped DEF max_redeem
  <2>5. /\ B \in Nat \ {0} /\ S \in Nat \ {0}
        /\ SharesFor(w) = (w * S) \div B
        /\ SharesForUp(w) = (w * S + B - 1) \div B
        /\ AssetsFor(r) = (r * B) \div S
    BY <2>1, <2>3, <2>4, ConversionQuotients
  <2>6. B * SharesFor(w) <= S * w
    BY <2>1, <2>3, ConversionsRound
  <2> HIDE DEF B, S, n, w, r
  <2>7. w * S \in Nat /\ w * S <= B * n
    <3>1. AssetsFor(n) - w \in Nat /\ S * (AssetsFor(n) - w) \in Nat
      BY <2>2, <2>3, <2>5
    <3>2. S * AssetsFor(n) = w * S + S * (AssetsFor(n) - w)
      BY <2>2, <2>3, <2>5
    <3>3. w * S \in Nat /\ B * n \in Nat /\ S * AssetsFor(n) \in Nat
      BY <2>1, <2>2, <2>3, <2>5
    <3> QED
      BY <2>2, <3>1, <3>2, <3>3
  <2>8. SharesForUp(w) <= n /\ SharesFor(w) <= n
    BY <2>1, <2>5, <2>7, QuotientAtMost
  <2>9. SharesFor(w) \in Nat
    BY <2>1, <2>3, ConversionsTyped
  <2>10. r * B \in Nat /\ r * B <= S * w
    <3>1. SharesFor(w) - r \in Nat /\ B * (SharesFor(w) - r) \in Nat
      BY <2>4, <2>5, <2>9
    <3>2. B * SharesFor(w) = r * B + B * (SharesFor(w) - r)
      BY <2>4, <2>5, <2>9
    <3>3. r * B \in Nat /\ S * w \in Nat /\ B * SharesFor(w) \in Nat
      BY <2>3, <2>4, <2>5, <2>9
    <3> QED
      BY <2>6, <3>1, <3>2, <3>3
  <2>11. AssetsFor(r) <= w
    BY <2>3, <2>5, <2>10, QuotientAtMost
  <2>12. AssetsFor(r) \in Nat
    BY <2>1, <2>4, ConversionsTyped
  <2>13. w <= free_liquidity(vault) /\ r <= n
    BY <2>1, <2>3, <2>4, <2>8, <2>9
  <2>14. AssetsFor(r) <= free_liquidity(vault)
    BY <2>1, <2>3, <2>11, <2>12
  <2> QED
    BY <2>8, <2>13, <2>14 DEF w, r, n
<1> QED
  BY <1>1, VaultAlwaysInv, PTL

-----------------------------------------------------------------------------
(***************************************************************************)
(* The position manager                                                    *)
(***************************************************************************)

(* Arithmetic *)

LEMMA TruncDivType ==
    ASSUME NEW a \in Int, NEW b \in Nat \ {0}
    PROVE  /\ TruncDiv(a, b) \in Int
           /\ a >= 0 => TruncDiv(a, b) \in Nat
           /\ a >= 0 => TruncDiv(a, b) * b <= a
<1>1. CASE a >= 0
  BY <1>1, QuotientBounds DEF TruncDiv
<1>2. CASE a < 0
  <2>1. (-a) \in Nat /\ (-a) \div b \in Nat
    BY <1>2, QuotientBounds
  <2> QED
    BY <1>2, <2>1 DEF TruncDiv
<1> QED
  BY <1>1, <1>2

LEMMA DivisionFacts ==
    ASSUME NEW a \in Nat, NEW b \in Nat \ {0}
    PROVE  a \div b \in Nat /\ a % b \in 0..(b - 1) /\ a = b * (a \div b) + (a % b)
  OBVIOUS

LEMMA ProductType ==
    /\ \A a, b \in Int : a * b \in Int
    /\ \A a, b \in Nat : a * b \in Nat
  OBVIOUS

(* Weighted averages of naturals are naturals (update_global_avg_price), of
   integers integers; so is the average a close leaves behind.               *)
LEMMA AverageType ==
    ASSUME NEW avg \in Int, NEW n \in Nat, NEW price \in Int, NEW k \in Nat
    PROVE  /\ update_global_avg_price(avg, n, price, k) \in Int
           /\ avg >= 0 /\ price >= 0
                => update_global_avg_price(avg, n, price, k) \in Nat
           /\ remove_from_global_avg_price(avg, n, price, k) \in Nat
<1> DEFINE w == avg * n + price * k
           l == avg * n - price * k
<1>1. w \in Int /\ l \in Int /\ (avg >= 0 /\ price >= 0 => w \in Nat)
  <2>1. avg * n \in Int /\ price * k \in Int
    BY ProductType
  <2>2. avg >= 0 /\ price >= 0 => avg * n \in Nat /\ price * k \in Nat
    BY ProductType
  <2> QED
    BY <2>1, <2>2
<1>2. ASSUME n + k # 0
      PROVE  /\ TruncDiv(w, n + k) \in Int
             /\ avg >= 0 /\ price >= 0 => TruncDiv(w, n + k) \in Nat
  <2> HIDE DEF w
  <2>1. n + k \in Nat \ {0}
    BY <1>2
  <2>2. avg >= 0 /\ price >= 0 => w >= 0
    BY <1>1
  <2> QED
    BY <1>1, <2>1, <2>2, TruncDivType
<1>3. ASSUME ~(n - k <= 0), ~(l <= 0)
      PROVE  TruncDiv(l, n - k) \in Nat
  <2> HIDE DEF l
  <2>1. n - k \in Nat \ {0} /\ l >= 0
    BY <1>1, <1>3
  <2> QED
    BY <1>1, <2>1, TruncDivType
<1>4. /\ update_global_avg_price(avg, n, price, k) \in Int
      /\ avg >= 0 /\ price >= 0 => update_global_avg_price(avg, n, price, k) \in Nat
  <2> HIDE DEF w
  <2>1. update_global_avg_price(avg, n, price, k)
          = CASE n + k = 0 -> 0
              [] n + k # 0 /\ n = 0 -> price
              [] OTHER -> TruncDiv(w, n + k)
    BY DEF update_global_avg_price, w
  <2>2. CASE n + k = 0
    BY <2>1, <2>2
  <2>3. CASE n + k # 0 /\ n = 0
    BY <2>1, <2>3
  <2>4. CASE n + k # 0 /\ n # 0
    BY <1>2, <2>1, <2>4
  <2> QED
    BY <2>2, <2>3, <2>4
<1>5. remove_from_global_avg_price(avg, n, price, k) \in Nat
  <2> HIDE DEF l
  <2>1. remove_from_global_avg_price(avg, n, price, k)
          = IF n - k <= 0 \/ l <= 0 THEN 0 ELSE TruncDiv(l, n - k)
    BY DEF remove_from_global_avg_price, l
  <2> QED
    BY <1>3, <2>1
<1> QED
  BY <1>4, <1>5

-----------------------------------------------------------------------------
(* Sums over the open positions *)

At(f, x) == IF x \in DOMAIN f THEN f[x] ELSE 0

(* Two functions that differ at `x` only, which may be in the domain of one, of
   both or of none.                                                          *)
DifferAt(f, h, x) ==
    /\ DOMAIN f \ {x} = DOMAIN h \ {x}
    /\ \A y \in DOMAIN f \ {x} : f[y] = h[y]

(* The units of all but one, and of the one. *)
LEMMA TotalSplit ==
    ASSUME NEW D, NEW f \in [D -> Nat], NEW x,
           NEW R, R = UNION {{y} \X (1..f[y]) : y \in D \ {x}}
    PROVE  /\ IsFiniteSet(R) <=> IsFiniteSet(Units(f))
           /\ IsFiniteSet(R) => Total(f) = Cardinality(R) + At(f, x)
           /\ IsFiniteSet(R) => Cardinality(R) \in Nat /\ At(f, x) \in Nat
<1> DEFINE n == At(f, x)
           Own == {x} \X (1..n)
<1>1. n \in Nat
  BY DEF At
<1>2. Units(f) = R \cup Own
  <2>1. CASE x \in D
    <3>1. n = f[x]
      BY <2>1 DEF At
    <3>2. Units(f) = UNION {{y} \X (1..f[y]) : y \in D}
      BY DEF Units
    <3>3. Units(f) \subseteq R \cup Own
      <4> SUFFICES ASSUME NEW e \in Units(f)
                   PROVE  e \in R \/ e \in Own
        OBVIOUS
      <4>1. PICK y \in D : e \in {y} \X (1..f[y])
        BY <3>2
      <4> QED
        BY <3>1, <4>1
    <3>4. R \subseteq Units(f)
      BY <3>2
    <3>5. Own \subseteq Units(f)
      BY <2>1, <3>1, <3>2
    <3> QED
      BY <3>3, <3>4, <3>5
  <2>2. CASE x \notin D
    <3>1. n = 0 /\ Own = {}
      BY <2>2 DEF At
    <3>2. D \ {x} = D
      BY <2>2
    <3> QED
      BY <3>1, <3>2 DEF Units
  <2> QED
    BY <2>1, <2>2
<1>3. R \cap Own = {}
  <2> SUFFICES ASSUME NEW e, e \in R, e \in Own
               PROVE  FALSE
    OBVIOUS
  <2>1. PICK y \in D \ {x} : e \in {y} \X (1..f[y])
    OBVIOUS
  <2> QED
    BY <2>1
<1>4. IsFiniteSet(Own) /\ Cardinality(Own) = n
  <2> DEFINE I == 1..n
  <2>1. IsFiniteSet(I) /\ Cardinality(I) = n
    <3>1. (1 > n <=> n = 0) /\ n - 1 + 1 = n
      BY <1>1
    <3> HIDE DEF n
    <3> QED
      BY <1>1, <3>1, FS_Interval
  <2>2. IsFiniteSet({x}) /\ Cardinality({x}) = 1
    BY FS_Singleton
  <2> HIDE DEF I
  <2>3. /\ IsFiniteSet({x} \X I)
        /\ Cardinality({x} \X I) = Cardinality({x}) * Cardinality(I)
    BY <2>1, <2>2, FS_Product, Zenon
  <2>4. Own = {x} \X I /\ 1 * n = n
    BY <1>1 DEF I
  <2> QED
    BY <2>1, <2>2, <2>3, <2>4
<1> HIDE DEF Own, n
<1>5. IsFiniteSet(R) <=> IsFiniteSet(Units(f))
  <2>1. R \subseteq Units(f)
    BY <1>2
  <2> QED
    BY <1>2, <1>4, <2>1, FS_Subset, FS_Union
<1>6. ASSUME IsFiniteSet(R)
      PROVE  Total(f) = Cardinality(R) + n /\ Cardinality(R) \in Nat
  <2>1. Cardinality(R \cup Own)
          = Cardinality(R) + Cardinality(Own) - Cardinality(R \cap Own)
    BY <1>4, <1>6, FS_Union
  <2>2. Cardinality(R \cap Own) = 0 /\ Cardinality(R) \in Nat
    BY <1>3, <1>6, FS_EmptySet, FS_CardinalityType
  <2> QED
    BY <1>1, <1>2, <1>4, <2>1, <2>2 DEF Total
<1> QED
  BY <1>1, <1>5, <1>6 DEF n

(* A sum changes by what changes at the one place where its function does. *)
LEMMA TotalChange ==
    ASSUME NEW D, NEW E, NEW f \in [D -> Nat], NEW h \in [E -> Nat], NEW x,
           DifferAt(f, h, x), IsFiniteSet(Units(f))
    PROVE  /\ IsFiniteSet(Units(h))
           /\ Total(f) \in Nat /\ Total(h) \in Nat
           /\ At(f, x) \in Nat /\ At(h, x) \in Nat
           /\ At(f, x) <= Total(f)
           /\ Total(h) = Total(f) - At(f, x) + At(h, x)
<1> DEFINE R == UNION {{y} \X (1..f[y]) : y \in D \ {x}}
           Q == UNION {{y} \X (1..h[y]) : y \in E \ {x}}
<1>1. D \ {x} = E \ {x} /\ \A y \in D \ {x} : f[y] = h[y]
  BY DEF DifferAt
<1>2. R = Q
  <2>1. R \subseteq Q
    BY <1>1
  <2>2. Q \subseteq R
    BY <1>1
  <2> QED
    BY <2>1, <2>2
<1> HIDE DEF R, Q
<1>3. /\ IsFiniteSet(R) <=> IsFiniteSet(Units(f))
      /\ IsFiniteSet(R) => Total(f) = Cardinality(R) + At(f, x)
      /\ IsFiniteSet(R) => Cardinality(R) \in Nat /\ At(f, x) \in Nat
  BY TotalSplit DEF R
<1>4. /\ IsFiniteSet(Q) <=> IsFiniteSet(Units(h))
      /\ IsFiniteSet(Q) => Total(h) = Cardinality(Q) + At(h, x)
      /\ IsFiniteSet(Q) => Cardinality(Q) \in Nat /\ At(h, x) \in Nat
  BY TotalSplit DEF Q
<1> QED
  BY <1>2, <1>3, <1>4

(* No summand exceeds the sum. *)
LEMMA SummandWithinTotal ==
    ASSUME NEW D, NEW f \in [D -> Nat], NEW x, IsFiniteSet(Units(f))
    PROVE  At(f, x) <= Total(f)
<1>1. DifferAt(f, f, x)
  BY DEF DifferAt
<1> QED
  BY <1>1, TotalChange

(* Nothing of nothing. *)
LEMMA TotalEmpty ==
    ASSUME NEW f, DOMAIN f = {}
    PROVE  IsFiniteSet(Units(f)) /\ Total(f) = 0
<1>1. Units(f) = {}
  BY DEF Units
<1> QED
  BY <1>1, FS_EmptySet DEF Total

-----------------------------------------------------------------------------
(* The vault's ledger under the calls of one transaction *)

Funded(v) == v \in Ledger /\ v.unclaimed_fees <= v.balance

(* USDC that arrives, and fees accrued on it. *)
LEMMA ReceiveKeepsFunded ==
    ASSUME NEW v, Funded(v), NEW a \in Nat
    PROVE  /\ Funded(receive(v, a))
           /\ receive(v, a).balance = v.balance + a
           /\ receive(v, a).reserved_usdc = v.reserved_usdc
           /\ receive(v, a).unclaimed_fees = v.unclaimed_fees
           /\ Solvent(v) => Solvent(receive(v, a))
  BY DEF Funded, receive, Ledger, Solvent

LEMMA AccrueKeepsFunded ==
    ASSUME NEW v, Funded(v), NEW a \in Nat, CanAccrue(v, a)
    PROVE  /\ Funded(accrue_fees(v, a))
           /\ accrue_fees(v, a).reserved_usdc = v.reserved_usdc
           /\ accrue_fees(v, a).unclaimed_fees = v.unclaimed_fees + a
           /\ accrue_fees(v, a).balance = v.balance
           /\ Solvent(accrue_fees(v, a))
  BY DEF Funded, accrue_fees, CanAccrue, Ledger, Solvent

LEMMA PayKeepsFunded ==
    ASSUME NEW v, Funded(v), NEW a \in Nat, CanPayProfit(v, a)
    PROVE  /\ Funded(pay_profit(v, a))
           /\ pay_profit(v, a).reserved_usdc = v.reserved_usdc
           /\ Solvent(pay_profit(v, a))
<1>1. /\ v \in Ledger /\ free_liquidity(v) \in Nat
      /\ free_liquidity(v) <= v.balance - v.unclaimed_fees
      /\ free_liquidity(v) > 0
           => free_liquidity(v) <= v.balance - v.reserved_usdc - v.unclaimed_fees
  BY FreeLiquidityBound DEF Funded
<1> QED
  BY <1>1 DEF Funded, pay_profit, CanPayProfit, Ledger, Solvent

LEMMA ReleaseKeepsFunded ==
    ASSUME NEW v, Funded(v), NEW a \in Nat, CanRelease(v, a)
    PROVE  /\ Funded(release_liquidity(v, a))
           /\ release_liquidity(v, a).reserved_usdc = v.reserved_usdc - a
           /\ Solvent(v) => Solvent(release_liquidity(v, a))
  BY DEF Funded, release_liquidity, CanRelease, Ledger, Solvent

LEMMA ReserveKeepsFunded ==
    ASSUME NEW v, Funded(v), NEW a \in Nat
    PROVE  /\ Funded(reserve_liquidity(v, a))
           /\ reserve_liquidity(v, a).reserved_usdc = v.reserved_usdc + a
           /\ reserve_liquidity(v, a).balance = v.balance
           /\ reserve_liquidity(v, a).unclaimed_fees = v.unclaimed_fees
  BY DEF Funded, reserve_liquidity, Ledger

LEMMA PushKeepsFunded ==
    ASSUME NEW v, Funded(v), NEW p \in Int
    PROVE  /\ Funded(update_net_pnl(v, p))
           /\ update_net_pnl(v, p).reserved_usdc = v.reserved_usdc
           /\ Solvent(v) => Solvent(update_net_pnl(v, p))
  BY DEF Funded, update_net_pnl, Ledger, Solvent

-----------------------------------------------------------------------------
(* Types of what a transaction computes *)

(* What the validators of ConfigManager accept. *)
LEMMA ConfigType ==
    ASSUME PMTypeOK
    PROVE  /\ cfg \in Config
           /\ cfg.non_lp_bps <= BPS
           /\ cfg.max_utilization_ratio \in Nat
           /\ BPS \in Nat \ {0} /\ INDEX_PRECISION \in Nat \ {0}
           /\ SECONDS_PER_YEAR \in Nat \ {0}
  BY PositionManagerAssumption, ScaleAssumption DEF PMTypeOK, ValidConfig, Config

(* The slice of a revenue that becomes fees is a part of it. *)
LEMMA SliceType ==
    ASSUME PMTypeOK, NEW a \in Int
    PROVE  /\ NonLpSlice(a) \in Nat
           /\ NonLpSlice(a) <= AtLeastZero(a)
           /\ AtLeastZero(a) \in Nat
<1> DEFINE n == AtLeastZero(a)
           q == cfg.non_lp_bps
<1>1. n \in Nat /\ BPS \in Nat \ {0} /\ q \in Nat /\ q <= BPS
  BY ConfigType DEF AtLeastZero, Config
<1>2. NonLpSlice(a) = TruncDiv(n * q, BPS)
  BY DEF NonLpSlice
<1> HIDE DEF n, q
<1>3. n * q \in Nat /\ n * q <= BPS * n
  <2>1. BPS - q \in Nat /\ n * (BPS - q) \in Nat
    BY <1>1
  <2>2. BPS * n = n * q + n * (BPS - q)
    BY <1>1
  <2>3. n * q \in Nat /\ BPS * n \in Nat
    BY <1>1
  <2> QED
    BY <2>1, <2>2, <2>3
<1>4. (n * q) \div BPS <= n
  BY <1>1, <1>3, QuotientAtMost
<1>5. (n * q) \div BPS \in Nat
  BY <1>1, <1>3, QuotientBounds
<1>6. NonLpSlice(a) = (n * q) \div BPS
  BY <1>2, <1>3 DEF TruncDiv
<1> QED
  BY <1>1, <1>4, <1>5, <1>6 DEF n

(* Revenue that enters the vault, or is only sliced there. *)
LEMMA ResliceKeepsFunded ==
    ASSUME PMTypeOK, NEW v, Funded(v), NEW a \in Int, CanReslice(v, a)
    PROVE  /\ Funded(reslice_revenue(v, a))
           /\ reslice_revenue(v, a).reserved_usdc = v.reserved_usdc
           /\ reslice_revenue(v, a).balance = v.balance
           /\ reslice_revenue(v, a).unclaimed_fees \in
                  {v.unclaimed_fees, v.unclaimed_fees + NonLpSlice(a)}
           /\ Solvent(v) => Solvent(reslice_revenue(v, a))
<1>1. NonLpSlice(a) \in Nat
  BY SliceType
<1>2. CASE NonLpSlice(a) > 0
  BY <1>1, <1>2, AccrueKeepsFunded DEF CanReslice, reslice_revenue
<1>3. CASE NonLpSlice(a) = 0
  BY <1>1, <1>3 DEF reslice_revenue
<1> QED
  BY <1>1, <1>2, <1>3

LEMMA RevenueKeepsFunded ==
    ASSUME PMTypeOK, NEW v, Funded(v), NEW a \in Int, CanRecvRevenue(v, a)
    PROVE  /\ Funded(recv_revenue(v, a))
           /\ recv_revenue(v, a).reserved_usdc = v.reserved_usdc
           /\ recv_revenue(v, a).balance - recv_revenue(v, a).unclaimed_fees
                >= v.balance - v.unclaimed_fees
           /\ Solvent(v) => Solvent(recv_revenue(v, a))
<1> DEFINE w == receive(v, AtLeastZero(a))
<1>1. AtLeastZero(a) \in Nat /\ NonLpSlice(a) \in Nat
      /\ NonLpSlice(a) <= AtLeastZero(a)
  BY SliceType
<1>2. /\ Funded(w) /\ w.reserved_usdc = v.reserved_usdc
      /\ w.balance = v.balance + AtLeastZero(a)
      /\ w.unclaimed_fees = v.unclaimed_fees
      /\ Solvent(v) => Solvent(w)
  BY <1>1, ReceiveKeepsFunded
<1>3. /\ CanReslice(w, a) /\ recv_revenue(v, a) = reslice_revenue(w, a)
  BY DEF CanRecvRevenue, recv_revenue
<1> HIDE DEF w
<1>4. /\ Funded(reslice_revenue(w, a))
      /\ reslice_revenue(w, a).reserved_usdc = w.reserved_usdc
      /\ reslice_revenue(w, a).balance = w.balance
      /\ reslice_revenue(w, a).unclaimed_fees \in
             {w.unclaimed_fees, w.unclaimed_fees + NonLpSlice(a)}
      /\ Solvent(w) => Solvent(reslice_revenue(w, a))
  BY <1>2, <1>3, ResliceKeepsFunded
<1>5. v.balance \in Nat /\ v.unclaimed_fees \in Nat
  BY DEF Funded, Ledger
<1> QED
  BY <1>1, <1>2, <1>3, <1>4, <1>5

(* A market as read, and the window of seconds a refresh of it bills. *)
LEMMA WindowType ==
    ASSUME PMInv, NEW s \in Symbols
    PROVE  /\ get_market(s) \in Market
           /\ get_market(s).last_index_update <= now
           /\ effective_start(s) \in Nat /\ effective_now(s) \in Nat
           /\ time_delta(s) \in Nat
           /\ effective_start(s) >= get_market(s).last_index_update
           /\ effective_start(s) >= last_unpause_time
           /\ time_delta(s) > 0 => effective_now(s) <= now
           /\ time_delta(s) > 0 => effective_start(s) < effective_now(s)
           /\ time_delta(s) = 0 => effective_start(s) >= effective_now(s)
           /\ time_delta(s) > 0 /\ pm_paused => effective_now(s) <= last_pause_time
           /\ s \notin DOMAIN markets => time_delta(s) = 0
<1>1. /\ now \in Nat /\ last_unpause_time \in Nat /\ last_pause_time \in Nat
      /\ pm_paused \in BOOLEAN
  BY DEF PMInv, PMTypeOK, VaultTypeOK
<1>2. FreshMarket \in Market /\ FreshMarket.last_index_update = now
  BY <1>1, ScaleAssumption DEF FreshMarket, Market
<1>3. ASSUME s \in DOMAIN markets
      PROVE  markets[s] \in Market /\ markets[s].last_index_update <= now
  BY <1>3 DEF PMInv, PMTypeOK, PausesBehindClamps
<1>4. /\ get_market(s) \in Market /\ get_market(s).last_index_update <= now
      /\ s \notin DOMAIN markets => get_market(s).last_index_update = now
  BY <1>1, <1>2, <1>3 DEF get_market
<1>5. get_market(s).last_index_update \in Nat
  BY <1>4 DEF Market
<1>6. /\ effective_start(s) \in Nat
      /\ effective_start(s) >= get_market(s).last_index_update
      /\ effective_start(s) >= last_unpause_time
  BY <1>1, <1>5 DEF effective_start, Greatest
<1>7. /\ ~pm_paused => effective_now(s) = now
      /\ pm_paused /\ last_pause_time > 0
           => effective_now(s) = Least(now, last_pause_time)
      /\ pm_paused /\ ~(last_pause_time > 0) => effective_now(s) = effective_start(s)
  BY <1>1, Zenon DEF effective_now
<1>8. /\ effective_now(s) \in Nat
      /\ effective_now(s) <= now \/ effective_now(s) = effective_start(s)
      /\ pm_paused => effective_now(s) <= last_pause_time
                        \/ effective_now(s) = effective_start(s)
  BY <1>1, <1>6, <1>7 DEF Least
<1>9. /\ time_delta(s) = IF effective_now(s) - effective_start(s) < 0 THEN 0
                         ELSE effective_now(s) - effective_start(s)
  BY DEF time_delta, AtLeastZero
<1> QED
  BY <1>1, <1>4, <1>5, <1>6, <1>8, <1>9

(* Borrowing costs are never negative, so the borrow index only grows. *)
LEMMA RatesType ==
    ASSUME PMInv, NEW m \in Market
    PROVE  borrow_rate \in Nat /\ funding_rate(m) \in Int
<1>1. /\ vault.reserved_usdc \in Nat /\ total_assets_excl_pnl(vault) \in Nat
      /\ cfg \in Config /\ BPS \in Nat \ {0}
  <2>1. PMTypeOK /\ vault \in Ledger
    BY DEF PMInv, PMTypeOK, VaultTypeOK
  <2> QED
    BY <2>1, ConfigType DEF Ledger, total_assets_excl_pnl, AtLeastZero
<1> DEFINE u == utilization_bps
<1>2. u \in Nat
  <2>1. vault.reserved_usdc * BPS \in Nat
    BY <1>1
  <2>2. CASE total_assets_excl_pnl(vault) <= 0
    BY <1>1, <2>2 DEF utilization_bps, calc_utilization_bps
  <2>3. CASE ~(total_assets_excl_pnl(vault) <= 0)
    <3>1. total_assets_excl_pnl(vault) \in Nat \ {0}
      BY <1>1, <2>3
    <3>2. TruncDiv(vault.reserved_usdc * BPS, total_assets_excl_pnl(vault)) \in Nat
      BY <2>1, <3>1, TruncDivType
    <3> QED
      BY <2>3, <3>2 DEF utilization_bps, calc_utilization_bps
  <2> QED
    BY <2>2, <2>3
<1> HIDE DEF u
<1> DEFINE base == cfg.base_borrow_rate_bps
           s1 == cfg.slope1_bps
           s2 == cfg.slope2_bps
           opt == cfg.optimal_utilization_bps
<1>3. base \in Nat /\ s1 \in Nat /\ s2 \in Nat /\ opt \in Nat
  BY <1>1 DEF Config
<1>4. borrow_rate = IF u <= opt THEN base + TruncDiv(u * s1, BPS)
                    ELSE base + TruncDiv(opt * s1, BPS) + TruncDiv((u - opt) * s2, BPS)
  BY DEF borrow_rate, calc_borrow_rate, u
<1> HIDE DEF base, s1, s2, opt
<1>5. TruncDiv(u * s1, BPS) \in Nat /\ TruncDiv(opt * s1, BPS) \in Nat
  <2>1. u * s1 \in Nat /\ opt * s1 \in Nat
    BY <1>2, <1>3
  <2> QED
    BY <1>1, <2>1, TruncDivType
<1>6. u > opt => TruncDiv((u - opt) * s2, BPS) \in Nat
  <2> SUFFICES ASSUME u > opt
               PROVE  TruncDiv((u - opt) * s2, BPS) \in Nat
    OBVIOUS
  <2>1. u - opt \in Nat
    BY <1>2, <1>3
  <2>2. (u - opt) * s2 \in Nat
    BY <1>3, <2>1, ProductType
  <2> QED
    BY <1>1, <2>2, TruncDivType
<1>7. borrow_rate \in Nat
  BY <1>2, <1>3, <1>4, <1>5, <1>6
<1>8. funding_rate(m) \in Int
  <2> DEFINE lo == m.oi["long"]
             so == m.oi["short"]
             f == cfg.base_funding_rate_bps
  <2>1. lo \in Nat /\ so \in Nat /\ f \in Nat
    BY <1>1 DEF Market, Sides, Config
  <2>2. funding_rate(m) = IF lo + so = 0 THEN 0 ELSE TruncDiv((lo - so) * f, lo + so)
    BY DEF funding_rate, calc_funding_rate
  <2> HIDE DEF lo, so, f
  <2>3. lo - so \in Int /\ (lo - so) * f \in Int
    <3>1. lo - so \in Int
      BY <2>1
    <3> QED
      BY <2>1, <3>1, ProductType
  <2>4. lo + so # 0 => lo + so \in Nat \ {0}
    BY <2>1
  <2> QED
    BY <2>2, <2>3, <2>4, TruncDivType
<1> QED
  BY <1>7, <1>8

(* A refresh leaves averages and open interest alone, and dates the market no
   later than now.                                                           *)
LEMMA RefreshedType ==
    ASSUME PMInv, NEW s \in Symbols
    PROVE  /\ Refreshed(s) \in Market
           /\ Refreshed(s).oi = get_market(s).oi
           /\ Refreshed(s).last_index_update
                = IF time_delta(s) = 0 THEN get_market(s).last_index_update
                  ELSE effective_now(s)
<1> DEFINE m == get_market(s)
           d == time_delta(s)
           e == effective_now(s)
           k == BPS * SECONDS_PER_YEAR
<1>1. m \in Market /\ d \in Nat /\ e \in Nat
  BY WindowType
<1>2. borrow_rate \in Nat /\ funding_rate(m) \in Int
  BY <1>1, RatesType
<1>3. BPS \in Nat \ {0} /\ INDEX_PRECISION \in Nat \ {0} /\ SECONDS_PER_YEAR \in Nat \ {0}
  BY ScaleAssumption
<1>4. k \in Nat \ {0}
  BY <1>3
<1> DEFINE bi == accumulate_index(m.borrow_index, borrow_rate, d)
           fi == accumulate_index(m.funding_index, funding_rate(m), d)
<1> HIDE DEF m, d, e, k
<1>5. bi \in Nat
  <2>1. borrow_rate * INDEX_PRECISION \in Nat
    BY <1>2, <1>3, ProductType
  <2>2. borrow_rate * INDEX_PRECISION * d \in Nat
    BY <1>1, <2>1, ProductType
  <2>3. TruncDiv(borrow_rate * INDEX_PRECISION * d, k) \in Nat
    BY <1>4, <2>2, TruncDivType
  <2> QED
    BY <1>1, <2>3 DEF accumulate_index, k, Market
<1>6. fi \in Int
  <2>1. funding_rate(m) * INDEX_PRECISION \in Int
    BY <1>2, <1>3, ProductType
  <2>2. funding_rate(m) * INDEX_PRECISION * d \in Int
    BY <1>1, <2>1, ProductType
  <2>3. TruncDiv(funding_rate(m) * INDEX_PRECISION * d, k) \in Int
    BY <1>4, <2>2, TruncDivType
  <2> QED
    BY <1>1, <2>3 DEF accumulate_index, k, Market
<1>7. Refreshed(s) = IF d = 0 THEN m
                     ELSE [m EXCEPT !.borrow_index = bi, !.funding_index = fi,
                                    !.last_index_update = e]
  BY DEF Refreshed, m, d, e
<1> HIDE DEF bi, fi
<1>8. [m EXCEPT !.borrow_index = bi, !.funding_index = fi, !.last_index_update = e]
        = [avg |-> m.avg, oi |-> m.oi, borrow_index |-> bi, funding_index |-> fi,
           last_index_update |-> e]
  <2> DEFINE m1 == [m EXCEPT !.borrow_index = bi]
             m2 == [m1 EXCEPT !.funding_index = fi]
  <2>1. m1 = [avg |-> m.avg, oi |-> m.oi, borrow_index |-> bi,
              funding_index |-> m.funding_index,
              last_index_update |-> m.last_index_update]
    BY <1>1 DEF Market
  <2>2. [m EXCEPT !.borrow_index = bi, !.funding_index = fi, !.last_index_update = e]
          = [m2 EXCEPT !.last_index_update = e]
    OBVIOUS
  <2> HIDE DEF m1
  <2>3. m2 = [avg |-> m.avg, oi |-> m.oi, borrow_index |-> bi, funding_index |-> fi,
              last_index_update |-> m.last_index_update]
    BY <2>1
  <2> HIDE DEF m2
  <2> QED
    BY <2>2, <2>3
<1> QED
  BY <1>1, <1>5, <1>6, <1>7, <1>8 DEF Market, m, d, e

(* The PnL, fees and health of a position, or of a slice of one. *)
LEMMA EvaluateType ==
    ASSUME PMTypeOK, NEW p \in Position, NEW m \in Market, NEW mark \in Nat,
           NEW size \in Nat, NEW coll \in Int
    PROVE  LET e == evaluate(p, m, mark, size, coll)
           IN  /\ e.pnl \in Int /\ e.borrow_fee \in Int /\ e.effective_funding \in Int
               /\ e.funding_protocol_cut \in Int /\ e.effective_health \in Int
<1> DEFINE is_long == p.side = "long"
           pnl     == calc_unrealized_pnl(size, p.entry_price, mark, is_long)
           borrow  == calc_borrow_fee(size, p.entry_borrow_index, m.borrow_index)
           raw     == calc_funding_fee(size, p.entry_funding_index, m.funding_index,
                                       is_long)
           scaled  == ZeroSum(m, p.side, raw)
           cut     == IF scaled > 0 THEN TruncDiv(scaled * cfg.funding_cut_bps, BPS)
                      ELSE 0
<1>1. /\ p.entry_price \in Nat /\ p.entry_borrow_index \in Nat
      /\ p.entry_funding_index \in Int /\ p.side \in Sides
      /\ m.borrow_index \in Nat /\ m.funding_index \in Int
      /\ m.oi[p.side] \in Nat /\ m.oi[Other(p.side)] \in Nat
      /\ cfg.funding_cut_bps \in Nat /\ BPS \in Nat \ {0} /\ INDEX_PRECISION \in Nat \ {0}
  BY ConfigType DEF Position, Market, Config, Sides, Other
<1>2. pnl \in Int
  <2> DEFINE move == IF is_long THEN mark - p.entry_price ELSE p.entry_price - mark
  <2>1. move \in Int
    BY <1>1
  <2>2. pnl = IF p.entry_price = 0 \/ size = 0 THEN 0
              ELSE TruncDiv(size * move, p.entry_price)
    BY DEF calc_unrealized_pnl
  <2> HIDE DEF move
  <2>3. size * move \in Int
    BY <2>1, ProductType
  <2> QED
    BY <1>1, <2>2, <2>3, TruncDivType
<1>3. borrow \in Int
  <2> DEFINE d == m.borrow_index - p.entry_borrow_index
  <2>1. d \in Int
    BY <1>1
  <2> HIDE DEF d
  <2>2. d * size \in Int
    BY <2>1, ProductType
  <2>3. TruncDiv(d * size, INDEX_PRECISION) \in Int
    BY <1>1, <2>2, TruncDivType
  <2> QED
    BY <2>3 DEF calc_borrow_fee, d
<1>4. raw \in Int
  <2> DEFINE d == m.funding_index - p.entry_funding_index
  <2>1. d \in Int
    BY <1>1
  <2> HIDE DEF d
  <2>2. d * size \in Int
    BY <2>1, ProductType
  <2>3. TruncDiv(d * size, INDEX_PRECISION) \in Int
    BY <1>1, <2>2, TruncDivType
  <2> QED
    BY <2>3 DEF calc_funding_fee, d
<1> HIDE DEF raw
<1>5. scaled \in Int
  <2> DEFINE own == m.oi[p.side]
             other == m.oi[Other(p.side)]
  <2>1. own \in Nat /\ other \in Nat
    BY <1>1
  <2>2. scaled = IF raw <= 0 \/ other >= own
                 THEN IF raw > 0 /\ own <= 0 THEN 0 ELSE raw
                 ELSE TruncDiv(raw * other, own)
    BY DEF ZeroSum
  <2> HIDE DEF own, other
  <2>3. raw * other \in Int
    BY <1>4, <2>1, ProductType
  <2>4. ~(raw <= 0 \/ other >= own) => TruncDiv(raw * other, own) \in Int
    <3>1. ~(raw <= 0 \/ other >= own) => own \in Nat \ {0}
      BY <2>1
    <3> QED
      BY <2>3, <3>1, TruncDivType
  <2> QED
    BY <1>4, <2>2, <2>4
<1> HIDE DEF scaled
<1>6. cut \in Int
  <2>1. scaled * cfg.funding_cut_bps \in Int
    BY <1>1, <1>5, ProductType
  <2>2. TruncDiv(scaled * cfg.funding_cut_bps, BPS) \in Int
    BY <1>1, <2>1, TruncDivType
  <2> QED
    BY <2>2
<1>7. evaluate(p, m, mark, size, coll)
        = [pnl |-> pnl, borrow_fee |-> borrow, effective_funding |-> scaled - cut,
           funding_protocol_cut |-> cut,
           effective_health |-> calc_health(coll, pnl, borrow, scaled - cut)]
  BY DEF evaluate, scaled, raw
<1> HIDE DEF pnl, borrow, cut
<1> QED
  BY <1>2, <1>3, <1>5, <1>6, <1>7 DEF calc_health

(* A close that goes through leaves the vault's fees funded and its reservation
   smaller by the size closed, and a solvent vault solvent: payouts stop short of
   reservations and fees, and fees are only accrued on what stays free.      *)
LEMMA SettleKeepsFunded ==
    ASSUME PMTypeOK, Funded(vault), NEW p \in Position, NEW m \in Market,
           NEW mark \in Nat, NEW size \in Nat \ {0}, NEW coll \in Nat, NEW kind,
           settle(p, m, mark, size, coll, kind).ok
    PROVE  LET o == settle(p, m, mark, size, coll, kind)
           IN  /\ Funded(o.ledger)
               /\ size <= vault.reserved_usdc
               /\ o.ledger.reserved_usdc = vault.reserved_usdc - size
               /\ o.pm_out = coll + escrow_settled(p, size, kind)
               /\ o.pm_out \in Nat /\ o.pm_out <= pm_balance
               /\ o.net_economic_pnl \in Int
               /\ Solvent(vault) => Solvent(o.ledger)
<1> DEFINE e == evaluate(p, m, mark, size, coll)
           trader_payout   == AtLeastZero(e.effective_health)
           vault_to_trader == AtLeastZero(trader_payout - coll)
           pm_to_vault     == AtLeastZero(coll - trader_payout)
           bounty == IF kind = "Liquidation"
                     THEN Least(calc_liquidation_bounty(coll, cfg.liquidation_bounty_bps),
                                pm_to_vault)
                     ELSE 0
           vault_absorbed  == pm_to_vault - bounty
           total_fees      == e.borrow_fee + e.funding_protocol_cut
           distributable_fees == IF trader_payout > 0 THEN total_fees
                                 ELSE Least(total_fees, vault_absorbed)
           escrow    == escrow_settled(p, size, kind)
           forfeited == IF kind = "Liquidation" THEN escrow ELSE 0
           released  == release_liquidity(vault, size)
           paid      == pay_profit(released, vault_to_trader)
           absorbed  == receive(paid, vault_absorbed)
           resliced  == reslice_revenue(absorbed, distributable_fees)
           o == settle(p, m, mark, size, coll, kind)
<1>1. /\ o.ok <=> /\ CanRelease(vault, size)
                  /\ vault_to_trader > 0 => CanPayProfit(released, vault_to_trader)
                  /\ CanReslice(absorbed, distributable_fees)
                  /\ CanRecvRevenue(resliced, forfeited)
                  /\ coll + escrow <= pm_balance
      /\ o.ledger = recv_revenue(resliced, forfeited)
      /\ o.pm_out = coll + escrow
      /\ o.net_economic_pnl = e.pnl - e.borrow_fee + e.effective_funding
  BY DEF settle
<1>2. /\ e.pnl \in Int /\ e.borrow_fee \in Int /\ e.effective_funding \in Int
      /\ e.funding_protocol_cut \in Int /\ e.effective_health \in Int
  BY EvaluateType
<1> HIDE DEF o, e
<1>3. trader_payout \in Nat /\ vault_to_trader \in Nat /\ pm_to_vault \in Nat
  BY <1>2 DEF AtLeastZero
<1> HIDE DEF trader_payout, vault_to_trader, pm_to_vault
<1>4. vault_absorbed \in Nat
  <2> DEFINE b == cfg.liquidation_bounty_bps
             owed == calc_liquidation_bounty(coll, b)
  <2>1. b \in Nat /\ BPS \in Nat \ {0}
    BY ConfigType DEF Config
  <2> HIDE DEF b
  <2>2. coll * b \in Nat
    BY <2>1, ProductType
  <2>3. owed \in Nat
    BY <2>1, <2>2, TruncDivType DEF calc_liquidation_bounty
  <2>4. bounty = IF kind = "Liquidation" THEN Least(owed, pm_to_vault) ELSE 0
    BY DEF b
  <2> HIDE DEF owed, bounty
  <2>5. bounty \in Nat /\ bounty <= pm_to_vault
    BY <1>3, <2>3, <2>4 DEF Least
  <2> QED
    BY <1>3, <2>5
<1> HIDE DEF vault_absorbed
<1>5. total_fees \in Int /\ distributable_fees \in Int
  BY <1>2, <1>4 DEF Least
<1>6. escrow \in Nat /\ forfeited \in Nat
  <2>1. p.execution_fee_escrow \in Nat
    BY DEF Position
  <2> QED
    BY <2>1 DEF escrow_settled
<1> HIDE DEF total_fees, distributable_fees, escrow, forfeited
<1>7. /\ CanRelease(vault, size)
      /\ Funded(released) /\ released.reserved_usdc = vault.reserved_usdc - size
      /\ Solvent(vault) => Solvent(released)
  BY <1>1, ReleaseKeepsFunded DEF o
<1> HIDE DEF released
<1>8. /\ Funded(paid) /\ paid.reserved_usdc = released.reserved_usdc
      /\ Solvent(released) => Solvent(paid)
  <2>1. CASE vault_to_trader > 0
    BY <1>1, <1>3, <1>7, <2>1, PayKeepsFunded DEF o
  <2>2. CASE vault_to_trader = 0
    <3>1. paid = released
      BY <1>7, <2>2 DEF pay_profit, Funded, Ledger
    <3> QED
      BY <1>7, <3>1
  <2> QED
    BY <1>3, <2>1, <2>2
<1> HIDE DEF paid
<1>9. /\ Funded(absorbed) /\ absorbed.reserved_usdc = paid.reserved_usdc
      /\ Solvent(paid) => Solvent(absorbed)
  BY <1>4, <1>8, ReceiveKeepsFunded
<1> HIDE DEF absorbed
<1>10. /\ Funded(resliced) /\ resliced.reserved_usdc = absorbed.reserved_usdc
       /\ Solvent(absorbed) => Solvent(resliced)
  BY <1>1, <1>5, <1>9, ResliceKeepsFunded DEF o
<1> HIDE DEF resliced
<1>11. /\ Funded(o.ledger) /\ o.ledger.reserved_usdc = resliced.reserved_usdc
       /\ Solvent(resliced) => Solvent(o.ledger)
  <2>1. CanRecvRevenue(resliced, forfeited)
    BY <1>1 DEF o
  <2> QED
    BY <1>1, <1>6, <1>10, <2>1, RevenueKeepsFunded
<1>12. size <= vault.reserved_usdc
  BY <1>7 DEF CanRelease
<1>13. o.pm_out \in Nat /\ o.pm_out <= pm_balance
  BY <1>1, <1>6 DEF o
<1> QED
  BY <1>1, <1>2, <1>7, <1>8, <1>9, <1>10, <1>11, <1>12, <1>13 DEF o, escrow

(* A close that pays nothing out goes through in a solvent vault when the gain
   before fees is within the reservation that the close releases.  What the
   vault takes in is then at least the fees less the size, and only a part of the
   fees is accrued; when the collateral does not cover them, no more than what the
   vault takes in is sliced.                                                 *)
LEMMA SettleGoesThrough ==
    ASSUME PMTypeOK, Funded(vault), Solvent(vault), NEW p \in Position, NEW m \in Market,
           NEW mark \in Nat, NEW kind,
           p.size <= vault.reserved_usdc,
           p.collateral + p.execution_fee_escrow <= pm_balance,
           settle(p, m, mark, p.size, p.collateral, kind).vault_to_trader = 0,
           GainWithinReservation(p, evaluate(p, m, mark, p.size, p.collateral), kind)
    PROVE  settle(p, m, mark, p.size, p.collateral, kind).ok
<1> DEFINE size == p.size
           coll == p.collateral
           e == evaluate(p, m, mark, size, coll)
           trader_payout   == AtLeastZero(e.effective_health)
           vault_to_trader == AtLeastZero(trader_payout - coll)
           pm_to_vault     == AtLeastZero(coll - trader_payout)
           due == calc_liquidation_bounty(coll, cfg.liquidation_bounty_bps)
           bounty == IF kind = "Liquidation" THEN Least(due, pm_to_vault) ELSE 0
           vault_absorbed  == pm_to_vault - bounty
           total_fees      == e.borrow_fee + e.funding_protocol_cut
           distributable_fees == IF trader_payout > 0 THEN total_fees
                                 ELSE Least(total_fees, vault_absorbed)
           escrow    == escrow_settled(p, size, kind)
           forfeited == IF kind = "Liquidation" THEN escrow ELSE 0
           released  == release_liquidity(vault, size)
           paid      == pay_profit(released, vault_to_trader)
           absorbed  == receive(paid, vault_absorbed)
           resliced  == reslice_revenue(absorbed, distributable_fees)
           o == settle(p, m, mark, size, coll, kind)
<1>1. /\ o.ok <=> /\ CanRelease(vault, size)
                  /\ vault_to_trader > 0 => CanPayProfit(released, vault_to_trader)
                  /\ CanReslice(absorbed, distributable_fees)
                  /\ CanRecvRevenue(resliced, forfeited)
                  /\ coll + escrow <= pm_balance
      /\ o.vault_to_trader = vault_to_trader
  BY DEF settle
<1>2. /\ e.pnl \in Int /\ e.borrow_fee \in Int /\ e.effective_funding \in Int
      /\ e.funding_protocol_cut \in Int /\ e.effective_health \in Int
  <2>1. size \in Nat /\ coll \in Int
    BY DEF Position
  <2> QED
    BY <2>1, EvaluateType
<1>3. e.effective_health = coll + e.pnl - e.borrow_fee + e.effective_funding
  BY DEF evaluate, calc_health
<1>4. /\ size \in Nat \ {0} /\ coll \in Nat /\ p.execution_fee_escrow \in Nat
      /\ vault_to_trader = 0
      /\ size <= vault.reserved_usdc /\ coll + p.execution_fee_escrow <= pm_balance
  BY <1>1 DEF Position
<1>5. e.pnl + e.effective_funding + e.funding_protocol_cut
        + (IF kind = "Liquidation" THEN due ELSE 0) <= size
  BY DEF GainWithinReservation
<1> HIDE DEF o, e, size, coll
<1>6. due \in Nat
  <2> DEFINE b == cfg.liquidation_bounty_bps
  <2>1. b \in Nat /\ BPS \in Nat \ {0}
    BY ConfigType DEF Config
  <2> HIDE DEF b
  <2>2. coll * b \in Nat
    BY <1>4, <2>1, ProductType
  <2>3. calc_liquidation_bounty(coll, b) \in Nat
    BY <2>1, <2>2, TruncDivType DEF calc_liquidation_bounty
  <2> QED
    BY <2>3 DEF b
<1> HIDE DEF due
<1>7. /\ trader_payout \in Nat /\ pm_to_vault \in Nat
      /\ trader_payout > 0 => trader_payout = e.effective_health
      /\ pm_to_vault = coll - trader_payout
  BY <1>2, <1>4 DEF AtLeastZero
<1> HIDE DEF trader_payout, pm_to_vault
<1>8. /\ bounty \in Nat /\ bounty <= pm_to_vault
      /\ bounty <= IF kind = "Liquidation" THEN due ELSE 0
  BY <1>6, <1>7 DEF Least
<1>9. vault_absorbed \in Nat /\ vault_absorbed = pm_to_vault - bounty
  BY <1>7, <1>8
<1> HIDE DEF bounty, vault_absorbed
<1>10. total_fees \in Int /\ distributable_fees \in Int
  BY <1>2, <1>9 DEF Least
<1>11. AtLeastZero(distributable_fees) <= vault_absorbed + size
  <2>1. CASE trader_payout > 0
    <3>1. pm_to_vault = e.borrow_fee - e.pnl - e.effective_funding
      BY <1>2, <1>3, <1>4, <1>7, <2>1
    <3>2. total_fees <= vault_absorbed + size
      BY <1>2, <1>4, <1>5, <1>6, <1>7, <1>8, <1>9, <3>1
    <3> QED
      BY <1>4, <1>9, <1>10, <2>1, <3>2 DEF AtLeastZero
  <2>2. CASE ~(trader_payout > 0)
    <3>1. distributable_fees <= vault_absorbed
      BY <1>9, <1>10, <2>2 DEF Least
    <3> QED
      BY <1>4, <1>9, <1>10, <3>1 DEF AtLeastZero
  <2> QED
    BY <2>1, <2>2
<1> HIDE DEF total_fees, distributable_fees
<1>12. escrow = p.execution_fee_escrow /\ forfeited \in Nat
  BY <1>4 DEF escrow_settled, size
<1> HIDE DEF escrow, forfeited
<1>13. CanRelease(vault, size)
  BY <1>4 DEF CanRelease
<1>14. /\ Funded(released)
       /\ released.reserved_usdc = vault.reserved_usdc - size
       /\ released.unclaimed_fees = vault.unclaimed_fees
       /\ released.balance = vault.balance
  BY <1>4, <1>13, ReleaseKeepsFunded DEF release_liquidity, Funded, Ledger
<1> HIDE DEF released
<1>15. paid = released
  BY <1>4, <1>14 DEF pay_profit, Funded, Ledger
<1> HIDE DEF paid
<1>16. /\ Funded(absorbed)
       /\ absorbed.balance = vault.balance + vault_absorbed
       /\ absorbed.reserved_usdc = vault.reserved_usdc - size
       /\ absorbed.unclaimed_fees = vault.unclaimed_fees
       /\ Solvent(absorbed)
  <2>1. /\ Funded(absorbed)
        /\ absorbed.balance = vault.balance + vault_absorbed
        /\ absorbed.reserved_usdc = vault.reserved_usdc - size
        /\ absorbed.unclaimed_fees = vault.unclaimed_fees
    BY <1>9, <1>14, <1>15, ReceiveKeepsFunded
  <2>2. Solvent(absorbed)
    BY <1>4, <1>9, <2>1 DEF Solvent, Funded, Ledger
  <2> QED
    BY <2>1, <2>2
<1> HIDE DEF absorbed
<1>17. CanReslice(absorbed, distributable_fees)
  <2>1. /\ NonLpSlice(distributable_fees) \in Nat
        /\ NonLpSlice(distributable_fees) <= AtLeastZero(distributable_fees)
        /\ AtLeastZero(distributable_fees) \in Nat
    BY <1>10, SliceType
  <2>2. NonLpSlice(distributable_fees) <= vault_absorbed + size
    BY <1>4, <1>9, <1>11, <2>1
  <2>3. vault.reserved_usdc + vault.unclaimed_fees <= vault.balance
    BY DEF Solvent
  <2>4. vault.balance \in Nat /\ vault.reserved_usdc \in Nat /\ vault.unclaimed_fees \in Nat
    BY DEF Funded, Ledger
  <2>5. absorbed.unclaimed_fees + NonLpSlice(distributable_fees) + absorbed.reserved_usdc
          <= absorbed.balance
    BY <1>4, <1>9, <1>16, <2>1, <2>2, <2>3, <2>4
  <2> QED
    BY <2>5 DEF CanReslice, CanAccrue
<1>18. Funded(resliced) /\ Solvent(resliced)
  BY <1>10, <1>16, <1>17, ResliceKeepsFunded
<1> HIDE DEF resliced
<1>19. CanRecvRevenue(resliced, forfeited)
  <2> DEFINE w == receive(resliced, AtLeastZero(forfeited))
  <2>1. /\ NonLpSlice(forfeited) \in Nat /\ AtLeastZero(forfeited) \in Nat
        /\ NonLpSlice(forfeited) <= AtLeastZero(forfeited)
    BY <1>12, SliceType
  <2>2. /\ w.balance = resliced.balance + AtLeastZero(forfeited)
        /\ w.reserved_usdc = resliced.reserved_usdc
        /\ w.unclaimed_fees = resliced.unclaimed_fees
    BY <1>18, <2>1, ReceiveKeepsFunded
  <2>3. /\ resliced.reserved_usdc + resliced.unclaimed_fees <= resliced.balance
        /\ resliced.balance \in Nat /\ resliced.reserved_usdc \in Nat
        /\ resliced.unclaimed_fees \in Nat
    BY <1>18 DEF Solvent, Funded, Ledger
  <2> HIDE DEF w
  <2>4. w.unclaimed_fees + NonLpSlice(forfeited) + w.reserved_usdc <= w.balance
    BY <2>1, <2>2, <2>3
  <2> QED
    BY <2>4 DEF CanRecvRevenue, CanReslice, CanAccrue, w
<1>20. o.ok
  BY <1>1, <1>4, <1>12, <1>13, <1>17, <1>19
<1> QED
  BY ONLY <1>20 DEF o, size, coll

-----------------------------------------------------------------------------
(* The three books *)

(* The open interest of a market as read is the sum of its positions' sizes,
   also when nobody has traded it.                                           *)
LEMMA OpenInterestAsRead ==
    ASSUME PMInv, NEW s \in Symbols, NEW side \in Sides
    PROVE  get_market(s).oi[side] = Total(SideSizes(s, side))
<1>1. CASE s \in DOMAIN markets
  BY <1>1 DEF PMInv, ReservationsMatchOpenInterest, get_market
<1>2. CASE s \notin DOMAIN markets
  <2>1. DOMAIN SideSizes(s, side) = {}
    BY <1>2 DEF SideSizes, PMInv, PMTypeOK
  <2>2. get_market(s).oi[side] = 0
    BY <1>2 DEF get_market, FreshMarket
  <2> QED
    BY <2>1, <2>2, TotalEmpty
<1> QED
  BY <1>1, <1>2

(* When one position changes, appears or goes, every sum over the positions
   changes by what changes in it.                                            *)
LEMMA SumsChange ==
    ASSUME PMInv, NEW k,
           positions' \in [DOMAIN positions' -> Position],
           DifferAt(positions, positions', k)
    PROVE  /\ FinitelyMany'
           /\ /\ Total(Custody') = Total(Custody) - At(Custody, k) + At(Custody', k)
              /\ Total(Custody) \in Nat /\ At(Custody, k) \in Nat
              /\ At(Custody', k) \in Nat
           /\ /\ Total(OpenSizes')
                   = Total(OpenSizes) - At(OpenSizes, k) + At(OpenSizes', k)
              /\ Total(OpenSizes) \in Nat /\ At(OpenSizes, k) \in Nat
              /\ At(OpenSizes', k) \in Nat
           /\ \A s \in Symbols, side \in Sides :
                 /\ Total(SideSizes(s, side)')
                      = Total(SideSizes(s, side)) - At(SideSizes(s, side), k)
                          + At(SideSizes(s, side)', k)
                 /\ Total(SideSizes(s, side)) \in Nat
                 /\ At(SideSizes(s, side), k) \in Nat
                 /\ At(SideSizes(s, side)', k) \in Nat
                 /\ At(SideSizes(s, side), k) <= Total(SideSizes(s, side))
<1>1. /\ positions \in [DOMAIN positions -> Position]
      /\ IsFiniteSet(Units(Custody)) /\ IsFiniteSet(Units(OpenSizes))
      /\ \A s \in Symbols, side \in Sides : IsFiniteSet(Units(SideSizes(s, side)))
  BY DEF PMInv, PMTypeOK, FinitelyMany
<1>2. /\ \A j \in DOMAIN positions :
            /\ positions[j].collateral + positions[j].execution_fee_escrow \in Nat
            /\ positions[j].size \in Nat
      /\ \A j \in DOMAIN positions' :
            /\ positions'[j].collateral + positions'[j].execution_fee_escrow \in Nat
            /\ positions'[j].size \in Nat
  BY <1>1 DEF Position
<1>3. /\ DOMAIN positions \ {k} = DOMAIN positions' \ {k}
      /\ \A j \in DOMAIN positions \ {k} : positions[j] = positions'[j]
  BY DEF DifferAt
<1>4. /\ IsFiniteSet(Units(Custody'))
      /\ Total(Custody') = Total(Custody) - At(Custody, k) + At(Custody', k)
      /\ Total(Custody) \in Nat /\ At(Custody, k) \in Nat /\ At(Custody', k) \in Nat
  <2>1. Custody \in [DOMAIN positions -> Nat] /\ Custody' \in [DOMAIN positions' -> Nat]
    BY <1>2 DEF Custody
  <2>2. DifferAt(Custody, Custody', k)
    BY <1>3 DEF Custody, DifferAt
  <2> QED
    BY <1>1, <2>1, <2>2, TotalChange
<1>5. /\ IsFiniteSet(Units(OpenSizes'))
      /\ Total(OpenSizes') = Total(OpenSizes) - At(OpenSizes, k) + At(OpenSizes', k)
      /\ Total(OpenSizes) \in Nat /\ At(OpenSizes, k) \in Nat /\ At(OpenSizes', k) \in Nat
  <2>1. /\ OpenSizes \in [DOMAIN positions -> Nat]
        /\ OpenSizes' \in [DOMAIN positions' -> Nat]
    BY <1>2 DEF OpenSizes
  <2>2. DifferAt(OpenSizes, OpenSizes', k)
    BY <1>3 DEF OpenSizes, DifferAt
  <2> QED
    BY <1>1, <2>1, <2>2, TotalChange
<1>6. ASSUME NEW s \in Symbols, NEW side \in Sides
      PROVE  /\ IsFiniteSet(Units(SideSizes(s, side)'))
             /\ Total(SideSizes(s, side)')
                  = Total(SideSizes(s, side)) - At(SideSizes(s, side), k)
                      + At(SideSizes(s, side)', k)
             /\ Total(SideSizes(s, side)) \in Nat
             /\ At(SideSizes(s, side), k) \in Nat
             /\ At(SideSizes(s, side)', k) \in Nat
             /\ At(SideSizes(s, side), k) <= Total(SideSizes(s, side))
  <2> DEFINE D == {j \in DOMAIN positions : j[2] = s /\ positions[j].side = side}
             E == {j \in DOMAIN positions' : j[2] = s /\ positions'[j].side = side}
  <2>1. SideSizes(s, side) \in [D -> Nat] /\ SideSizes(s, side)' \in [E -> Nat]
    BY <1>2 DEF SideSizes
  <2>2. DifferAt(SideSizes(s, side), SideSizes(s, side)', k)
    BY <1>3 DEF SideSizes, DifferAt
  <2>3. IsFiniteSet(Units(SideSizes(s, side)))
    BY <1>1
  <2> HIDE DEF D, E
  <2> QED
    BY <2>1, <2>2, <2>3, TotalChange
<1>7. FinitelyMany'
  BY <1>4, <1>5, <1>6 DEF FinitelyMany
<1> QED
  BY <1>4, <1>5, <1>6, <1>7

(* If custody, reservation and the open interest of the position's market follow
   the position, the books stay exact.                                       *)
LEMMA BooksStayExact ==
    ASSUME PMInv, NEW k \in Traders \X Symbols,
           positions' \in [DOMAIN positions' -> Position],
           DifferAt(positions, positions', k),
           NEW m \in Market, markets' = Put(markets, k[2], m),
           pm_balance' = pm_balance - At(Custody, k) + At(Custody', k),
           vault'.reserved_usdc
             = vault.reserved_usdc - At(OpenSizes, k) + At(OpenSizes', k),
           \A side \in Sides :
              m.oi[side] = get_market(k[2]).oi[side]
                             - At(SideSizes(k[2], side), k)
                             + At(SideSizes(k[2], side)', k)
    PROVE  FinitelyMany' /\ CustodyExact' /\ ReservationsMatchOpenInterest'
<1>1. /\ pm_balance = Total(Custody)
      /\ vault.reserved_usdc = Total(OpenSizes)
      /\ \A s \in DOMAIN markets, side \in Sides :
            markets[s].oi[side] = Total(SideSizes(s, side))
  BY DEF PMInv, CustodyExact, ReservationsMatchOpenInterest
<1>2. FinitelyMany' /\ CustodyExact' /\ vault'.reserved_usdc = Total(OpenSizes')
  BY <1>1, SumsChange DEF CustodyExact
<1>3. ASSUME NEW s \in DOMAIN markets', NEW side \in Sides
      PROVE  markets'[s].oi[side] = Total(SideSizes(s, side)')
  <2>1. s \in Symbols /\ k[2] \in Symbols
    BY <1>3 DEF PMInv, PMTypeOK, Put
  <2>2. CASE s = k[2]
    <3>1. markets'[s] = m
      BY <1>3, <2>2 DEF Put
    <3>2. get_market(s).oi[side] = Total(SideSizes(s, side))
      BY <2>1, OpenInterestAsRead
    <3> QED
      BY <2>1, <2>2, <3>1, <3>2, SumsChange
  <2>3. CASE s # k[2]
    <3>1. s \in DOMAIN markets /\ markets'[s] = markets[s]
      BY <1>3, <2>3 DEF Put
    <3>2. At(SideSizes(s, side), k) = 0 /\ At(SideSizes(s, side)', k) = 0
      BY <2>3 DEF SideSizes, At
    <3>3. Total(SideSizes(s, side)') = Total(SideSizes(s, side)) - 0 + 0
          /\ Total(SideSizes(s, side)) \in Nat
      BY <2>1, <3>2, SumsChange
    <3> QED
      BY <1>1, <3>1, <3>3
  <2> QED
    BY <2>2, <2>3
<1> QED
  BY <1>2, <1>3 DEF ReservationsMatchOpenInterest

-----------------------------------------------------------------------------
(* What every step that refreshes a market does *)

(* A refresh bills a window that starts where the last one ended at the earliest,
   and leaves out every pause; the market is dated by the window's end.      *)
LEMMA BillingStaysOnce ==
    ASSUME PMInv, NEW s \in Symbols, BillWindow(s),
           NEW m \in Market,
           m.last_index_update = Refreshed(s).last_index_update,
           \/ markets' = Put(markets, s, m)
           \/ markets' = markets /\ time_delta(s) = 0,
           UNCHANGED <<now, pm_paused, last_pause_time, last_unpause_time, paused_at>>
    PROVE  /\ billed' \in [Symbols -> [0..MaxTime -> Nat]]
           /\ LiveSecondsBilledAtMostOnce'
           /\ BilledBeforeUpdate'
           /\ PausesBehindClamps'
<1> DEFINE from == effective_start(s)
           to == effective_now(s)
<1>1. /\ billed \in [Symbols -> [0..MaxTime -> Nat]]
      /\ paused_at \in [0..MaxTime -> BOOLEAN]
      /\ now \in Nat /\ MaxTime \in Nat /\ last_pause_time \in Nat
      /\ last_unpause_time \in Nat
      /\ markets \in [DOMAIN markets -> Market] /\ DOMAIN markets \subseteq Symbols
  BY VaultAssumption DEF PMInv, PMTypeOK, VaultTypeOK
<1>2. /\ LiveSecondsBilledAtMostOnce /\ BilledBeforeUpdate /\ PausesBehindClamps
  BY DEF PMInv
<1>3. /\ get_market(s) \in Market /\ get_market(s).last_index_update <= now
      /\ from \in Nat /\ to \in Nat /\ time_delta(s) \in Nat
      /\ from >= get_market(s).last_index_update /\ from >= last_unpause_time
      /\ time_delta(s) > 0 => to <= now /\ from < to
      /\ time_delta(s) = 0 => from >= to
      /\ time_delta(s) > 0 /\ pm_paused => to <= last_pause_time
      /\ s \notin DOMAIN markets => time_delta(s) = 0
      /\ m.last_index_update = IF time_delta(s) = 0
                               THEN get_market(s).last_index_update ELSE to
      /\ m.last_index_update \in Nat /\ get_market(s).last_index_update \in Nat
  BY WindowType, RefreshedType DEF Market
<1>4. s \in DOMAIN markets => get_market(s) = markets[s]
  BY DEF get_market
<1>5. /\ \A r \in Symbols \ {s} : billed'[r] = billed[r]
      /\ \A x \in 0..MaxTime :
            billed'[s][x] = IF from <= x /\ x < to THEN billed[s][x] + 1
                            ELSE billed[s][x]
      /\ billed' \in [Symbols -> [0..MaxTime -> Nat]]
  <2> DEFINE row == [x \in 0..MaxTime |->
                       IF from <= x /\ x < to THEN billed[s][x] + 1 ELSE billed[s][x]]
  <2>1. row \in [0..MaxTime -> Nat]
    BY <1>1
  <2>2. billed' = [billed EXCEPT ![s] = row]
    <3>1. DOMAIN billed[s] = 0..MaxTime
      BY <1>1
    <3> QED
      BY <3>1 DEF BillWindow
  <2>3. \A x \in 0..MaxTime :
           row[x] = IF from <= x /\ x < to THEN billed[s][x] + 1 ELSE billed[s][x]
    OBVIOUS
  <2> HIDE DEF row, from, to
  <2> QED
    BY <1>1, <2>1, <2>2, <2>3
<1> HIDE DEF from, to
<1>6. ASSUME NEW x \in 0..MaxTime, from <= x, x < to
      PROVE  billed[s][x] = 0 /\ ~paused_at[x] /\ s \in DOMAIN markets
  <2>1. x \in Nat
    BY <1>1
  <2>2. time_delta(s) > 0 /\ s \in DOMAIN markets
    BY <1>3, <1>6, <2>1
  <2>3. x >= markets[s].last_index_update /\ markets[s].last_index_update \in Nat
    BY <1>3, <1>4, <1>6, <2>1, <2>2
  <2>4. ~(billed[s][x] > 0) /\ billed[s][x] \in Nat
    BY <1>1, <1>2, <2>1, <2>3 DEF BilledBeforeUpdate
  <2>5. ~paused_at[x]
    BY <1>1, <1>2, <1>3, <1>6, <2>1, <2>2 DEF PausesBehindClamps
  <2> QED
    BY <2>2, <2>4, <2>5
<1>7. LiveSecondsBilledAtMostOnce'
  <2> SUFFICES ASSUME NEW r \in Symbols, NEW x \in 0..MaxTime
               PROVE  billed'[r][x] <= IF paused_at[x] THEN 0 ELSE 1
    BY DEF LiveSecondsBilledAtMostOnce
  <2>1. billed[r][x] <= IF paused_at[x] THEN 0 ELSE 1
    BY <1>2 DEF LiveSecondsBilledAtMostOnce
  <2>2. CASE r # s \/ ~(from <= x /\ x < to)
    <3>1. billed'[r][x] = billed[r][x]
      BY <1>5, <2>2
    <3> QED
      BY <2>1, <3>1
  <2>3. CASE r = s /\ from <= x /\ x < to
    <3>1. billed'[r][x] = 1 /\ ~paused_at[x]
      BY <1>5, <1>6, <2>3
    <3> QED
      BY <3>1
  <2> QED
    BY <2>2, <2>3
<1>8. BilledBeforeUpdate'
  <2> SUFFICES ASSUME NEW r \in Symbols, NEW x \in 0..MaxTime, billed'[r][x] > 0
               PROVE  r \in DOMAIN markets' /\ x < markets'[r].last_index_update
    BY DEF BilledBeforeUpdate
  <2>1. x \in Nat
    BY <1>1
  <2>2. CASE r # s
    <3>1. r \in DOMAIN markets /\ x < markets[r].last_index_update
      BY <1>2, <1>5, <2>2 DEF BilledBeforeUpdate
    <3> QED
      BY <2>2, <3>1 DEF Put
  <2>3. CASE r = s /\ ~(from <= x /\ x < to)
    <3>1. s \in DOMAIN markets /\ x < markets[s].last_index_update
      BY <1>2, <1>5, <2>3 DEF BilledBeforeUpdate
    <3>2. x < m.last_index_update
      BY <1>3, <1>4, <2>1, <3>1
    <3> QED
      BY <2>3, <3>1, <3>2 DEF Put
  <2>4. CASE r = s /\ from <= x /\ x < to
    <3>1. s \in DOMAIN markets /\ time_delta(s) # 0
      BY <1>3, <1>6, <2>1, <2>4
    <3>2. x < m.last_index_update /\ markets' = Put(markets, s, m)
      BY <1>3, <2>4, <3>1
    <3> QED
      BY <2>4, <3>1, <3>2 DEF Put
  <2> QED
    BY <2>2, <2>3, <2>4
<1>9. PausesBehindClamps'
  <2>1. m.last_index_update <= now
    BY <1>1, <1>3
  <2>2. \A r \in DOMAIN markets' : markets'[r].last_index_update <= now
    BY <1>2, <2>1 DEF PausesBehindClamps, Put
  <2> QED
    BY <1>2, <2>2 DEF PausesBehindClamps
<1> QED
  BY <1>5, <1>7, <1>8, <1>9

(* A market's PnL is stored, totalled and pushed to the vault. *)
LEMMA PushKeepsVault ==
    ASSUME PMInv, NEW s \in Symbols, NEW m \in Market, NEW mark \in Nat,
           NEW v, Funded(v), RefreshPnl(s, m, mark, v),
           UNCHANGED <<lpVars, clockVars>>
    PROVE  /\ VaultInv'
           /\ vault'.reserved_usdc = v.reserved_usdc
           /\ market_pnl' \in [Symbols -> Int]
           /\ total_pnl' \in Int
           /\ Solvent(v) => Solvent(vault')
<1>1. MarketPnl(m, mark) \in Int
  <2> DEFINE lo == m.oi["long"]
             so == m.oi["short"]
             la == m.avg["long"]
             sa == m.avg["short"]
  <2>1. lo \in Nat /\ so \in Nat /\ la \in Nat /\ sa \in Nat
    BY DEF Market, Sides
  <2>2. MarketPnl(m, mark)
          = (IF lo > 0 /\ la > 0 THEN TruncDiv(lo * (mark - la), la) ELSE 0)
              + (IF so > 0 /\ sa > 0 THEN TruncDiv(so * (sa - mark), sa) ELSE 0)
    BY DEF MarketPnl, calc_market_unrealized_pnl
  <2> HIDE DEF lo, so, la, sa
  <2>3. lo * (mark - la) \in Int /\ so * (sa - mark) \in Int
    <3>1. mark - la \in Int /\ sa - mark \in Int
      BY <2>1
    <3> QED
      BY <2>1, <3>1, ProductType
  <2>4. /\ la > 0 => TruncDiv(lo * (mark - la), la) \in Int
        /\ sa > 0 => TruncDiv(so * (sa - mark), sa) \in Int
    BY <2>1, <2>3, TruncDivType
  <2> QED
    BY <2>2, <2>4
<1>2. market_pnl \in [Symbols -> Int] /\ total_pnl \in Int /\ VaultInv
  BY DEF PMInv, PMTypeOK
<1>3. NewTotal(s, m, mark) \in Int
  BY <1>1, <1>2 DEF NewTotal
<1>4. /\ market_pnl' = [market_pnl EXCEPT ![s] = MarketPnl(m, mark)]
      /\ total_pnl' = NewTotal(s, m, mark)
      /\ vault' = update_net_pnl(v, NewTotal(s, m, mark))
  BY DEF RefreshPnl
<1>5. /\ Funded(vault') /\ vault'.reserved_usdc = v.reserved_usdc
      /\ Solvent(v) => Solvent(vault')
  BY <1>3, <1>4, PushKeepsFunded
<1>6. VaultInv'
  BY <1>2, <1>5, LedgerInv DEF Funded
<1> QED
  BY <1>1, <1>2, <1>3, <1>4, <1>5, <1>6

-----------------------------------------------------------------------------
(* Closing *)

(* A market of which one side's average and open interest are replaced. *)
WithSide(m, side, a, n) == [m EXCEPT !.avg[side] = a, !.oi[side] = n]

LEMMA MarketReplaced ==
    ASSUME NEW m \in Market, NEW side \in Sides, NEW a \in Nat, NEW n \in Nat
    PROVE  /\ WithSide(m, side, a, n) \in Market
           /\ WithSide(m, side, a, n).last_index_update = m.last_index_update
           /\ WithSide(m, side, a, n).oi[side] = n
           /\ \A other \in Sides \ {side} :
                 WithSide(m, side, a, n).oi[other] = m.oi[other]
<1> DEFINE r == [m EXCEPT !.avg[side] = a]
           w == [r EXCEPT !.oi[side] = n]
           av == [m.avg EXCEPT ![side] = a]
           oi == [m.oi EXCEPT ![side] = n]
<1>1. av \in [Sides -> Nat] /\ oi \in [Sides -> Nat]
  BY DEF Market
<1>2. r = [avg |-> av, oi |-> m.oi, borrow_index |-> m.borrow_index,
           funding_index |-> m.funding_index,
           last_index_update |-> m.last_index_update]
  BY DEF Market
<1>3. WithSide(m, side, a, n) = w
  BY DEF WithSide
<1> HIDE DEF r
<1>4. w = [avg |-> av, oi |-> oi, borrow_index |-> m.borrow_index,
           funding_index |-> m.funding_index,
           last_index_update |-> m.last_index_update]
  BY <1>2
<1>5. oi[side] = n /\ \A other \in Sides \ {side} : oi[other] = m.oi[other]
  BY DEF Market
<1> HIDE DEF av, oi, w
<1>6. w \in Market
  BY <1>1, <1>4 DEF Market
<1>7. w.last_index_update = m.last_index_update /\ w.oi = oi
  BY <1>4
<1> QED
  BY <1>3, <1>5, <1>6, <1>7

(* A position of which a part is closed. *)
Reduced(p, n, c) == [p EXCEPT !.size = n, !.collateral = c]

LEMMA PositionReduced ==
    ASSUME NEW p \in Position, NEW c \in Nat \ {0}, NEW n \in Nat \ {0}
    PROVE  LET q == Reduced(p, n, c)
           IN  /\ q \in Position
               /\ q.size = n /\ q.collateral = c /\ q.side = p.side
               /\ q.execution_fee_escrow = p.execution_fee_escrow
               /\ q.take_profit = p.take_profit /\ q.stop_loss = p.stop_loss
<1> DEFINE r == [p EXCEPT !.size = n]
<1>1. r = [collateral |-> p.collateral, size |-> n, side |-> p.side,
           entry_price |-> p.entry_price, entry_borrow_index |-> p.entry_borrow_index,
           entry_funding_index |-> p.entry_funding_index,
           last_increased_time |-> p.last_increased_time,
           take_profit |-> p.take_profit, stop_loss |-> p.stop_loss,
           execution_fee_escrow |-> p.execution_fee_escrow]
  BY DEF Position
<1>2. Reduced(p, n, c) = [r EXCEPT !.collateral = c]
  BY DEF Reduced
<1> HIDE DEF r
<1>3. Reduced(p, n, c) = [collateral |-> c, size |-> n, side |-> p.side,
           entry_price |-> p.entry_price, entry_borrow_index |-> p.entry_borrow_index,
           entry_funding_index |-> p.entry_funding_index,
           last_increased_time |-> p.last_increased_time,
           take_profit |-> p.take_profit, stop_loss |-> p.stop_loss,
           execution_fee_escrow |-> p.execution_fee_escrow]
  BY <1>1, <1>2
<1> QED
  BY <1>3 DEF Position

(* What a call may close: all of the position with all of its collateral, or, by
   the trader, a part of it with a smaller part of the collateral.           *)
Slice(k, size, coll, kind) ==
    /\ size \in Nat \ {0} /\ size <= positions[k].size
    /\ coll \in Nat /\ coll <= positions[k].collateral
    /\ size = positions[k].size => coll = positions[k].collateral
    /\ size < positions[k].size => coll < positions[k].collateral /\ kind = "User"

(* The positions after a close. *)
LEMMA ClosedPositions ==
    ASSUME PMInv, NEW k \in DOMAIN positions, NEW size, NEW coll, NEW kind,
           Slice(k, size, coll, kind),
           positions' = IF size = positions[k].size THEN Remove(positions, k)
                        ELSE [positions EXCEPT ![k].size = @ - size,
                                               ![k].collateral = @ - coll]
    PROVE  /\ positions' \in [DOMAIN positions' -> Position]
           /\ DOMAIN positions' \subseteq DOMAIN positions
           /\ DifferAt(positions, positions', k)
           /\ size = positions[k].size <=> k \notin DOMAIN positions'
           /\ k \in DOMAIN positions'
                => /\ positions'[k].size = positions[k].size - size
                   /\ positions'[k].collateral = positions[k].collateral - coll
                   /\ positions'[k].side = positions[k].side
           /\ \A j \in DOMAIN positions' :
                 /\ positions'[j].execution_fee_escrow = positions[j].execution_fee_escrow
                 /\ positions'[j].take_profit = positions[j].take_profit
                 /\ positions'[j].stop_loss = positions[j].stop_loss
<1> DEFINE p == positions[k]
           n == p.size - size
           c == p.collateral - coll
           q == Reduced(p, n, c)
<1>1. /\ positions \in [DOMAIN positions -> Position] /\ p \in Position
      /\ p.size \in Nat \ {0} /\ p.collateral \in Nat \ {0}
  BY DEF PMInv, PMTypeOK, Position
<1>2. CASE size = p.size
  <2>1. positions' = Remove(positions, k)
    BY <1>2
  <2> QED
    BY <1>1, <1>2, <2>1 DEF Remove, DifferAt
<1>3. CASE size # p.size
  <2>1. n \in Nat \ {0} /\ c \in Nat \ {0}
    BY <1>1, <1>3 DEF Slice
  <2>2. /\ q \in Position
        /\ q.size = n /\ q.collateral = c /\ q.side = p.side
        /\ q.execution_fee_escrow = p.execution_fee_escrow
        /\ q.take_profit = p.take_profit /\ q.stop_loss = p.stop_loss
    <3> HIDE DEF p, n, c
    <3> QED
      BY <1>1, <2>1, PositionReduced
  <2>3. positions' = [positions EXCEPT ![k] = q]
    BY <1>1, <1>3 DEF Reduced
  <2>4. /\ positions' \in [DOMAIN positions -> Position]
        /\ positions'[k] = q
        /\ \A j \in DOMAIN positions \ {k} : positions'[j] = positions[j]
    BY <1>1, <2>2, <2>3
  <2> HIDE DEF q, n, c
  <2>5. DOMAIN positions' = DOMAIN positions
    BY <2>3
  <2>6. DifferAt(positions, positions', k)
    BY <2>4, <2>5 DEF DifferAt
  <2> QED
    BY <1>3, <2>2, <2>4, <2>5, <2>6 DEF n, c
<1> QED
  BY <1>2, <1>3

(* Every kind of close keeps the inductive invariant. *)
LEMMA CloseInv ==
    ASSUME PMInv, NEW k \in DOMAIN positions, NEW mark \in Nat,
           NEW size, NEW coll, NEW kind, Slice(k, size, coll, kind),
           Close(k, mark, size, coll, kind)
    PROVE  /\ PMInv'
           /\ Solvent(vault) => Solvent(vault')
<1> DEFINE p == positions[k]
           s == k[2]
           M == Refreshed(s)
           o == settle(p, M, mark, size, coll, kind)
           a == remove_from_global_avg_price(M.avg[p.side], M.oi[p.side],
                                             p.entry_price, size)
           n == M.oi[p.side] - size
           m == WithSide(M, p.side, a, n)
<1>1. /\ PMTypeOK /\ VaultInv
      /\ positions \in [DOMAIN positions -> Position] /\ p \in Position
      /\ k \in Traders \X Symbols /\ s \in Symbols /\ p.side \in Sides
      /\ p.execution_fee_escrow \in Nat /\ p.collateral \in Nat /\ p.size \in Nat
      /\ p.entry_price \in Nat
      /\ size \in Nat \ {0} /\ coll \in Nat
  BY DEF PMInv, PMTypeOK, Position, Slice
<1> PICK d \in Sides : d = p.side
  BY <1>1
<1>2. Funded(vault)
  BY <1>1 DEF VaultInv, VaultTypeOK, FeesFunded, Funded
<1>3. /\ M \in Market /\ M.oi = get_market(s).oi
  BY <1>1, RefreshedType
<1>4. /\ o.ok
      /\ positions' = IF size = p.size THEN Remove(positions, k)
                      ELSE [positions EXCEPT ![k].size = @ - size,
                                             ![k].collateral = @ - coll]
      /\ realized_pnl' = realized_pnl + o.net_economic_pnl
      /\ pm_balance' = pm_balance - o.pm_out
      /\ BillWindow(s)
      /\ UNCHANGED <<lpVars, clockVars, controlVars, increases, paused_at>>
  BY DEF Close
<1>5. markets' = Put(markets, s, m) /\ RefreshPnl(s, m, mark, o.ledger)
  <2>1. m = [M EXCEPT !.avg[p.side] = remove_from_global_avg_price(
                                          @, M.oi[p.side], p.entry_price, size),
                      !.oi[p.side] = @ - size]
    BY <1>3 DEF Market, WithSide
  <2> HIDE DEF m
  <2> QED
    BY <2>1 DEF Close
<1>6. /\ Funded(o.ledger)
      /\ o.ledger.reserved_usdc = vault.reserved_usdc - size
      /\ o.pm_out = coll + escrow_settled(p, size, kind)
      /\ o.pm_out \in Nat /\ o.pm_out <= pm_balance
      /\ o.net_economic_pnl \in Int
      /\ Solvent(vault) => Solvent(o.ledger)
  <2> HIDE DEF p, M
  <2> QED
    BY <1>1, <1>2, <1>3, <1>4, SettleKeepsFunded
<1> HIDE DEF o
<1>7. /\ positions' \in [DOMAIN positions' -> Position]
      /\ DOMAIN positions' \subseteq DOMAIN positions
      /\ DifferAt(positions, positions', k)
      /\ size = p.size <=> k \notin DOMAIN positions'
      /\ k \in DOMAIN positions'
           => /\ positions'[k].size = p.size - size
              /\ positions'[k].collateral = p.collateral - coll
              /\ positions'[k].side = p.side
      /\ \A j \in DOMAIN positions' :
            /\ positions'[j].execution_fee_escrow = positions[j].execution_fee_escrow
            /\ positions'[j].take_profit = positions[j].take_profit
            /\ positions'[j].stop_loss = positions[j].stop_loss
  BY <1>4, ClosedPositions
<1>8. /\ At(Custody, k) = p.collateral + p.execution_fee_escrow
      /\ At(Custody', k) = At(Custody, k) - o.pm_out
  <2>1. At(Custody, k) = p.collateral + p.execution_fee_escrow
    BY DEF At, Custody
  <2>2. CASE size = p.size
    <3>1. At(Custody', k) = 0
      BY <1>7, <2>2 DEF At, Custody
    <3>2. coll = p.collateral /\ escrow_settled(p, size, kind) = p.execution_fee_escrow
      BY <1>1, <2>2 DEF Slice, escrow_settled
    <3> QED
      BY <1>1, <1>6, <2>1, <3>1, <3>2
  <2>3. CASE size # p.size
    <3>1. k \in DOMAIN positions'
      BY <1>7, <2>3
    <3>2. At(Custody', k) = (p.collateral - coll) + p.execution_fee_escrow
      BY <1>7, <3>1 DEF At, Custody
    <3>3. escrow_settled(p, size, kind) = 0
      BY <1>1, <2>3 DEF Slice, escrow_settled
    <3> QED
      BY <1>1, <1>6, <2>1, <3>2, <3>3
  <2> QED
    BY <2>2, <2>3
<1>9. /\ At(OpenSizes, k) = p.size
      /\ At(OpenSizes', k) = p.size - size
  <2>1. At(OpenSizes, k) = p.size
    BY DEF At, OpenSizes
  <2>2. CASE size = p.size
    <3>1. At(OpenSizes', k) = 0
      BY <1>7, <2>2 DEF At, OpenSizes
    <3> QED
      BY <1>1, <2>1, <2>2, <3>1
  <2>3. CASE size # p.size
    BY <1>7, <2>1, <2>3 DEF At, OpenSizes
  <2> QED
    BY <2>2, <2>3
<1>10. /\ At(SideSizes(s, d), k) = p.size
       /\ At(SideSizes(s, d)', k) = p.size - size
       /\ \A side \in Sides \ {d} :
             At(SideSizes(s, side), k) = 0 /\ At(SideSizes(s, side)', k) = 0
  <2>1. /\ At(SideSizes(s, d), k) = p.size
        /\ \A side \in Sides \ {d} : At(SideSizes(s, side), k) = 0
    BY DEF At, SideSizes
  <2>2. CASE size = p.size
    <3>1. \A side \in Sides : At(SideSizes(s, side)', k) = 0
      BY <1>7, <2>2 DEF At, SideSizes
    <3> QED
      BY <1>1, <2>1, <2>2, <3>1
  <2>3. CASE size # p.size
    <3>1. k \in DOMAIN positions' /\ positions'[k].side = d
      BY <1>7, <2>3
    <3>2. At(SideSizes(s, d)', k) = positions'[k].size
      BY <3>1 DEF At, SideSizes
    <3>3. \A side \in Sides \ {d} : At(SideSizes(s, side)', k) = 0
      BY <3>1 DEF At, SideSizes
    <3> QED
      BY <1>7, <2>1, <3>1, <3>2, <3>3
  <2> QED
    BY <2>2, <2>3
<1>11. n \in Nat /\ a \in Nat
  <2>1. M.oi[d] = Total(SideSizes(s, d))
    BY <1>1, <1>3, OpenInterestAsRead
  <2>2. /\ At(SideSizes(s, d), k) <= Total(SideSizes(s, d))
        /\ Total(SideSizes(s, d)) \in Nat
    BY <1>1, <1>7, SumsChange
  <2>3. n \in Nat /\ M.oi[d] \in Nat /\ M.avg[d] \in Nat
    BY <1>1, <1>3, <1>10, <2>1, <2>2 DEF Slice, Market
  <2> QED
    BY <1>1, <2>3, AverageType
<1>12. /\ m \in Market
       /\ m.last_index_update = M.last_index_update
       /\ m.oi[d] = n
       /\ \A other \in Sides \ {d} : m.oi[other] = M.oi[other]
  <2>1. m = WithSide(M, d, a, n)
    OBVIOUS
  <2> HIDE DEF M, a, n, m
  <2>2. M \in Market /\ a \in Nat /\ n \in Nat /\ d \in Sides
    BY <1>3, <1>11
  <2>3. WithSide(M, d, a, n) \in Market
    BY <2>2, MarketReplaced
  <2>4. WithSide(M, d, a, n).last_index_update = M.last_index_update
    BY <2>2, MarketReplaced
  <2>5. WithSide(M, d, a, n).oi[d] = n
    BY <2>2, MarketReplaced
  <2>6. \A other \in Sides \ {d} : WithSide(M, d, a, n).oi[other] = M.oi[other]
    BY <2>2, MarketReplaced
  <2> QED
    BY <2>1, <2>3, <2>4, <2>5, <2>6
<1> HIDE DEF m
<1>13. /\ VaultInv' /\ vault'.reserved_usdc = o.ledger.reserved_usdc
       /\ market_pnl' \in [Symbols -> Int] /\ total_pnl' \in Int
       /\ Solvent(o.ledger) => Solvent(vault')
  BY <1>1, <1>4, <1>5, <1>6, <1>12, PushKeepsVault
<1>14. FinitelyMany' /\ CustodyExact' /\ ReservationsMatchOpenInterest'
  <2>1. pm_balance' = pm_balance - At(Custody, k) + At(Custody', k)
    <3>1. pm_balance \in Nat /\ At(Custody, k) \in Int /\ o.pm_out \in Nat
      BY <1>1, <1>6, <1>8 DEF PMTypeOK
    <3> QED
      BY <1>4, <1>8, <3>1
  <2>2. vault'.reserved_usdc
          = vault.reserved_usdc - At(OpenSizes, k) + At(OpenSizes', k)
    <3>1. vault.reserved_usdc \in Nat
      BY <1>2 DEF Funded, Ledger
    <3> QED
      BY <1>1, <1>6, <1>9, <1>13, <3>1
  <2>3. \A side \in Sides :
           m.oi[side] = get_market(s).oi[side] - At(SideSizes(s, side), k)
                            + At(SideSizes(s, side)', k)
    <3> SUFFICES ASSUME NEW side \in Sides
                 PROVE  m.oi[side] = get_market(s).oi[side] - At(SideSizes(s, side), k)
                                         + At(SideSizes(s, side)', k)
      OBVIOUS
    <3>1. M.oi[side] \in Nat
      BY <1>3 DEF Market
    <3>2. CASE side = d
      BY <1>1, <1>3, <1>10, <1>12, <3>1, <3>2
    <3>3. CASE side # d
      BY <1>3, <1>10, <1>12, <3>1, <3>3
    <3> QED
      BY <3>2, <3>3
  <2> QED
    BY <1>1, <1>5, <1>7, <1>12, <2>1, <2>2, <2>3, BooksStayExact
<1>15. EscrowMatchesOrders'
  <2>1. EscrowMatchesOrders
    BY DEF PMInv
  <2> QED
    BY <1>7, <2>1 DEF EscrowMatchesOrders
<1>16. /\ billed' \in [Symbols -> [0..MaxTime -> Nat]]
       /\ LiveSecondsBilledAtMostOnce' /\ BilledBeforeUpdate' /\ PausesBehindClamps'
  <2>1. UNCHANGED <<now, pm_paused, last_pause_time, last_unpause_time, paused_at>>
    BY <1>4 DEF clockVars, controlVars
  <2> QED
    BY <1>1, <1>4, <1>5, <1>12, <2>1, BillingStaysOnce
<1>17. PMTypeOK'
  <2>1. VaultTypeOK'
    BY <1>13 DEF VaultInv
  <2>2. /\ DOMAIN markets' = DOMAIN markets \cup {s}
        /\ markets' \in [DOMAIN markets' -> Market]
    <3>1. markets \in [DOMAIN markets -> Market]
      BY <1>1 DEF PMTypeOK
    <3> QED
      BY <1>5, <1>12, <3>1 DEF Put
  <2>3. pm_balance' \in Nat /\ realized_pnl' \in Int
    <3>1. pm_balance \in Nat /\ realized_pnl \in Int
      BY <1>1 DEF PMTypeOK
    <3>2. /\ pm_balance' = pm_balance - o.pm_out
          /\ realized_pnl' = realized_pnl + o.net_economic_pnl
      BY <1>4
    <3> QED
      BY <1>6, <3>1, <3>2
  <2>4. DOMAIN positions' \subseteq Traders \X Symbols /\ DOMAIN markets' \subseteq Symbols
        /\ \A j \in DOMAIN positions' : j[2] \in DOMAIN markets'
    BY <1>1, <1>7, <2>2 DEF PMTypeOK
  <2>5. UNCHANGED <<pm_paused, last_pause_time, last_unpause_time, max_leverage,
                    disabled, cfg, increases, paused_at>>
    BY <1>4 DEF controlVars
  <2> QED
    BY <1>1, <1>7, <1>13, <1>16, <2>1, <2>2, <2>3, <2>4, <2>5 DEF PMTypeOK
<1> QED
  BY <1>6, <1>13, <1>14, <1>15, <1>16, <1>17 DEF PMInv

(* A partial close takes its share of the collateral rounded down, so that some
   collateral stays and the leverage does not rise (do_decrease_position).   *)
LEMMA CollateralSlice ==
    ASSUME PMInv, NEW k \in DOMAIN positions,
           NEW size \in Nat \ {0}, size <= positions[k].size
    PROVE  /\ Slice(k, size, collateral_delta(positions[k], size), "User")
           /\ positions[k].size * collateral_delta(positions[k], size)
                <= positions[k].collateral * size
<1> DEFINE c == positions[k].collateral
           n == positions[k].size
           q == (c * size) \div n
           d == collateral_delta(positions[k], size)
<1>1. c \in Nat \ {0} /\ n \in Nat \ {0}
  BY DEF PMInv, PMTypeOK, Position
<1>2. d = IF size = n THEN c ELSE TruncDiv(c * size, n)
  BY DEF collateral_delta
<1> HIDE DEF d
<1>3. CASE size = n
  <2>1. d = c
    BY <1>2, <1>3
  <2>2. n * c = c * n /\ n * c \in Nat
    BY <1>1
  <2> QED
    BY <1>1, <1>3, <2>1, <2>2 DEF Slice, d
<1>4. CASE size # n
  <2> USE <1>1
  <2> HIDE DEF c, n
  <2>1. c * size \in Nat /\ n - size \in Nat \ {0}
    BY <1>4 DEF c, n
  <2>2. d = q
    BY <1>2, <1>4, <2>1 DEF TruncDiv
  <2>3. q \in Nat /\ n * q <= c * size
    BY <2>1, QuotientBounds
  <2> HIDE DEF q
  <2>4. q < c
    <3> SUFFICES ASSUME q >= c PROVE FALSE
      BY <2>3
    <3>1. q - c \in Nat /\ n * (q - c) \in Nat /\ c * (n - size) \in Nat \ {0}
      BY <2>1, <2>3
    <3>2. n * q = c * size + c * (n - size) + n * (q - c)
      BY <2>3
    <3>3. n * q \in Nat /\ c * size \in Nat
      BY <2>1, <2>3
    <3> QED
      BY <2>3, <3>1, <3>2, <3>3
  <2> QED
    BY <1>4, <2>1, <2>2, <2>3, <2>4 DEF Slice, c, n, d
<1> QED
  BY <1>3, <1>4

-----------------------------------------------------------------------------
(* Opening and adding *)

(* The escrow an increase owes is the fee in force, or nothing; afterwards the
   escrow is held if, and with a fee that is never free only if, the position has
   an order.                                                                 *)
LEMMA EscrowOwed ==
    ASSUME PMTypeOK, NEW p, NEW tp \in Nat, NEW sl \in Nat,
           p.execution_fee_escrow \in {0} \cup {c.tp_sl_execution_fee : c \in Configs},
           p.take_profit \in Nat, p.stop_loss \in Nat,
           p.execution_fee_escrow > 0 => p.take_profit # 0 \/ p.stop_loss # 0,
           (\A c \in Configs : c.tp_sl_execution_fee > 0)
             => (p.take_profit # 0 \/ p.stop_loss # 0 => p.execution_fee_escrow > 0)
    PROVE  LET e == p.execution_fee_escrow + escrow_owed(p, tp, sl)
               has_orders == Resulting(p.take_profit, tp) # 0 \/ Resulting(p.stop_loss, sl) # 0
           IN  /\ e \in Nat /\ escrow_owed(p, tp, sl) \in Nat
               /\ Resulting(p.take_profit, tp) \in Nat /\ Resulting(p.stop_loss, sl) \in Nat
               /\ e \in {0} \cup {c.tp_sl_execution_fee : c \in Configs}
               /\ e > 0 => has_orders
               /\ (\A c \in Configs : c.tp_sl_execution_fee > 0) => (has_orders => e > 0)
<1> DEFINE prior == p.execution_fee_escrow
           rt == Resulting(p.take_profit, tp)
           rs == Resulting(p.stop_loss, sl)
           has_orders == rt # 0 \/ rs # 0
           fee == cfg.tp_sl_execution_fee
           d == escrow_delta(prior, rt, rs)
<1>1. cfg \in Configs /\ \A c \in Configs : c.tp_sl_execution_fee \in Nat
  BY PositionManagerAssumption DEF PMTypeOK, ValidConfig, Config
<1>2. fee \in Nat /\ prior \in Nat /\ rt \in Nat /\ rs \in Nat
  BY <1>1 DEF Resulting
<1>3. prior > 0 => has_orders
  BY <1>2 DEF Resulting
<1>4. d = CASE prior = 0 /\ has_orders -> fee
            [] prior > 0 /\ ~has_orders -> -prior
            [] OTHER -> 0
  BY DEF escrow_delta
<1>5. escrow_owed(p, tp, sl) = AtLeastZero(d)
  BY DEF escrow_owed
<1> HIDE DEF prior, rt, rs, fee, d
<1>6. d = IF prior = 0 /\ has_orders THEN fee ELSE 0
  <2>1. CASE prior = 0 /\ has_orders
    BY <1>4, <2>1
  <2>2. CASE ~(prior = 0 /\ has_orders)
    BY <1>2, <1>3, <1>4, <2>2
  <2> QED
    BY <2>1, <2>2
<1>7. escrow_owed(p, tp, sl) = IF prior = 0 /\ has_orders THEN fee ELSE 0
  BY <1>2, <1>5, <1>6 DEF AtLeastZero
<1>8. CASE prior = 0 /\ has_orders
  BY <1>1, <1>2, <1>7, <1>8 DEF prior, rt, rs, fee
<1>9. CASE ~(prior = 0 /\ has_orders)
  <2>1. escrow_owed(p, tp, sl) = 0 /\ prior + 0 = prior
    BY <1>2, <1>7, <1>9
  <2>2. has_orders => prior > 0
    BY <1>2, <1>9
  <2> QED
    BY <1>2, <1>3, <2>1, <2>2 DEF prior, rt, rs
<1> QED
  BY <1>8, <1>9

(* An open that passes the utilization gate with a cap below 100% reserves less
   than the basis holds.                                                     *)
LEMMA GateKeepsReserveCovered ==
    ASSUME PMTypeOK, Funded(vault), NEW size \in Nat,
           WithinUtilizationCap(size),
           total_assets_excl_pnl(vault) > 0,
           cfg.max_utilization_ratio < BPS
    PROVE  vault.reserved_usdc + size <= vault.balance - vault.unclaimed_fees
<1> DEFINE r == vault.reserved_usdc + size
           b == total_assets_excl_pnl(vault)
           x == r * BPS
           u == x \div b
<1>1. /\ r \in Nat /\ b \in Nat \ {0} /\ b = vault.balance - vault.unclaimed_fees
      /\ BPS \in Nat \ {0} /\ cfg.max_utilization_ratio \in Nat
  BY ConfigType DEF Funded, Ledger, total_assets_excl_pnl, AtLeastZero
<1>2. calc_utilization_bps(r, b) <= cfg.max_utilization_ratio
  BY DEF WithinUtilizationCap
<1> HIDE DEF r, b
<1>3. x \in Nat
  BY <1>1
<1>4. calc_utilization_bps(r, b) = u
  BY <1>1, <1>3 DEF calc_utilization_bps, TruncDiv
<1>5. PICK rest \in 0..(b - 1) : u \in Nat /\ x = b * u + rest
  <2> HIDE DEF x
  <2> QED
    BY <1>1, <1>3, DivisionFacts
<1> HIDE DEF u
<1>6. BPS - 1 - u \in Nat
  BY <1>1, <1>2, <1>4, <1>5
<1> SUFFICES ASSUME r > b PROVE FALSE
  BY <1>1 DEF r
<1>7. r - b \in Nat /\ (r - b) * BPS \in Nat /\ b * (BPS - 1 - u) \in Nat
  BY <1>1, <1>6
<1>8. r * BPS = (r - b) * BPS + b * (BPS - 1 - u) + b * u + b
  BY <1>1, <1>5
<1>9. b * u \in Nat
  BY <1>1, <1>5
<1> QED
  BY <1>1, <1>5, <1>7, <1>8, <1>9

(* What an increase adds to. *)
Base(k, side) == IF k \in DOMAIN positions THEN positions[k] ELSE Blank(side)

LEMMA BaseType ==
    ASSUME PMInv, NEW k, NEW side \in Sides, Base(k, side).side = side
    PROVE  LET p == Base(k, side)
               has_orders == p.take_profit # 0 \/ p.stop_loss # 0
           IN  /\ p.collateral \in Nat /\ p.size \in Nat /\ p.entry_price \in Nat
               /\ p.entry_borrow_index \in Nat /\ p.entry_funding_index \in Int
               /\ p.take_profit \in Nat /\ p.stop_loss \in Nat
               /\ p.execution_fee_escrow \in {0} \cup {c.tp_sl_execution_fee : c \in Configs}
               /\ p.execution_fee_escrow \in Nat
               /\ p.execution_fee_escrow > 0 => has_orders
               /\ (\A c \in Configs : c.tp_sl_execution_fee > 0)
                    => (has_orders => p.execution_fee_escrow > 0)
               /\ At(Custody, k) = p.collateral + p.execution_fee_escrow
               /\ At(OpenSizes, k) = p.size
               /\ At(SideSizes(k[2], side), k) = p.size
               /\ \A other \in Sides \ {side} : At(SideSizes(k[2], other), k) = 0
<1>1. CASE k \in DOMAIN positions
  <2>1. Base(k, side) = positions[k] /\ positions[k] \in Position
    BY <1>1 DEF Base, PMInv, PMTypeOK
  <2>2. /\ At(Custody, k) = positions[k].collateral + positions[k].execution_fee_escrow
        /\ At(OpenSizes, k) = positions[k].size
    BY <1>1 DEF At, Custody, OpenSizes
  <2>3. /\ At(SideSizes(k[2], side), k) = positions[k].size
        /\ \A other \in Sides \ {side} : At(SideSizes(k[2], other), k) = 0
    <3>1. positions[k].side = side
      BY <2>1
    <3> QED
      BY <1>1, <3>1 DEF At, SideSizes
  <2>4. LET p == positions[k]
            has_orders == p.take_profit # 0 \/ p.stop_loss # 0
        IN  /\ p.execution_fee_escrow \in {0} \cup {c.tp_sl_execution_fee : c \in Configs}
            /\ p.execution_fee_escrow > 0 => has_orders
            /\ (\A c \in Configs : c.tp_sl_execution_fee > 0)
                 => (has_orders => p.execution_fee_escrow > 0)
    BY <1>1 DEF PMInv, EscrowMatchesOrders
  <2> QED
    BY <2>1, <2>2, <2>3, <2>4 DEF Position
<1>2. CASE k \notin DOMAIN positions
  <2>1. /\ At(Custody, k) = 0 /\ At(OpenSizes, k) = 0
        /\ \A other \in Sides : At(SideSizes(k[2], other), k) = 0
    BY <1>2 DEF At, Custody, OpenSizes, SideSizes
  <2> QED
    BY <1>2, <2>1 DEF Base, Blank
<1> QED
  BY <1>1, <1>2

(* An increase adds to size, collateral and escrow, and leaves a well-formed
   position whose escrow matches its orders.                                 *)
LEMMA IncreasedType ==
    ASSUME PMInv, NEW k, NEW side \in Sides, Base(k, side).side = side,
           NEW m \in Market, NEW size \in Nat \ {0}, NEW collateral \in Nat \ {0},
           NEW tp \in Nat, NEW sl \in Nat, NEW mark \in Nat
    PROVE  LET p == Base(k, side)
               q == Increased(p, m, size, collateral, tp, sl, mark)
               has_orders == q.take_profit # 0 \/ q.stop_loss # 0
           IN  /\ q \in Position
               /\ q.size = p.size + size /\ q.collateral = p.collateral + collateral
               /\ q.side = side
               /\ q.execution_fee_escrow = p.execution_fee_escrow + escrow_owed(p, tp, sl)
               /\ escrow_owed(p, tp, sl) \in Nat
               /\ q.execution_fee_escrow \in {0} \cup {c.tp_sl_execution_fee : c \in Configs}
               /\ q.execution_fee_escrow > 0 => has_orders
               /\ (\A c \in Configs : c.tp_sl_execution_fee > 0)
                    => (has_orders => q.execution_fee_escrow > 0)
<1> DEFINE p == Base(k, side)
           q == Increased(p, m, size, collateral, tp, sl, mark)
           esc == p.execution_fee_escrow + escrow_owed(p, tp, sl)
           rt == Resulting(p.take_profit, tp)
           rs == Resulting(p.stop_loss, sl)
           ep == update_global_avg_price(p.entry_price, p.size, mark, size)
           eb == update_global_avg_price(p.entry_borrow_index, p.size, m.borrow_index, size)
           ef == update_global_avg_price(p.entry_funding_index, p.size, m.funding_index, size)
<1>1. /\ p.collateral \in Nat /\ p.size \in Nat /\ p.entry_price \in Nat
      /\ p.entry_borrow_index \in Nat /\ p.entry_funding_index \in Int
      /\ p.take_profit \in Nat /\ p.stop_loss \in Nat
      /\ p.execution_fee_escrow \in {0} \cup {c.tp_sl_execution_fee : c \in Configs}
      /\ p.execution_fee_escrow > 0 => p.take_profit # 0 \/ p.stop_loss # 0
      /\ (\A c \in Configs : c.tp_sl_execution_fee > 0)
           => (p.take_profit # 0 \/ p.stop_loss # 0 => p.execution_fee_escrow > 0)
      /\ p.side = side
  BY BaseType
<1>2. PMTypeOK /\ now \in Nat
  BY DEF PMInv, PMTypeOK, VaultTypeOK
<1>3. q = [collateral |-> p.collateral + collateral, size |-> p.size + size,
           side |-> p.side, entry_price |-> ep, entry_borrow_index |-> eb,
           entry_funding_index |-> ef, last_increased_time |-> now,
           take_profit |-> rt, stop_loss |-> rs, execution_fee_escrow |-> esc]
  BY DEF Increased
<1> HIDE DEF p
<1>4. /\ esc \in Nat /\ escrow_owed(p, tp, sl) \in Nat /\ rt \in Nat /\ rs \in Nat
      /\ esc \in {0} \cup {c.tp_sl_execution_fee : c \in Configs}
      /\ esc > 0 => rt # 0 \/ rs # 0
      /\ (\A c \in Configs : c.tp_sl_execution_fee > 0)
           => (rt # 0 \/ rs # 0 => esc > 0)
  BY <1>1, <1>2, EscrowOwed
<1>5. m.borrow_index \in Nat /\ m.funding_index \in Int
  BY DEF Market
<1>6. ep \in Nat
  <2>1. /\ p.entry_price \in Int /\ p.entry_price >= 0 /\ p.size \in Nat
        /\ mark \in Int /\ mark >= 0 /\ size \in Nat
    BY <1>1
  <2>2. update_global_avg_price(p.entry_price, p.size, mark, size) \in Nat
    BY <2>1, AverageType
  <2> QED
    BY <2>2
<1>7. eb \in Nat
  <2>1. /\ p.entry_borrow_index \in Int /\ p.entry_borrow_index >= 0 /\ p.size \in Nat
        /\ m.borrow_index \in Int /\ m.borrow_index >= 0 /\ size \in Nat
    BY <1>1, <1>5
  <2>2. update_global_avg_price(p.entry_borrow_index, p.size, m.borrow_index, size) \in Nat
    BY <2>1, AverageType
  <2> QED
    BY <2>2
<1>8. ef \in Int
  BY <1>1, <1>5, AverageType
<1> HIDE DEF esc, rt, rs, ep, eb, ef, q
<1>9. p.collateral + collateral \in Nat \ {0} /\ p.size + size \in Nat \ {0}
  BY <1>1
<1>10. q \in Position
  BY <1>1, <1>2, <1>3, <1>4, <1>6, <1>7, <1>8, <1>9 DEF Position
<1>11. /\ q.size = p.size + size /\ q.collateral = p.collateral + collateral
       /\ q.side = side /\ q.execution_fee_escrow = esc
       /\ q.take_profit = rt /\ q.stop_loss = rs
  BY <1>1, <1>3
<1> QED
  BY <1>4, <1>10, <1>11 DEF p, q, esc

(* An open or an addition keeps the inductive invariant; behind a cap below 100%
   it also keeps a solvent vault with a basis solvent.                       *)
LEMMA IncreaseInv ==
    ASSUME PMInv, NEW t \in Traders, NEW s \in Symbols,
           NEW size \in Nat, NEW collateral \in Nat, NEW side \in Sides,
           NEW tp \in Nat, NEW sl \in Nat, NEW acceptable, NEW mark \in Nat,
           IncreasePosition(t, s, size, collateral, side, tp, sl, acceptable, mark)
    PROVE  /\ PMInv'
           /\ (/\ total_assets_excl_pnl(vault) > 0
               /\ cfg.max_utilization_ratio < BPS) => Solvent(vault')
<1> DEFINE k == <<t, s>>
           p == Base(k, side)
           M == Refreshed(s)
           q == Increased(p, M, size, collateral, tp, sl, mark)
           a == update_global_avg_price(M.avg[side], M.oi[side], mark, size)
           n == M.oi[side] + size
           m == WithSide(M, side, a, n)
           fee == calc_open_fee(size, cfg.open_fee_bps)
           paid == recv_revenue(vault, fee)
           left == reserve_liquidity(paid, size)
           owed == escrow_owed(p, tp, sl)
<1>1. /\ PMTypeOK /\ VaultInv /\ Funded(vault)
      /\ k \in Traders \X Symbols /\ k[2] = s
      /\ pm_balance \in Nat /\ increases \in 0..MaxIncreases
      /\ vault.reserved_usdc \in Nat
  BY DEF PMInv, PMTypeOK, VaultInv, VaultTypeOK, FeesFunded, Funded, Ledger
<1>2. M \in Market /\ M.oi = get_market(s).oi
  BY RefreshedType
<1>3. /\ increases < MaxIncreases
      /\ size > 0 /\ collateral > 0
      /\ p.side = side
      /\ WithinUtilizationCap(size)
      /\ CanRecvRevenue(vault, fee)
      /\ positions' = Put(positions, k, q)
      /\ pm_balance' = pm_balance + collateral + owed
      /\ BillWindow(s)
      /\ increases' = increases + 1
      /\ UNCHANGED <<lpVars, clockVars, controlVars, realized_pnl, paused_at>>
  BY DEF IncreasePosition, Base
<1>4. markets' = Put(markets, s, m) /\ RefreshPnl(s, m, mark, left)
  <2>1. m = [M EXCEPT !.avg[side] = update_global_avg_price(@, M.oi[side], mark, size),
                      !.oi[side] = @ + size]
    BY <1>2 DEF Market, WithSide
  <2> HIDE DEF m
  <2> QED
    BY <2>1 DEF IncreasePosition
<1> HIDE DEF p, M, m
<1>5. size \in Nat \ {0} /\ collateral \in Nat \ {0}
  BY <1>3
<1>6. /\ q \in Position
      /\ q.size = p.size + size /\ q.collateral = p.collateral + collateral
      /\ q.side = side
      /\ q.execution_fee_escrow = p.execution_fee_escrow + owed
      /\ owed \in Nat
      /\ q.execution_fee_escrow \in {0} \cup {c.tp_sl_execution_fee : c \in Configs}
      /\ q.execution_fee_escrow > 0 => q.take_profit # 0 \/ q.stop_loss # 0
      /\ (\A c \in Configs : c.tp_sl_execution_fee > 0)
           => (q.take_profit # 0 \/ q.stop_loss # 0 => q.execution_fee_escrow > 0)
  BY <1>2, <1>3, <1>5, IncreasedType DEF p
<1>7. /\ p.collateral \in Nat /\ p.size \in Nat /\ p.execution_fee_escrow \in Nat
      /\ At(Custody, k) = p.collateral + p.execution_fee_escrow
      /\ At(OpenSizes, k) = p.size
      /\ At(SideSizes(k[2], side), k) = p.size
      /\ \A other \in Sides \ {side} : At(SideSizes(k[2], other), k) = 0
  BY <1>3, BaseType DEF p
<1> HIDE DEF q, owed
<1>8. /\ DOMAIN positions' = DOMAIN positions \cup {k}
      /\ positions' \in [DOMAIN positions' -> Position]
      /\ positions'[k] = q
      /\ \A j \in DOMAIN positions \ {k} : positions'[j] = positions[j]
      /\ DifferAt(positions, positions', k)
  <2>1. positions \in [DOMAIN positions -> Position]
    BY <1>1 DEF PMTypeOK
  <2> QED
    BY <1>3, <1>6, <2>1 DEF Put, DifferAt
<1>9. /\ At(Custody', k) = q.collateral + q.execution_fee_escrow
      /\ At(OpenSizes', k) = q.size
      /\ At(SideSizes(s, side)', k) = q.size
      /\ \A other \in Sides \ {side} : At(SideSizes(s, other)', k) = 0
  <2>1. /\ At(Custody', k) = q.collateral + q.execution_fee_escrow
        /\ At(OpenSizes', k) = q.size
    BY <1>8 DEF At, Custody, OpenSizes
  <2>2. /\ At(SideSizes(s, side)', k) = q.size
        /\ \A other \in Sides \ {side} : At(SideSizes(s, other)', k) = 0
    BY <1>1, <1>6, <1>8 DEF At, SideSizes
  <2> QED
    BY <2>1, <2>2
<1>10. n \in Nat /\ a \in Nat /\ M.oi[side] \in Nat
  <2>1. M.oi[side] \in Nat /\ M.avg[side] \in Nat
    BY <1>2 DEF Market
  <2>2. M.avg[side] \in Int /\ M.avg[side] >= 0 /\ mark \in Int /\ mark >= 0
    BY <2>1
  <2>3. update_global_avg_price(M.avg[side], M.oi[side], mark, size) \in Nat
    BY <2>1, <2>2, AverageType
  <2> QED
    BY <2>1, <2>3
<1>11. /\ m \in Market
       /\ m.last_index_update = M.last_index_update
       /\ m.oi[side] = n
       /\ \A other \in Sides \ {side} : m.oi[other] = M.oi[other]
  <2> HIDE DEF a, n
  <2>0. M \in Market /\ a \in Nat /\ n \in Nat /\ side \in Sides
    BY <1>2, <1>10
  <2>1. WithSide(M, side, a, n) \in Market
    BY <2>0, MarketReplaced
  <2>2. WithSide(M, side, a, n).last_index_update = M.last_index_update
    BY <2>0, MarketReplaced
  <2>3. WithSide(M, side, a, n).oi[side] = n
    BY <2>0, MarketReplaced
  <2>4. \A other \in Sides \ {side} : WithSide(M, side, a, n).oi[other] = M.oi[other]
    BY <2>0, MarketReplaced
  <2> QED
    BY <2>1, <2>2, <2>3, <2>4 DEF m
<1>12. fee \in Int
  <2>1. cfg.open_fee_bps \in Nat /\ BPS \in Nat \ {0}
    BY <1>1, ConfigType DEF Config
  <2>2. size * cfg.open_fee_bps \in Nat
    BY <2>1, ProductType
  <2>3. TruncDiv(size * cfg.open_fee_bps, BPS) \in Int
    BY <2>1, <2>2, TruncDivType
  <2> QED
    BY <2>3 DEF calc_open_fee
<1> HIDE DEF a, n, fee
<1>13. /\ Funded(paid) /\ paid.reserved_usdc = vault.reserved_usdc
       /\ paid.balance - paid.unclaimed_fees >= vault.balance - vault.unclaimed_fees
  BY <1>1, <1>3, <1>12, RevenueKeepsFunded
<1> HIDE DEF paid
<1>14. /\ Funded(left) /\ left.reserved_usdc = paid.reserved_usdc + size
       /\ left.balance = paid.balance /\ left.unclaimed_fees = paid.unclaimed_fees
  BY <1>13, ReserveKeepsFunded
<1> HIDE DEF left
<1>15. /\ VaultInv' /\ vault'.reserved_usdc = left.reserved_usdc
       /\ market_pnl' \in [Symbols -> Int] /\ total_pnl' \in Int
       /\ Solvent(left) => Solvent(vault')
  <2>1. UNCHANGED <<lpVars, clockVars>>
    BY <1>3
  <2> QED
    BY <1>4, <1>11, <1>14, <2>1, PushKeepsVault
<1>16. ASSUME total_assets_excl_pnl(vault) > 0, cfg.max_utilization_ratio < BPS
       PROVE  Solvent(vault')
  <2>1. vault.reserved_usdc + size <= vault.balance - vault.unclaimed_fees
    BY <1>1, <1>3, <1>16, GateKeepsReserveCovered
  <2>2. Solvent(left)
    BY <1>1, <1>13, <1>14, <2>1 DEF Solvent, Funded, Ledger
  <2> QED
    BY <1>15, <2>2
<1>17. FinitelyMany' /\ CustodyExact' /\ ReservationsMatchOpenInterest'
  <2>1. pm_balance' = pm_balance - At(Custody, k) + At(Custody', k)
    BY <1>1, <1>3, <1>5, <1>6, <1>7, <1>9
  <2>2. vault'.reserved_usdc
          = vault.reserved_usdc - At(OpenSizes, k) + At(OpenSizes', k)
    BY <1>1, <1>6, <1>7, <1>9, <1>13, <1>14, <1>15
  <2>3. \A other \in Sides :
           m.oi[other] = get_market(s).oi[other] - At(SideSizes(s, other), k)
                            + At(SideSizes(s, other)', k)
    <3> SUFFICES ASSUME NEW other \in Sides
                 PROVE  m.oi[other] = get_market(s).oi[other]
                                         - At(SideSizes(s, other), k)
                                         + At(SideSizes(s, other)', k)
      OBVIOUS
    <3>1. M.oi[other] \in Nat
      BY <1>2 DEF Market
    <3>2. CASE other = side
      <4>1. At(SideSizes(s, other), k) = p.size /\ At(SideSizes(s, other)', k) = p.size + size
        BY <1>1, <1>6, <1>7, <1>9, <3>2
      <4>2. m.oi[other] = M.oi[other] + size
        BY <1>11, <3>2 DEF n
      <4> QED
        BY <1>2, <1>7, <3>1, <4>1, <4>2
    <3>3. CASE other # side
      <4>1. At(SideSizes(s, other), k) = 0 /\ At(SideSizes(s, other)', k) = 0
        BY <1>1, <1>7, <1>9, <3>3
      <4> QED
        BY <1>2, <1>11, <3>1, <3>3, <4>1
    <3> QED
      BY <3>2, <3>3
  <2> QED
    BY <1>1, <1>4, <1>8, <1>11, <2>1, <2>2, <2>3, BooksStayExact
<1>18. EscrowMatchesOrders'
  <2>1. EscrowMatchesOrders
    BY DEF PMInv
  <2> QED
    BY <1>6, <1>8, <2>1 DEF EscrowMatchesOrders
<1>19. /\ billed' \in [Symbols -> [0..MaxTime -> Nat]]
       /\ LiveSecondsBilledAtMostOnce' /\ BilledBeforeUpdate' /\ PausesBehindClamps'
  <2>1. UNCHANGED <<now, pm_paused, last_pause_time, last_unpause_time, paused_at>>
    BY <1>3 DEF clockVars, controlVars
  <2>2. m.last_index_update = Refreshed(s).last_index_update
    BY <1>11 DEF M
  <2> QED
    BY <1>3, <1>4, <1>11, <2>1, <2>2, BillingStaysOnce
<1>20. PMTypeOK'
  <2>1. VaultTypeOK'
    BY <1>15 DEF VaultInv
  <2>2. /\ DOMAIN markets' = DOMAIN markets \cup {s}
        /\ markets' \in [DOMAIN markets' -> Market]
    <3>1. markets \in [DOMAIN markets -> Market]
      BY <1>1 DEF PMTypeOK
    <3> QED
      BY <1>4, <1>11, <3>1 DEF Put
  <2>3. pm_balance' \in Nat /\ realized_pnl' \in Int /\ increases' \in 0..MaxIncreases
    <3>1. realized_pnl' = realized_pnl /\ realized_pnl \in Int /\ MaxIncreases \in Nat
      BY <1>1, <1>3, PositionManagerAssumption DEF PMTypeOK
    <3> QED
      BY <1>1, <1>3, <1>6, <3>1
  <2>4. DOMAIN positions' \subseteq Traders \X Symbols /\ DOMAIN markets' \subseteq Symbols
        /\ \A j \in DOMAIN positions' : j[2] \in DOMAIN markets'
    BY <1>1, <1>8, <2>2 DEF PMTypeOK
  <2>5. UNCHANGED <<pm_paused, last_pause_time, last_unpause_time, max_leverage,
                    disabled, cfg, paused_at>>
    BY <1>3 DEF controlVars
  <2> QED
    BY <1>1, <1>8, <1>15, <1>19, <2>1, <2>2, <2>3, <2>4, <2>5 DEF PMTypeOK
<1> QED
  BY <1>15, <1>16, <1>17, <1>18, <1>19, <1>20 DEF PMInv

-----------------------------------------------------------------------------
(* Orders, indices, administration and the vault's own steps *)

WithOrders(p, escrow, tp, sl) ==
    [p EXCEPT !.execution_fee_escrow = escrow, !.take_profit = tp, !.stop_loss = sl]

LEMMA OrdersReplaced ==
    ASSUME NEW p \in Position, NEW e \in Nat, NEW tp \in Nat, NEW sl \in Nat
    PROVE  LET q == WithOrders(p, e, tp, sl)
           IN  /\ q \in Position
               /\ q.size = p.size /\ q.collateral = p.collateral /\ q.side = p.side
               /\ q.execution_fee_escrow = e /\ q.take_profit = tp /\ q.stop_loss = sl
<1> DEFINE r == [p EXCEPT !.execution_fee_escrow = e]
           w == [r EXCEPT !.take_profit = tp]
<1>1. r = [collateral |-> p.collateral, size |-> p.size, side |-> p.side,
           entry_price |-> p.entry_price, entry_borrow_index |-> p.entry_borrow_index,
           entry_funding_index |-> p.entry_funding_index,
           last_increased_time |-> p.last_increased_time,
           take_profit |-> p.take_profit, stop_loss |-> p.stop_loss,
           execution_fee_escrow |-> e]
  BY DEF Position
<1>2. WithOrders(p, e, tp, sl) = [w EXCEPT !.stop_loss = sl]
  BY DEF WithOrders
<1> HIDE DEF r
<1>3. w = [collateral |-> p.collateral, size |-> p.size, side |-> p.side,
           entry_price |-> p.entry_price, entry_borrow_index |-> p.entry_borrow_index,
           entry_funding_index |-> p.entry_funding_index,
           last_increased_time |-> p.last_increased_time,
           take_profit |-> tp, stop_loss |-> p.stop_loss,
           execution_fee_escrow |-> e]
  BY <1>1
<1> HIDE DEF w
<1>4. WithOrders(p, e, tp, sl)
        = [collateral |-> p.collateral, size |-> p.size, side |-> p.side,
           entry_price |-> p.entry_price, entry_borrow_index |-> p.entry_borrow_index,
           entry_funding_index |-> p.entry_funding_index,
           last_increased_time |-> p.last_increased_time,
           take_profit |-> tp, stop_loss |-> sl, execution_fee_escrow |-> e]
  BY <1>2, <1>3
<1> QED
  BY <1>4 DEF Position

(* A step that touches no amount, market or vault keeps the invariant if the
   controls keep their types and the pauses stay behind the clamps.          *)
LEMMA ControlInv ==
    ASSUME PMInv, UNCHANGED <<vaultVars, bookVars, increases, historyVars>>,
           pm_paused' \in BOOLEAN, last_pause_time' \in Nat,
           last_unpause_time' \in Nat,
           DOMAIN max_leverage' \subseteq Symbols,
           max_leverage' \in [DOMAIN max_leverage' -> MIN_LEVERAGE..MAX_LEVERAGE_CAP],
           disabled' \subseteq Symbols, cfg' \in Configs,
           PausesBehindClamps'
    PROVE  PMInv' /\ UNCHANGED vault
<1>1. /\ UNCHANGED <<vault, shares, supply, expiry, cooldown, now, startedAt>>
      /\ UNCHANGED <<positions, markets, market_pnl, total_pnl, realized_pnl,
                     pm_balance, increases, paused_at, billed>>
  BY DEF vaultVars, bookVars, historyVars
<1>2. VaultInv'
  <2>1. VaultInv /\ [VaultNext]_vaultVars
    BY DEF PMInv
  <2> QED
    BY <2>1, VaultStepInv
<1>3. FinitelyMany' /\ CustodyExact' /\ ReservationsMatchOpenInterest'
  <2>1. Custody' = Custody /\ OpenSizes' = OpenSizes
    BY <1>1 DEF Custody, OpenSizes
  <2>2. \A s, side : SideSizes(s, side)' = SideSizes(s, side)
    BY <1>1 DEF SideSizes
  <2>3. FinitelyMany /\ CustodyExact /\ ReservationsMatchOpenInterest
    BY DEF PMInv
  <2>4. FinitelyMany'
    BY <2>1, <2>2, <2>3 DEF FinitelyMany
  <2>5. CustodyExact'
    BY <1>1, <2>1, <2>3 DEF CustodyExact
  <2>6. ReservationsMatchOpenInterest'
    BY <1>1, <2>1, <2>2, <2>3 DEF ReservationsMatchOpenInterest
  <2> QED
    BY <2>4, <2>5, <2>6
<1>4. EscrowMatchesOrders' /\ LiveSecondsBilledAtMostOnce' /\ BilledBeforeUpdate'
  BY <1>1 DEF PMInv, EscrowMatchesOrders, LiveSecondsBilledAtMostOnce,
              BilledBeforeUpdate
<1>5. PMTypeOK'
  <2>1. VaultTypeOK' /\ PMTypeOK
    BY <1>2 DEF VaultInv, PMInv
  <2> QED
    BY <1>1, <2>1 DEF PMTypeOK
<1> QED
  BY <1>1, <1>2, <1>3, <1>4, <1>5 DEF PMInv

(* The admin's and the pausers' calls.  An unpause moves the clamp behind which
   the pause that ends lies; a pause sets the one its seconds will lie behind. *)
LEMMA AdminInv ==
    ASSUME PMInv, AdminStep
    PROVE  PMInv' /\ UNCHANGED vault
<1>1. /\ PMTypeOK /\ PausesBehindClamps
      /\ now \in Nat \ {0} /\ pm_paused \in BOOLEAN
      /\ last_pause_time \in Nat /\ last_unpause_time \in Nat
      /\ DOMAIN max_leverage \subseteq Symbols
      /\ max_leverage \in [DOMAIN max_leverage -> MIN_LEVERAGE..MAX_LEVERAGE_CAP]
      /\ disabled \subseteq Symbols /\ cfg \in Configs
      /\ MaxTime \in Nat
  BY VaultAssumption DEF PMInv, PMTypeOK, VaultTypeOK
<1>2. CASE Pause
  <2>1. UNCHANGED <<vaultVars, bookVars, last_unpause_time, max_leverage, disabled,
                    cfg, increases, historyVars>>
        /\ ~pm_paused /\ pm_paused' = TRUE /\ last_pause_time' = now
    BY <1>2 DEF Pause
  <2>2. PausesBehindClamps'
    BY <1>1, <2>1 DEF PausesBehindClamps, vaultVars, bookVars, historyVars
  <2> QED
    BY <1>1, <2>1, <2>2, ControlInv
<1>3. CASE Unpause
  <2>1. UNCHANGED <<vaultVars, bookVars, last_pause_time, max_leverage, disabled,
                    cfg, increases, historyVars>>
        /\ pm_paused' = FALSE /\ last_unpause_time' = now
    BY <1>3 DEF Unpause
  <2>2. PausesBehindClamps'
    BY <1>1, <2>1 DEF PausesBehindClamps, vaultVars, bookVars, historyVars
  <2> QED
    BY <1>1, <2>1, <2>2, ControlInv
<1>4. ASSUME NEW d, d \subseteq Symbols, SetDisabled(d)
      PROVE  PMInv' /\ UNCHANGED vault
  <2>1. UNCHANGED <<vaultVars, bookVars, pm_paused, last_pause_time,
                    last_unpause_time, max_leverage, cfg, increases, historyVars>>
        /\ disabled' = d
    BY <1>4 DEF SetDisabled
  <2>2. PausesBehindClamps'
    BY <1>1, <2>1 DEF PausesBehindClamps, vaultVars, bookVars, historyVars
  <2> QED
    BY <1>1, <1>4, <2>1, <2>2, ControlInv
<1>5. ASSUME NEW s \in Symbols, NEW leverage, SetMaxLeverage(s, leverage)
      PROVE  PMInv' /\ UNCHANGED vault
  <2>1. UNCHANGED <<vaultVars, bookVars, pm_paused, last_pause_time,
                    last_unpause_time, disabled, cfg, increases, historyVars>>
        /\ leverage \in MIN_LEVERAGE..MAX_LEVERAGE_CAP
        /\ max_leverage' = Put(max_leverage, s, leverage)
    BY <1>5 DEF SetMaxLeverage
  <2>2. PausesBehindClamps'
    BY <1>1, <2>1 DEF PausesBehindClamps, vaultVars, bookVars, historyVars
  <2>3. /\ DOMAIN max_leverage' \subseteq Symbols
        /\ max_leverage' \in [DOMAIN max_leverage' -> MIN_LEVERAGE..MAX_LEVERAGE_CAP]
    BY <1>1, <2>1 DEF Put
  <2> QED
    BY <1>1, <2>1, <2>2, <2>3, ControlInv
<1>6. ASSUME NEW c \in Configs, SetConfig(c)
      PROVE  PMInv' /\ UNCHANGED vault
  <2>1. UNCHANGED <<vaultVars, bookVars, pm_paused, last_pause_time,
                    last_unpause_time, max_leverage, disabled, increases, historyVars>>
        /\ cfg' = c
    BY <1>6 DEF SetConfig
  <2>2. PausesBehindClamps'
    BY <1>1, <2>1 DEF PausesBehindClamps, vaultVars, bookVars, historyVars
  <2> QED
    BY <1>1, <2>1, <2>2, ControlInv
<1>7. ASSUME NEW s \in Symbols, DisableMarket(s) \/ EnableMarket(s)
      PROVE  PMInv' /\ UNCHANGED vault
  <2>1. disabled \cup {s} \subseteq Symbols /\ disabled \ {s} \subseteq Symbols
    BY <1>1
  <2> QED
    BY <1>4, <1>7, <2>1 DEF DisableMarket, EnableMarket
<1> QED
  BY <1>2, <1>3, <1>5, <1>6, <1>7 DEF AdminStep

(* Setting, changing or cancelling TP/SL orders moves the escrow between the
   trader and the contract by exactly what the position's escrow changes.    *)
LEMMA SetTpSlInv ==
    ASSUME PMInv, NEW k \in DOMAIN positions, NEW tp \in Nat, NEW sl \in Nat,
           SetTpSl(k, tp, sl)
    PROVE  PMInv' /\ UNCHANGED vault
<1> DEFINE p == positions[k]
           prior == p.execution_fee_escrow
           has_orders == tp # 0 \/ sl # 0
           fee == cfg.tp_sl_execution_fee
           delta == escrow_delta(prior, tp, sl)
           e == prior + delta
           q == WithOrders(p, e, tp, sl)
<1>1. /\ PMTypeOK /\ VaultInv /\ EscrowMatchesOrders
      /\ positions \in [DOMAIN positions -> Position] /\ p \in Position
      /\ k \in Traders \X Symbols /\ prior \in Nat
      /\ cfg \in Configs /\ fee \in Nat /\ pm_balance \in Nat
      /\ \A c \in Configs : c.tp_sl_execution_fee \in Nat
  BY PositionManagerAssumption
     DEF PMInv, PMTypeOK, Position, ValidConfig, Config
<1>2. /\ pm_balance + delta >= 0
      /\ pm_balance' = pm_balance + delta
      /\ UNCHANGED <<vaultVars, markets, market_pnl, total_pnl, realized_pnl,
                     controlVars, increases, historyVars>>
  BY DEF SetTpSl
<1>3. positions' = [positions EXCEPT ![k] = q]
  BY <1>1 DEF SetTpSl, WithOrders
<1>4. /\ delta \in Int /\ e \in Nat
      /\ e \in {0} \cup {c.tp_sl_execution_fee : c \in Configs}
      /\ e > 0 => has_orders
      /\ (\A c \in Configs : c.tp_sl_execution_fee > 0) => (has_orders => e > 0)
  <2>1. delta = CASE prior = 0 /\ has_orders -> fee
                  [] prior > 0 /\ ~has_orders -> -prior
                  [] OTHER -> 0
    BY DEF escrow_delta
  <2>2. prior \in {0} \cup {c.tp_sl_execution_fee : c \in Configs}
    BY <1>1 DEF EscrowMatchesOrders
  <2> HIDE DEF prior, fee, delta
  <2>3. CASE prior = 0 /\ has_orders
    <3>1. delta = fee /\ e = fee
      BY <1>1, <2>1, <2>3
    <3>2. fee \in {c.tp_sl_execution_fee : c \in Configs}
      BY <1>1 DEF fee
    <3>3. (\A c \in Configs : c.tp_sl_execution_fee > 0) => fee > 0
      BY <1>1 DEF fee
    <3> QED
      BY <1>1, <2>3, <3>1, <3>2, <3>3
  <2>4. CASE prior > 0 /\ ~has_orders
    <3>1. delta = -prior /\ e = 0
      BY <1>1, <2>1, <2>4
    <3> QED
      BY <1>1, <2>4, <3>1
  <2>5. CASE ~(prior = 0 /\ has_orders) /\ ~(prior > 0 /\ ~has_orders)
    <3>1. delta = 0 /\ e = prior
      BY <1>1, <2>1, <2>5
    <3> QED
      BY <1>1, <2>2, <2>5, <3>1
  <2> QED
    BY <2>3, <2>4, <2>5
<1>5. /\ q \in Position
      /\ q.size = p.size /\ q.collateral = p.collateral /\ q.side = p.side
      /\ q.execution_fee_escrow = e /\ q.take_profit = tp /\ q.stop_loss = sl
  <2> HIDE DEF p, e
  <2>1. p \in Position /\ e \in Nat
    BY <1>1, <1>4
  <2> QED
    BY <2>1, OrdersReplaced
<1> HIDE DEF q, delta
<1>6. /\ DOMAIN positions' = DOMAIN positions
      /\ positions' \in [DOMAIN positions' -> Position]
      /\ positions'[k] = q
      /\ \A j \in DOMAIN positions \ {k} : positions'[j] = positions[j]
      /\ DifferAt(positions, positions', k)
  BY <1>1, <1>3, <1>5 DEF DifferAt
<1>7. /\ \A j \in DOMAIN positions : /\ positions'[j].size = positions[j].size
                                     /\ positions'[j].side = positions[j].side
      /\ At(Custody', k) = At(Custody, k) + delta
  <2>1. \A j \in DOMAIN positions : /\ positions'[j].size = positions[j].size
                                    /\ positions'[j].side = positions[j].side
    BY <1>5, <1>6
  <2>2. At(Custody, k) = p.collateral + prior /\ At(Custody', k) = q.collateral + e
    BY <1>5, <1>6 DEF At, Custody
  <2>3. p.collateral \in Nat
    BY <1>1 DEF Position
  <2> QED
    BY <1>1, <1>4, <1>5, <2>1, <2>2, <2>3
<1>8. FinitelyMany' /\ CustodyExact' /\ ReservationsMatchOpenInterest'
  <2>1. /\ FinitelyMany'
        /\ Total(Custody') = Total(Custody) - At(Custody, k) + At(Custody', k)
        /\ Total(Custody) \in Nat /\ At(Custody, k) \in Nat
    BY <1>6, SumsChange
  <2>2. CustodyExact'
    <3>1. pm_balance = Total(Custody)
      BY DEF PMInv, CustodyExact
    <3>2. pm_balance' = Total(Custody')
      BY <1>2, <1>4, <1>7, <2>1, <3>1
    <3> QED
      BY <3>2 DEF CustodyExact
  <2>3. OpenSizes' = OpenSizes /\ \A s, side : SideSizes(s, side)' = SideSizes(s, side)
    <3>1. OpenSizes' = OpenSizes
      BY <1>6, <1>7 DEF OpenSizes
    <3>2. ASSUME NEW s, NEW side
          PROVE  SideSizes(s, side)' = SideSizes(s, side)
      <4>1. {j \in DOMAIN positions' : j[2] = s /\ positions'[j].side = side}
              = {j \in DOMAIN positions : j[2] = s /\ positions[j].side = side}
        BY <1>6, <1>7
      <4> QED
        BY <1>6, <1>7, <4>1 DEF SideSizes
    <3> QED
      BY <3>1, <3>2
  <2>4. ReservationsMatchOpenInterest'
    <3>1. ReservationsMatchOpenInterest /\ UNCHANGED <<vault, markets>>
      BY <1>2 DEF PMInv, vaultVars
    <3> QED
      BY <2>3, <3>1 DEF ReservationsMatchOpenInterest
  <2> QED
    BY <2>1, <2>2, <2>4
<1>9. EscrowMatchesOrders'
  BY <1>1, <1>4, <1>5, <1>6 DEF EscrowMatchesOrders
<1>10. UNCHANGED <<vault, now, pm_paused, last_pause_time, last_unpause_time, max_leverage,
                   disabled, cfg, paused_at, billed>>
  BY <1>2 DEF vaultVars, controlVars, historyVars
<1>11. LiveSecondsBilledAtMostOnce' /\ BilledBeforeUpdate' /\ PausesBehindClamps'
  BY <1>2, <1>10 DEF PMInv, LiveSecondsBilledAtMostOnce, BilledBeforeUpdate,
                     PausesBehindClamps
<1>12. VaultInv'
  BY <1>1, <1>2, VaultStepInv
<1>13. PMTypeOK'
  <2>1. VaultTypeOK'
    BY <1>12 DEF VaultInv
  <2>2. pm_balance' \in Nat
    BY <1>1, <1>2, <1>4
  <2> QED
    BY <1>1, <1>2, <1>6, <1>10, <2>1, <2>2 DEF PMTypeOK
<1> QED
  BY <1>8, <1>9, <1>10, <1>11, <1>12, <1>13 DEF PMInv

(* A keeper's refresh of a market bills it and moves no money.               *)
LEMMA UpdateIndicesInv ==
    ASSUME PMInv, NEW s \in Symbols, NEW mark \in Nat, UpdateIndices(s, mark)
    PROVE  /\ PMInv'
           /\ Solvent(vault) => Solvent(vault')
<1> DEFINE m == Refreshed(s)
<1>1. /\ PMTypeOK /\ VaultInv /\ Funded(vault) /\ time_delta(s) \in Nat
  BY WindowType DEF PMInv, PMTypeOK, VaultInv, VaultTypeOK, FeesFunded, Funded
<1>2. /\ markets' = IF time_delta(s) > 0 THEN Put(markets, s, m) ELSE markets
      /\ RefreshPnl(s, m, mark, vault)
      /\ BillWindow(s)
      /\ UNCHANGED <<lpVars, clockVars, positions, realized_pnl, pm_balance,
                     controlVars, increases, paused_at>>
  BY DEF UpdateIndices
<1>3. m \in Market /\ m.oi = get_market(s).oi
  BY RefreshedType
<1> HIDE DEF m
<1>4. /\ VaultInv' /\ vault'.reserved_usdc = vault.reserved_usdc
      /\ market_pnl' \in [Symbols -> Int] /\ total_pnl' \in Int
      /\ Solvent(vault) => Solvent(vault')
  <2>1. UNCHANGED <<lpVars, clockVars>>
    BY <1>2
  <2> QED
    BY <1>1, <1>2, <1>3, <2>1, PushKeepsVault
<1>5. UNCHANGED <<now, pm_paused, last_pause_time, last_unpause_time, max_leverage,
                  disabled, cfg, paused_at>>
  BY <1>2 DEF clockVars, controlVars
<1>6. /\ billed' \in [Symbols -> [0..MaxTime -> Nat]]
      /\ LiveSecondsBilledAtMostOnce' /\ BilledBeforeUpdate' /\ PausesBehindClamps'
  <2>1. \/ markets' = Put(markets, s, m)
        \/ markets' = markets /\ time_delta(s) = 0
    BY <1>1, <1>2
  <2>2. m.last_index_update = Refreshed(s).last_index_update
    BY DEF m
  <2> QED
    BY <1>2, <1>3, <1>5, <2>1, <2>2, BillingStaysOnce
<1>7. /\ DOMAIN markets \subseteq DOMAIN markets' /\ DOMAIN markets' \subseteq Symbols
      /\ markets' \in [DOMAIN markets' -> Market]
      /\ \A r \in DOMAIN markets' : markets'[r].oi = get_market(r).oi
  <2>1. markets \in [DOMAIN markets -> Market] /\ DOMAIN markets \subseteq Symbols
    BY <1>1 DEF PMTypeOK
  <2>2. \A r \in DOMAIN markets : get_market(r) = markets[r]
    BY DEF get_market
  <2> QED
    BY <1>2, <1>3, <2>1, <2>2 DEF Put
<1>8. FinitelyMany' /\ CustodyExact' /\ ReservationsMatchOpenInterest'
  <2>1. Custody' = Custody /\ OpenSizes' = OpenSizes
    BY <1>2 DEF Custody, OpenSizes
  <2>2. \A r, side : SideSizes(r, side)' = SideSizes(r, side)
    BY <1>2 DEF SideSizes
  <2>3. FinitelyMany' /\ CustodyExact'
    BY <1>2, <2>1, <2>2 DEF PMInv, FinitelyMany, CustodyExact
  <2>4. vault'.reserved_usdc = Total(OpenSizes)'
    BY <1>4, <2>1 DEF PMInv, ReservationsMatchOpenInterest
  <2>5. \A r \in DOMAIN markets', side \in Sides :
           markets'[r].oi[side] = Total(SideSizes(r, side))
    BY <1>7, OpenInterestAsRead
  <2> QED
    BY <2>2, <2>3, <2>4, <2>5 DEF ReservationsMatchOpenInterest
<1>9. EscrowMatchesOrders'
  BY <1>2 DEF PMInv, EscrowMatchesOrders
<1>10. PMTypeOK'
  <2>1. VaultTypeOK'
    BY <1>4 DEF VaultInv
  <2> QED
    BY <1>1, <1>2, <1>4, <1>5, <1>6, <1>7, <2>1 DEF PMTypeOK
<1> QED
  BY <1>4, <1>6, <1>8, <1>9, <1>10 DEF PMInv

(* The second that passes is a paused one only while no market is dated later
   than the pause began.                                                     *)
LEMMA SecondPassesInv ==
    ASSUME PMInv, SecondPasses
    PROVE  PMInv' /\ UNCHANGED vault
<1>1. /\ PMTypeOK /\ VaultInv /\ PausesBehindClamps /\ BilledBeforeUpdate
      /\ LiveSecondsBilledAtMostOnce
      /\ now \in Nat \ {0} /\ MaxTime \in Nat /\ pm_paused \in BOOLEAN
      /\ last_pause_time \in Nat /\ last_unpause_time \in Nat
      /\ paused_at \in [0..MaxTime -> BOOLEAN]
      /\ billed \in [Symbols -> [0..MaxTime -> Nat]]
      /\ \A s \in DOMAIN markets : markets[s].last_index_update \in Nat
  BY VaultAssumption DEF PMInv, PMTypeOK, VaultTypeOK, Market
<1>2. /\ now < MaxTime /\ now' = now + 1 /\ Tick
      /\ paused_at' = [paused_at EXCEPT ![now] = pm_paused]
      /\ UNCHANGED <<positions, markets, market_pnl, total_pnl, realized_pnl, pm_balance>>
      /\ UNCHANGED <<pm_paused, last_pause_time, last_unpause_time, max_leverage,
                     disabled, cfg, increases, billed, vault>>
  BY DEF SecondPasses, Tick, bookVars, controlVars
<1>3. now \in 0..MaxTime
  BY <1>1, <1>2
<1>4. VaultInv'
  <2>1. VaultNext
    BY <1>2 DEF VaultNext
  <2> QED
    BY <1>1, <2>1, VaultStepInv
<1>5. /\ paused_at' \in [0..MaxTime -> BOOLEAN]
      /\ paused_at'[now] = pm_paused
      /\ \A x \in 0..MaxTime \ {now} : paused_at'[x] = paused_at[x]
  BY <1>1, <1>2, <1>3
<1>6. LiveSecondsBilledAtMostOnce'
  <2> SUFFICES ASSUME NEW s \in Symbols, NEW x \in 0..MaxTime
               PROVE  billed[s][x] <= IF paused_at'[x] THEN 0 ELSE 1
    BY <1>2 DEF LiveSecondsBilledAtMostOnce
  <2>1. billed[s][x] <= IF paused_at[x] THEN 0 ELSE 1
    BY <1>1 DEF LiveSecondsBilledAtMostOnce
  <2>2. billed[s][x] \in Nat /\ paused_at[x] \in BOOLEAN
    BY <1>1
  <2>3. CASE x = now
    <3>1. ~(billed[s][now] > 0)
      BY <1>1, <1>3 DEF BilledBeforeUpdate, PausesBehindClamps
    <3> QED
      BY <2>2, <2>3, <3>1
  <2>4. CASE x # now
    BY <1>5, <2>1, <2>4
  <2> QED
    BY <2>3, <2>4
<1>7. BilledBeforeUpdate'
  BY <1>1, <1>2 DEF BilledBeforeUpdate
<1>8. PausesBehindClamps'
  <2>1. last_pause_time <= now + 1 /\ (pm_paused => last_pause_time > 0)
    BY <1>1 DEF PausesBehindClamps
  <2>2. \A s \in DOMAIN markets : markets[s].last_index_update <= now + 1
    BY <1>1 DEF PausesBehindClamps
  <2>3. ASSUME NEW x \in 0..MaxTime, paused_at'[x]
        PROVE  x < now + 1 /\ (x < last_unpause_time \/ (pm_paused /\ last_pause_time <= x))
    <3>1. x \in Nat
      BY <1>1
    <3>2. CASE x = now
      <4>1. pm_paused /\ last_pause_time <= now
        BY <1>1, <1>5, <2>3, <3>2 DEF PausesBehindClamps
      <4> QED
        BY <1>1, <3>2, <4>1
    <3>3. CASE x # now
      <4>1. paused_at[x]
        BY <1>5, <2>3, <3>3
      <4>2. x < now /\ (x < last_unpause_time \/ (pm_paused /\ last_pause_time <= x))
        BY <1>1, <4>1 DEF PausesBehindClamps
      <4> QED
        BY <1>1, <3>1, <4>2
    <3> QED
      BY <3>2, <3>3
  <2> QED
    BY <1>2, <2>1, <2>2, <2>3 DEF PausesBehindClamps
<1>9. FinitelyMany' /\ CustodyExact' /\ ReservationsMatchOpenInterest'
      /\ EscrowMatchesOrders'
  <2>1. Custody' = Custody /\ OpenSizes' = OpenSizes
    BY <1>2 DEF Custody, OpenSizes
  <2>2. \A s, side : SideSizes(s, side)' = SideSizes(s, side)
    BY <1>2 DEF SideSizes
  <2>3. FinitelyMany' /\ CustodyExact'
    BY <1>2, <2>1, <2>2 DEF PMInv, FinitelyMany, CustodyExact
  <2>4. ReservationsMatchOpenInterest'
    BY <1>2, <2>1, <2>2 DEF PMInv, ReservationsMatchOpenInterest
  <2> QED
    BY <1>2, <2>3, <2>4 DEF PMInv, EscrowMatchesOrders
<1>10. PMTypeOK'
  <2>1. VaultTypeOK'
    BY <1>4 DEF VaultInv
  <2> QED
    BY <1>1, <1>2, <1>5, <2>1 DEF PMTypeOK
<1> QED
  BY <1>2, <1>4, <1>6, <1>7, <1>8, <1>9, <1>10 DEF PMInv

SameClaims ==
    /\ vault'.reserved_usdc = vault.reserved_usdc
    /\ vault'.net_pnl = vault.net_pnl
    /\ now' = now

(* What LPs, the vault's admin and donors do leaves reservations and PnL alone. *)
LEMMA VaultLeavesReservations ==
    ASSUME VaultInv, LPStep \/ VaultAdminStep \/ (\E a \in Amounts : ReceiveUsdc(a))
    PROVE  VaultNext /\ SameClaims
<1>1. vault \in Ledger
  BY DEF VaultInv, VaultTypeOK
<1>2. ASSUME NEW u, NEW a, NEW n, TakeIn(u, a, n) \/ TakeOut(u, a, n)
      PROVE  SameClaims
  BY <1>1, <1>2 DEF SameClaims, TakeIn, TakeOut, receive, Ledger, clockVars
<1>3. CASE LPStep
  <2>1. ASSUME NEW u \in LPs, NEW a \in Amounts, Deposit(u, a) \/ Withdraw(u, a)
        PROVE  SameClaims
    BY <1>2, <2>1 DEF Deposit, Withdraw
  <2>2. ASSUME NEW u \in LPs, NEW n \in ShareAmounts, Mint(u, n) \/ Redeem(u, n)
        PROVE  SameClaims
    BY <1>2, <2>2 DEF Mint, Redeem
  <2>3. ASSUME NEW u \in LPs, NEW t \in LPs, NEW n \in ShareAmounts, Transfer(u, t, n)
        PROVE  SameClaims
    BY <2>3 DEF SameClaims, Transfer, clockVars
  <2> QED
    BY <1>3, <2>1, <2>2, <2>3 DEF LPStep, VaultNext
<1>4. CASE VaultAdminStep
  <2>1. ASSUME ClaimFees
        PROVE  SameClaims
    <3>1. /\ vault' = claim_fees_to(vault, vault.unclaimed_fees)
          /\ now' = now
      BY <2>1 DEF ClaimFees, clockVars
    <3> QED
      BY <1>1, <3>1 DEF SameClaims, claim_fees_to, Ledger
  <2>2. ASSUME NEW c \in Cooldowns, SetCooldown(c)
        PROVE  SameClaims
    BY <2>2 DEF SameClaims, SetCooldown
  <2>3. ASSUME VaultPause \/ VaultUnpause
        PROVE  SameClaims
    BY <1>1, <2>3 DEF SameClaims, VaultPause, VaultUnpause, Ledger, clockVars
  <2> QED
    BY <1>4, <2>1, <2>2, <2>3 DEF VaultAdminStep, VaultNext
<1>5. CASE \E a \in Amounts : ReceiveUsdc(a)
  BY <1>1, <1>5 DEF SameClaims, ReceiveUsdc, receive, Ledger, clockVars,
                      VaultNext
<1> QED
  BY <1>3, <1>4, <1>5

LEMMA VaultStepKeepsBooks ==
    ASSUME PMInv, VaultStep
    PROVE  /\ PMInv'
           /\ Solvent(vault) => Solvent(vault')
<1>1. /\ VaultInv /\ PMTypeOK /\ VaultNext
      /\ vault'.reserved_usdc = vault.reserved_usdc /\ now' = now
      /\ UNCHANGED <<positions, markets, market_pnl, total_pnl, realized_pnl, pm_balance>>
      /\ UNCHANGED <<pm_paused, last_pause_time, last_unpause_time, max_leverage,
                     disabled, cfg, increases, paused_at, billed>>
  BY VaultLeavesReservations
     DEF PMInv, VaultStep, SameClaims, pmVars, bookVars, controlVars, historyVars
<1>2. VaultInv'
  BY <1>1, VaultStepInv
<1>3. Solvent(vault) => Solvent(vault')
  <2>1. vault'.reserved_usdc <= vault.reserved_usdc
    BY <1>1 DEF VaultInv, VaultTypeOK, Ledger
  <2> QED
    BY <1>1, <2>1, SolvencyStep
<1>4. FinitelyMany' /\ CustodyExact' /\ ReservationsMatchOpenInterest'
      /\ EscrowMatchesOrders'
  <2>1. Custody' = Custody /\ OpenSizes' = OpenSizes
    BY <1>1 DEF Custody, OpenSizes
  <2>2. \A s, side : SideSizes(s, side)' = SideSizes(s, side)
    BY <1>1 DEF SideSizes
  <2>3. FinitelyMany' /\ CustodyExact'
    BY <1>1, <2>1, <2>2 DEF PMInv, FinitelyMany, CustodyExact
  <2>4. ReservationsMatchOpenInterest'
    BY <1>1, <2>1, <2>2 DEF PMInv, ReservationsMatchOpenInterest
  <2> QED
    BY <1>1, <2>3, <2>4 DEF PMInv, EscrowMatchesOrders
<1>5. LiveSecondsBilledAtMostOnce' /\ BilledBeforeUpdate' /\ PausesBehindClamps'
  BY <1>1 DEF PMInv, LiveSecondsBilledAtMostOnce, BilledBeforeUpdate,
              PausesBehindClamps
<1>6. PMTypeOK'
  <2>1. VaultTypeOK'
    BY <1>2 DEF VaultInv
  <2> QED
    BY <1>1, <2>1 DEF PMTypeOK
<1> QED
  BY <1>2, <1>3, <1>4, <1>5, <1>6 DEF PMInv

-----------------------------------------------------------------------------
(* Every step *)

GatedSolvency ==
    (/\ Solvent(vault)
     /\ total_assets_excl_pnl(vault) > 0
     /\ cfg.max_utilization_ratio < BPS) => Solvent(vault')

LEMMA TraderInv ==
    ASSUME PMInv, TraderStep
    PROVE  PMInv' /\ GatedSolvency
<1>1. /\ Sizes \subseteq Nat /\ Collaterals \subseteq Nat /\ Prices \subseteq Nat
      /\ OrderPrices \subseteq Nat
  BY PositionManagerAssumption
<1>2. ASSUME NEW t \in Traders, NEW s \in Symbols, NEW mark \in Prices, NEW acceptable,
             NEW size \in Sizes, NEW collateral \in Collaterals, NEW side \in Sides,
             NEW tp \in OrderPrices, NEW sl \in OrderPrices,
             IncreasePosition(t, s, size, collateral, side, tp, sl, acceptable, mark)
      PROVE  PMInv' /\ GatedSolvency
  <2>1. /\ size \in Nat /\ collateral \in Nat /\ mark \in Nat
        /\ tp \in Nat /\ sl \in Nat
    BY <1>1
  <2> QED
    BY <1>2, <2>1, IncreaseInv DEF GatedSolvency
<1>3. ASSUME NEW k \in DOMAIN positions, NEW mark \in Prices, NEW acceptable,
             NEW size \in Sizes \cup {positions[k].size},
             DecreasePosition(k, size, acceptable, mark)
      PROVE  PMInv' /\ GatedSolvency
  <2>1. /\ size > 0 /\ size <= positions[k].size
        /\ Close(k, mark, size, collateral_delta(positions[k], size), "User")
    BY <1>3 DEF DecreasePosition
  <2>2. positions[k].size \in Nat /\ mark \in Nat
    BY <1>1 DEF PMInv, PMTypeOK, Position
  <2>3. size \in Nat \ {0}
    BY <1>1, <2>1, <2>2
  <2>4. Slice(k, size, collateral_delta(positions[k], size), "User")
    BY <2>1, <2>3, CollateralSlice
  <2> QED
    BY <2>1, <2>2, <2>4, CloseInv DEF GatedSolvency
<1> QED
  BY <1>2, <1>3 DEF TraderStep

(* Liquidations, deleveragings and executed orders close all of a position. *)
LEMMA WholeSlice ==
    ASSUME PMInv, NEW k \in DOMAIN positions, NEW kind
    PROVE  Slice(k, positions[k].size, positions[k].collateral, kind)
<1>1. positions[k].size \in Nat \ {0} /\ positions[k].collateral \in Nat \ {0}
  BY DEF PMInv, PMTypeOK, Position
<1> QED
  BY <1>1 DEF Slice

WholeClose(k, mark) ==
    \E kind : Close(k, mark, positions[k].size, positions[k].collateral, kind)

LEMMA OthersClose ==
    /\ ExecutorStep => \E k \in DOMAIN positions, mark \in Prices : WholeClose(k, mark)
    /\ KeeperStep => \/ \E k \in DOMAIN positions, mark \in Prices : WholeClose(k, mark)
                     \/ \E s \in Symbols, mark \in Prices : UpdateIndices(s, mark)
<1>1. ASSUME NEW k \in DOMAIN positions, NEW mark \in Prices,
             \/ LiquidatePosition(k, mark)
             \/ ExecuteOrder(k, mark)
             \/ DeleveragePosition(k, mark)
      PROVE  WholeClose(k, mark)
  BY <1>1 DEF LiquidatePosition, ExecuteOrder, DeleveragePosition, WholeClose
<1> QED
  BY <1>1 DEF ExecutorStep, KeeperStep

LEMMA PMStepInv ==
    ASSUME PMInv, [Next]_vars
    PROVE  PMInv' /\ GatedSolvency
<1>1. Prices \subseteq Nat /\ OrderPrices \subseteq Nat
  BY PositionManagerAssumption
<1>2. ASSUME NEW k \in DOMAIN positions, NEW mark \in Prices, WholeClose(k, mark)
      PROVE  PMInv' /\ GatedSolvency
  <2>1. PICK kind : Close(k, mark, positions[k].size, positions[k].collateral, kind)
    BY <1>2 DEF WholeClose
  <2>2. mark \in Nat /\ Slice(k, positions[k].size, positions[k].collateral, kind)
    BY <1>1, WholeSlice
  <2> QED
    BY <2>1, <2>2, CloseInv DEF GatedSolvency
<1>3. ASSUME NEW s \in Symbols, NEW mark \in Prices, UpdateIndices(s, mark)
      PROVE  PMInv' /\ GatedSolvency
  <2>1. mark \in Nat
    BY <1>1
  <2> QED
    BY <1>3, <2>1, UpdateIndicesInv DEF GatedSolvency
<1>4. CASE TraderStep
  BY <1>4, TraderInv
<1>5. CASE OrderStep
  <2>1. PICK k \in DOMAIN positions, tp \in OrderPrices, sl \in OrderPrices :
           SetTpSl(k, tp, sl)
    BY <1>5 DEF OrderStep
  <2>2. tp \in Nat /\ sl \in Nat
    BY <1>1
  <2> QED
    BY <2>1, <2>2, SetTpSlInv DEF GatedSolvency
<1>6. CASE ExecutorStep \/ KeeperStep
  BY <1>2, <1>3, <1>6, OthersClose
<1>7. CASE AdminStep
  BY <1>7, AdminInv DEF GatedSolvency
<1>8. CASE VaultStep
  BY <1>8, VaultStepKeepsBooks DEF GatedSolvency
<1>9. CASE SecondPasses
  BY <1>9, SecondPassesInv DEF GatedSolvency
<1>10. CASE UNCHANGED vars
  <2>1. UNCHANGED <<vaultVars, bookVars, increases, historyVars>>
        /\ UNCHANGED <<pm_paused, last_pause_time, last_unpause_time, max_leverage,
                       disabled, cfg>>
    BY <1>10 DEF vars, pmVars, controlVars
  <2>2. /\ pm_paused \in BOOLEAN /\ last_pause_time \in Nat
        /\ last_unpause_time \in Nat
        /\ DOMAIN max_leverage \subseteq Symbols
        /\ max_leverage \in [DOMAIN max_leverage -> MIN_LEVERAGE..MAX_LEVERAGE_CAP]
        /\ disabled \subseteq Symbols /\ cfg \in Configs
    BY DEF PMInv, PMTypeOK
  <2>3. PausesBehindClamps'
    BY <2>1 DEF PMInv, PausesBehindClamps, vaultVars, bookVars, historyVars
  <2> QED
    BY <2>1, <2>2, <2>3, ControlInv DEF GatedSolvency
<1> QED
  BY <1>4, <1>5, <1>6, <1>7, <1>8, <1>9, <1>10 DEF Next

LEMMA PMStartInv == Init => PMInv
<1> SUFFICES ASSUME Init
             PROVE  PMInv
  OBVIOUS
<1>1. VaultInv /\ VaultTypeOK
  BY VaultStartInv DEF Init, VaultInv
<1>2. DOMAIN positions = {} /\ DOMAIN markets = {} /\ DOMAIN max_leverage = {}
  BY DEF Init
<1>3. PMTypeOK
  <2>1. /\ positions \in [DOMAIN positions -> Position]
        /\ markets \in [DOMAIN markets -> Market]
        /\ max_leverage \in [DOMAIN max_leverage -> MIN_LEVERAGE..MAX_LEVERAGE_CAP]
    BY <1>2 DEF Init
  <2>2. /\ DOMAIN positions \subseteq Traders \X Symbols
        /\ \A k \in DOMAIN positions : k[2] \in DOMAIN markets
        /\ DOMAIN markets \subseteq Symbols /\ DOMAIN max_leverage \subseteq Symbols
    BY <1>2
  <2>3. /\ market_pnl \in [Symbols -> Int]
        /\ total_pnl \in Int /\ realized_pnl \in Int /\ pm_balance \in Nat
        /\ pm_paused \in BOOLEAN /\ last_pause_time \in Nat
        /\ last_unpause_time \in Nat /\ disabled \subseteq Symbols
        /\ cfg \in Configs
    <3>1. /\ market_pnl = [s \in Symbols |-> 0]
          /\ total_pnl = 0 /\ realized_pnl = 0 /\ pm_balance = 0
          /\ pm_paused = FALSE /\ last_pause_time = 0 /\ last_unpause_time = 0
          /\ disabled = {} /\ cfg \in Configs
      BY DEF Init
    <3>2. pm_paused \in BOOLEAN /\ cfg \in Configs
      BY <3>1, Zenon
    <3>3. market_pnl \in [Symbols -> Int]
      BY <3>1
    <3>4. /\ total_pnl \in Int /\ realized_pnl \in Int /\ pm_balance \in Nat
          /\ last_pause_time \in Nat /\ last_unpause_time \in Nat
          /\ disabled \subseteq Symbols
      BY <3>1
    <3> QED
      BY <3>2, <3>3, <3>4
  <2>4. /\ increases \in 0..MaxIncreases
        /\ paused_at \in [0..MaxTime -> BOOLEAN]
        /\ billed \in [Symbols -> [0..MaxTime -> Nat]]
    BY PositionManagerAssumption DEF Init
  <2> QED
    BY <1>1, <2>1, <2>2, <2>3, <2>4 DEF PMTypeOK
<1>4. /\ DOMAIN Custody = {} /\ DOMAIN OpenSizes = {}
      /\ \A s, side : DOMAIN SideSizes(s, side) = {}
  BY <1>2 DEF Custody, OpenSizes, SideSizes
<1>5. FinitelyMany /\ CustodyExact /\ ReservationsMatchOpenInterest
  <2>1. /\ IsFiniteSet(Units(Custody)) /\ Total(Custody) = 0
        /\ IsFiniteSet(Units(OpenSizes)) /\ Total(OpenSizes) = 0
        /\ \A s, side : IsFiniteSet(Units(SideSizes(s, side)))
    BY <1>4, TotalEmpty
  <2>2. pm_balance = 0 /\ vault.reserved_usdc = 0
    BY DEF Init, VaultInit, EmptyLedger
  <2> QED
    BY <1>2, <2>1, <2>2
       DEF FinitelyMany, CustodyExact, ReservationsMatchOpenInterest
<1>6. EscrowMatchesOrders
  BY <1>2 DEF EscrowMatchesOrders
<1>7. LiveSecondsBilledAtMostOnce /\ BilledBeforeUpdate
  BY DEF Init, LiveSecondsBilledAtMostOnce, BilledBeforeUpdate
<1>8. PausesBehindClamps
  BY <1>2 DEF Init, VaultInit, PausesBehindClamps
<1> QED
  BY <1>1, <1>3, <1>5, <1>6, <1>7, <1>8 DEF PMInv

(* A step that makes a position smaller without closing it is a partial close by
   its trader.                                                               *)
LEMMA LeverageStep ==
    ASSUME PMInv, [Next]_vars, NEW k \in DOMAIN positions,
           k \in DOMAIN positions', positions'[k].size < positions[k].size
    PROVE  positions'[k].size * positions[k].collateral
             <= positions[k].size * positions'[k].collateral
<1>1. /\ positions \in [DOMAIN positions -> Position]
      /\ positions[k].size \in Nat \ {0} /\ positions[k].collateral \in Nat \ {0}
      /\ Sizes \subseteq Nat /\ Collaterals \subseteq Nat /\ Prices \subseteq Nat
      /\ OrderPrices \subseteq Nat
  BY PositionManagerAssumption DEF PMInv, PMTypeOK, Position
<1>2. ASSUME NEW j \in DOMAIN positions, NEW mark \in Prices, NEW acceptable,
             NEW size \in Sizes \cup {positions[j].size},
             DecreasePosition(j, size, acceptable, mark)
      PROVE  positions'[k].size * positions[k].collateral
               <= positions[k].size * positions'[k].collateral
  <2> DEFINE coll == collateral_delta(positions[j], size)
  <2>1. /\ size > 0 /\ size <= positions[j].size
        /\ Close(j, mark, size, coll, "User")
    BY <1>2 DEF DecreasePosition
  <2>2. size \in Nat \ {0}
    <3>1. positions[j].size \in Nat
      BY DEF PMInv, PMTypeOK, Position
    <3> QED
      BY <1>1, <2>1, <3>1
  <2>3. /\ Slice(j, size, coll, "User")
        /\ positions[j].size * coll <= positions[j].collateral * size
    BY <2>1, <2>2, CollateralSlice
  <2> HIDE DEF coll
  <2>4. positions' = IF size = positions[j].size THEN Remove(positions, j)
                     ELSE [positions EXCEPT ![j].size = @ - size,
                                            ![j].collateral = @ - coll]
    BY <2>1 DEF Close
  <2>5. /\ DifferAt(positions, positions', j)
        /\ j \in DOMAIN positions'
             => /\ positions'[j].size = positions[j].size - size
                /\ positions'[j].collateral = positions[j].collateral - coll
    <3>1. Slice(j, size, coll, "User")
      BY <2>3
    <3>2. /\ DifferAt(positions, positions', j)
          /\ j \in DOMAIN positions'
               => /\ positions'[j].size = positions[j].size - size
                  /\ positions'[j].collateral = positions[j].collateral - coll
                  /\ positions'[j].side = positions[j].side
      BY <2>4, <3>1, ClosedPositions
    <3> QED
      BY <3>2
  <2>6. j = k
    <3> SUFFICES ASSUME j # k PROVE FALSE
      OBVIOUS
    <3>1. positions'[k] = positions[k]
      BY <2>5 DEF DifferAt
    <3> QED
      BY <1>1, <3>1
  <2> DEFINE n == positions[k].size
             c == positions[k].collateral
  <2>7. /\ positions'[k].size = n - size /\ positions'[k].collateral = c - coll
        /\ n * coll <= c * size /\ coll \in Nat /\ n \in Nat /\ c \in Nat
    BY <1>1, <2>3, <2>5, <2>6 DEF Slice
  <2> HIDE DEF n, c
  <2>8. (n - size) * c <= n * (c - coll)
    <3>1. n * coll \in Nat /\ c * size \in Nat /\ n * c \in Nat
      BY <2>2, <2>7
    <3>2. (n - size) * c = n * c - c * size /\ n * (c - coll) = n * c - n * coll
      BY <2>2, <2>7
    <3> QED
      BY <2>7, <3>1, <3>2
  <2> QED
    BY <2>7, <2>8 DEF n, c
<1>3. ASSUME NEW j \in DOMAIN positions, NEW mark \in Prices, WholeClose(j, mark)
      PROVE  FALSE
  <2>1. positions' = Remove(positions, j)
    BY <1>3 DEF WholeClose, Close
  <2> QED
    BY <1>1, <2>1 DEF Remove
<1>4. ASSUME NEW j \in DOMAIN positions, NEW tp, NEW sl, SetTpSl(j, tp, sl)
      PROVE  FALSE
  <2>1. positions'[k].size = positions[k].size
    <3> DEFINE e == positions[j].execution_fee_escrow
                      + escrow_delta(positions[j].execution_fee_escrow, tp, sl)
               q == WithOrders(positions[j], e, tp, sl)
    <3>1. positions' = [positions EXCEPT ![j] = q]
      BY <1>1, <1>4 DEF SetTpSl, WithOrders
    <3>2. q.size = positions[j].size
      BY <1>1 DEF WithOrders, Position
    <3> HIDE DEF q
    <3> QED
      BY <1>1, <3>1, <3>2
  <2> QED
    BY <1>1, <2>1
<1>5. ASSUME NEW t \in Traders, NEW s \in Symbols, NEW mark \in Prices, NEW acceptable,
             NEW size \in Sizes, NEW collateral \in Collaterals, NEW side \in Sides,
             NEW tp \in OrderPrices, NEW sl \in OrderPrices,
             IncreasePosition(t, s, size, collateral, side, tp, sl, acceptable, mark)
      PROVE  FALSE
  <2> DEFINE j == <<t, s>>
             p == Base(j, side)
             q == Increased(p, Refreshed(s), size, collateral, tp, sl, mark)
  <2>1. positions' = Put(positions, j, q) /\ size \in Nat
    BY <1>1, <1>5 DEF IncreasePosition, Base
  <2>2. q.size = p.size + size
    BY DEF Increased
  <2> HIDE DEF q
  <2>3. CASE k = j
    <3>1. positions'[k] = q /\ p = positions[k]
      BY <2>1, <2>3 DEF Put, Base
    <3> QED
      BY <1>1, <2>1, <2>2, <3>1
  <2>4. CASE k # j
    <3>1. positions'[k] = positions[k]
      BY <2>1, <2>4 DEF Put
    <3> QED
      BY <1>1, <3>1
  <2> QED
    BY <2>3, <2>4
<1>6. ASSUME UNCHANGED positions
      PROVE  FALSE
  BY <1>1, <1>6
<1>7. CASE TraderStep
  <2> USE <1>7
  <2>1. ASSUME NEW t \in Traders, NEW s \in Symbols, NEW mark \in Prices,
               NEW acceptable \in AcceptablePrices, <<t, s>> \in DOMAIN positions,
               NEW size \in Sizes \cup {positions[<<t, s>>].size},
               DecreasePosition(<<t, s>>, size, acceptable, mark)
        PROVE  positions'[k].size * positions[k].collateral
                 <= positions[k].size * positions'[k].collateral
    BY <1>2, <2>1
  <2> QED
    BY <1>5, <2>1 DEF TraderStep
<1>8. ~OrderStep
  BY <1>4 DEF OrderStep
<1>9. ASSUME ExecutorStep \/ KeeperStep
      PROVE  FALSE
  <2>1. ASSUME NEW s, NEW mark, UpdateIndices(s, mark)
        PROVE  FALSE
    BY <1>6, <2>1 DEF UpdateIndices
  <2> QED
    BY <1>3, <1>9, <2>1, OthersClose
<1>10. ~AdminStep
  BY <1>6 DEF AdminStep, Pause, Unpause, DisableMarket, EnableMarket, SetDisabled,
              SetMaxLeverage, SetConfig, bookVars
<1>11. ~VaultStep /\ ~SecondPasses /\ ~UNCHANGED vars
  BY <1>6 DEF VaultStep, SecondPasses, vars, pmVars, bookVars
<1> QED
  BY <1>7, <1>8, <1>9, <1>10, <1>11 DEF Next

-----------------------------------------------------------------------------
(* The ledgers of the unrealized PnL *)

(* PnlLedgersAgree, with what a market without open interest contributes in place
   of what one without positions does.                                       *)
PnlInv ==
    /\ vault.net_pnl = total_pnl
    /\ total_pnl = SumOf(market_pnl)
    /\ IdleMarketsHoldNoPnl

(* A market's PnL is an integer, and none without open interest. *)
LEMMA MarketPnlType ==
    ASSUME NEW m \in Market, NEW mark \in Nat
    PROVE  /\ MarketPnl(m, mark) \in Int
           /\ (\A side \in Sides : m.oi[side] = 0) => MarketPnl(m, mark) = 0
<1> DEFINE lo == m.oi["long"]
           so == m.oi["short"]
           la == m.avg["long"]
           sa == m.avg["short"]
<1>1. lo \in Nat /\ so \in Nat /\ la \in Nat /\ sa \in Nat
  BY DEF Market, Sides
<1>2. MarketPnl(m, mark)
        = (IF lo > 0 /\ la > 0 THEN TruncDiv(lo * (mark - la), la) ELSE 0)
            + (IF so > 0 /\ sa > 0 THEN TruncDiv(so * (sa - mark), sa) ELSE 0)
  BY DEF MarketPnl, calc_market_unrealized_pnl
<1>3. (\A side \in Sides : m.oi[side] = 0) => lo = 0 /\ so = 0
  BY DEF Sides
<1> HIDE DEF lo, so, la, sa
<1>4. lo * (mark - la) \in Int /\ so * (sa - mark) \in Int
  <2>1. mark - la \in Int /\ sa - mark \in Int
    BY <1>1
  <2> QED
    BY <1>1, <2>1, ProductType
<1>5. /\ la > 0 => TruncDiv(lo * (mark - la), la) \in Int
      /\ sa > 0 => TruncDiv(so * (sa - mark), sa) \in Int
  BY <1>1, <1>4, TruncDivType
<1> QED
  BY <1>1, <1>2, <1>3, <1>5

(* The steps that store a market and refresh its PnL. *)
Refresh(s, m, mark) ==
    /\ \E v : RefreshPnl(s, m, mark, v)
    /\ \/ markets' = Put(markets, s, m)
       \/ markets' = markets /\ m.oi = get_market(s).oi

(* A refresh moves the market's stored PnL, the total and the vault's copy of it
   by the same amount.                                                       *)
LEMMA RefreshKeepsLedgers ==
    ASSUME PMInv, PMInv', PnlInv, NEW s \in Symbols, NEW m \in Market,
           NEW mark \in Nat, Refresh(s, m, mark)
    PROVE  PnlInv'
<1> DEFINE pnl == MarketPnl(m, mark)
<1>1. /\ market_pnl \in [Symbols -> Int] /\ total_pnl \in Int
      /\ DOMAIN markets \subseteq Symbols
      /\ vault' \in Ledger
  BY DEF PMInv, PMTypeOK, VaultTypeOK
<1>2. /\ pnl \in Int
      /\ (\A side \in Sides : m.oi[side] = 0) => pnl = 0
  BY MarketPnlType
<1>3. PICK v : RefreshPnl(s, m, mark, v)
  BY DEF Refresh
<1>4. /\ market_pnl' = [market_pnl EXCEPT ![s] = pnl]
      /\ total_pnl' = total_pnl + pnl - market_pnl[s]
      /\ vault' = [v EXCEPT !.net_pnl = total_pnl']
  BY <1>3 DEF RefreshPnl, NewTotal, update_net_pnl
<1> HIDE DEF pnl
<1>5. vault'.net_pnl = total_pnl'
  <2>1. "net_pnl" \in DOMAIN vault' /\ DOMAIN vault' = DOMAIN v
    BY <1>1, <1>4 DEF Ledger
  <2> QED
    BY <1>4, <2>1
<1>6. total_pnl' = SumOf(market_pnl')
  <2>1. total_pnl = SumOf(market_pnl)
    BY DEF PnlInv
  <2>2. /\ SumOf(market_pnl) \in Int
        /\ SumOf(market_pnl') = SumOf(market_pnl) - market_pnl[s] + pnl
    BY <1>1, <1>2, <1>4, SumChanges, PositionManagerAssumption
  <2>3. market_pnl[s] \in Int
    BY <1>1
  <2> QED
    BY <1>1, <1>2, <1>4, <2>1, <2>2, <2>3
<1>7. IdleMarketsHoldNoPnl'
  <2> SUFFICES ASSUME NEW r \in Symbols,
                      r \in DOMAIN markets' => \A side \in Sides : markets'[r].oi[side] = 0
               PROVE  market_pnl'[r] = 0
    BY DEF IdleMarketsHoldNoPnl
  <2>1. CASE r = s
    <3>1. \A side \in Sides : m.oi[side] = 0
      <4>1. CASE markets' = Put(markets, s, m)
        <5>1. s \in DOMAIN markets' /\ markets'[s] = m
          BY <4>1 DEF Put
        <5> QED
          BY <2>1, <5>1
      <4>2. CASE markets' = markets /\ m.oi = get_market(s).oi
        BY <2>1, <4>2 DEF get_market, FreshMarket
      <4> QED
        BY <4>1, <4>2 DEF Refresh
    <3> QED
      BY <1>1, <1>2, <1>4, <2>1, <3>1
  <2>2. CASE r # s
    <3>1. /\ r \in DOMAIN markets => r \in DOMAIN markets' /\ markets'[r] = markets[r]
          /\ market_pnl'[r] = market_pnl[r]
      BY <1>1, <1>4, <2>2 DEF Refresh, Put
    <3> QED
      BY <2>2, <3>1 DEF PnlInv, IdleMarketsHoldNoPnl
  <2> QED
    BY <2>1, <2>2
<1> QED
  BY <1>5, <1>6, <1>7 DEF PnlInv

(* Every step either refreshes one market or leaves all these books alone. *)
LEMMA PnlStep ==
    ASSUME PMInv, PMInv', [Next]_vars
    PROVE  \/ \E s \in Symbols, m \in Market, mark \in Nat : Refresh(s, m, mark)
           \/ /\ UNCHANGED <<market_pnl, total_pnl, markets>>
              /\ vault'.net_pnl = vault.net_pnl
<1> DEFINE Refreshes == \E s \in Symbols, m \in Market, mark \in Nat : Refresh(s, m, mark)
           Leaves == /\ UNCHANGED <<market_pnl, total_pnl, markets>>
                     /\ vault'.net_pnl = vault.net_pnl
<1>1. Prices \subseteq Nat
  BY PositionManagerAssumption
<1>2. ASSUME NEW s \in Symbols, NEW m, NEW mark \in Prices, NEW v,
             markets' = Put(markets, s, m), RefreshPnl(s, m, mark, v)
      PROVE  Refreshes
  <2>1. markets' \in [DOMAIN markets' -> Market]
    BY DEF PMInv, PMTypeOK
  <2>2. s \in DOMAIN markets' /\ markets'[s] = m
    BY <1>2 DEF Put
  <2>3. m \in Market /\ mark \in Nat /\ Refresh(s, m, mark)
    BY <1>1, <1>2, <2>1, <2>2 DEF Refresh
  <2> QED
    BY <2>3
<1>3. ASSUME NEW k \in DOMAIN positions, NEW mark \in Prices, NEW size, NEW coll, NEW kind,
             Close(k, mark, size, coll, kind)
      PROVE  Refreshes
  <2>1. k[2] \in Symbols
    BY DEF PMInv, PMTypeOK
  <2>2. \E m, v : markets' = Put(markets, k[2], m) /\ RefreshPnl(k[2], m, mark, v)
    BY <1>3 DEF Close
  <2> QED
    BY <1>2, <2>1, <2>2
<1>4. ASSUME NEW t \in Traders, NEW s \in Symbols, NEW size, NEW collateral, NEW side,
             NEW tp, NEW sl, NEW acceptable, NEW mark \in Prices,
             IncreasePosition(t, s, size, collateral, side, tp, sl, acceptable, mark)
      PROVE  Refreshes
  <2>1. \E m, v : markets' = Put(markets, s, m) /\ RefreshPnl(s, m, mark, v)
    BY <1>4 DEF IncreasePosition
  <2> QED
    BY <1>2, <2>1
<1>5. ASSUME NEW s \in Symbols, NEW mark \in Prices, UpdateIndices(s, mark)
      PROVE  Refreshes
  <2>1. Refreshed(s) \in Market /\ Refreshed(s).oi = get_market(s).oi
    BY RefreshedType
  <2>2. Refresh(s, Refreshed(s), mark)
    BY <1>5, <2>1 DEF UpdateIndices, Refresh
  <2> QED
    BY <1>1, <2>1, <2>2
<1> HIDE DEF Refreshes, Leaves
<1>6. CASE TraderStep
  BY <1>3, <1>4, <1>6 DEF TraderStep, DecreasePosition, Refreshes
<1>7. CASE ExecutorStep \/ KeeperStep
  BY <1>3, <1>5, <1>7, OthersClose DEF WholeClose, Refreshes
<1>8. CASE OrderStep
  BY <1>8 DEF OrderStep, SetTpSl, vaultVars, Leaves
<1>9. CASE AdminStep
  <2>1. UNCHANGED <<vaultVars, bookVars>>
    BY <1>9 DEF AdminStep, Pause, Unpause, DisableMarket, EnableMarket, SetDisabled,
                SetMaxLeverage, SetConfig
  <2> QED
    BY <2>1 DEF vaultVars, bookVars, Leaves
<1>10. CASE VaultStep
  BY <1>10, VaultLeavesReservations DEF PMInv, VaultStep, SameClaims, pmVars, bookVars, Leaves
<1>11. CASE SecondPasses \/ UNCHANGED vars
  BY <1>11 DEF SecondPasses, Tick, vars, vaultVars, pmVars, bookVars, Leaves
<1> QED
  BY <1>6, <1>7, <1>8, <1>9, <1>10, <1>11 DEF Next, Refreshes, Leaves

LEMMA PnlStepInv ==
    ASSUME PMInv, PMInv', PnlInv, [Next]_vars
    PROVE  PnlInv'
<1>1. CASE \E s \in Symbols, m \in Market, mark \in Nat : Refresh(s, m, mark)
  BY <1>1, RefreshKeepsLedgers
<1>2. CASE UNCHANGED <<market_pnl, total_pnl, markets>> /\ vault'.net_pnl = vault.net_pnl
  BY <1>2 DEF PnlInv, IdleMarketsHoldNoPnl
<1> QED
  BY <1>1, <1>2, PnlStep

LEMMA PnlStartInv == Init => PnlInv
<1> SUFFICES ASSUME Init
             PROVE  PnlInv
  OBVIOUS
<1>1. market_pnl = [s \in Symbols |-> 0] /\ total_pnl = 0 /\ vault.net_pnl = 0
  BY DEF Init, VaultInit, EmptyLedger
<1>2. SumOf(market_pnl) = 0
  BY <1>1, SumOfZeros, PositionManagerAssumption
<1> QED
  BY <1>1, <1>2 DEF PnlInv, IdleMarketsHoldNoPnl

-----------------------------------------------------------------------------
(* The theorems *)

(* The inductive invariant holds in every reachable state of the position manager
   and the vault it calls.                                                   *)
THEOREM PMAlwaysInv == Spec => []PMInv
<1>1. PMInv /\ [Next]_vars => PMInv'
  BY PMStepInv
<1> QED
  BY <1>1, PMStartInv, PTL DEF Spec

(* No amount, index or size leaves its type: no close takes more collateral,
   size or open interest than is stored, no settlement more than is reserved or
   held (increase.rs, close.rs).                                             *)
THEOREM PMTyped == Spec => []PMTypeOK
<1>1. PMInv => PMTypeOK
  BY DEF PMInv
<1> QED
  BY <1>1, PMAlwaysInv, PTL

(* The contract's balance is the collateral and escrows of the open positions, for
   any number of traders and markets (increase.rs, execute_close, apply_delta). *)
THEOREM CustodyAlwaysExact == Spec => []CustodyExact
<1>1. PMInv => CustodyExact
  BY DEF PMInv
<1> QED
  BY <1>1, PMAlwaysInv, PTL

(* Reservation, open interest and position sizes never drift apart, so releasing a
   position's liquidity and removing it from its market never fails
   (reserve_liquidity, release_liquidity, MarketInfo).                       *)
THEOREM ReservationsAlwaysMatch == Spec => []ReservationsMatchOpenInterest
<1>1. PMInv => ReservationsMatchOpenInterest
  BY DEF PMInv
<1> QED
  BY <1>1, PMAlwaysInv, PTL

(* The execution fee is escrowed once, and while there is an order
   (tp_sl_escrow.rs).                                                        *)
THEOREM EscrowAlwaysMatchesOrders == Spec => []EscrowMatchesOrders
<1>1. PMInv => EscrowMatchesOrders
  BY DEF PMInv
<1> QED
  BY <1>1, PMAlwaysInv, PTL

(* No second is billed twice, and no paused one at all, however refreshes, pauses
   and unpauses interleave (MarketTick::refresh, pause, unpause).            *)
THEOREM SecondsBilledAtMostOnce == Spec => []LiveSecondsBilledAtMostOnce
<1>1. PMInv => LiveSecondsBilledAtMostOnce
  BY DEF PMInv
<1> QED
  BY <1>1, PMAlwaysInv, PTL

(* Trading keeps a solvent vault with a basis solvent as long as the utilization
   cap is below 100% (vault_view.rs, do_increase_position, execute_close).   *)
THEOREM SolvencyAlwaysPreserved == Spec => SolvencyPreserved
<1>1. PMInv /\ [Next]_vars
        => [(/\ Solvent(vault)
             /\ total_assets_excl_pnl(vault) > 0
             /\ cfg.max_utilization_ratio < BPS) => Solvent(vault')]_vars
  BY PMStepInv DEF GatedSolvency
<1> QED
  BY <1>1, PMAlwaysInv, PTL DEF Spec, SolvencyPreserved

(* A close that has nothing to pay out always goes through in a solvent vault, for
   every configuration the validators accept, every price and every kind of close,
   unless fees ate a gain larger than the position's reservation: the reservation
   and the custody of one position are part of the books (execute_close,
   accrue_fees, release_liquidity).                                          *)
THEOREM LosingClosesAlwaysGoThrough == Spec => []LosingClosesNeverBlocked
<1>1. PMInv => LosingClosesNeverBlocked
  <2> SUFFICES ASSUME PMInv, Solvent(vault),
                      NEW k \in DOMAIN positions, NEW mark \in Prices, NEW kind \in CloseTypes,
                      settle(positions[k], Refreshed(k[2]), mark, positions[k].size,
                             positions[k].collateral, kind).vault_to_trader = 0,
                      GainWithinReservation(
                          positions[k],
                          evaluate(positions[k], Refreshed(k[2]), mark, positions[k].size,
                                   positions[k].collateral), kind)
               PROVE  settle(positions[k], Refreshed(k[2]), mark, positions[k].size,
                             positions[k].collateral, kind).ok
    BY DEF LosingClosesNeverBlocked
  <2>1. /\ PMTypeOK /\ positions[k] \in Position /\ k[2] \in Symbols /\ mark \in Nat
        /\ positions \in [DOMAIN positions -> Position]
    BY PositionManagerAssumption DEF PMInv, PMTypeOK
  <2>2. Funded(vault)
    BY DEF PMInv, VaultInv, VaultTypeOK, FeesFunded, Funded
  <2>3. Refreshed(k[2]) \in Market
    BY <2>1, RefreshedType DEF PMInv
  <2>4. positions[k].size <= vault.reserved_usdc
    <3>1. OpenSizes \in [DOMAIN positions -> Nat] /\ At(OpenSizes, k) = positions[k].size
      BY <2>1 DEF OpenSizes, At, Position
    <3>2. IsFiniteSet(Units(OpenSizes)) /\ vault.reserved_usdc = Total(OpenSizes)
      BY DEF PMInv, FinitelyMany, ReservationsMatchOpenInterest
    <3> QED
      BY <3>1, <3>2, SummandWithinTotal
  <2>5. positions[k].collateral + positions[k].execution_fee_escrow <= pm_balance
    <3>1. /\ Custody \in [DOMAIN positions -> Nat]
          /\ At(Custody, k) = positions[k].collateral + positions[k].execution_fee_escrow
      BY <2>1 DEF Custody, At, Position
    <3>2. IsFiniteSet(Units(Custody)) /\ pm_balance = Total(Custody)
      BY DEF PMInv, FinitelyMany, CustodyExact
    <3> QED
      BY <3>1, <3>2, SummandWithinTotal
  <2> HIDE DEF Refreshed
  <2> QED
    BY <2>1, <2>2, <2>3, <2>4, <2>5, SettleGoesThrough
<1> QED
  BY <1>1, PMAlwaysInv, PTL

(* A partial close never raises a position's leverage, whatever the amounts: its
   share of the collateral is rounded down (do_decrease_position).           *)
THEOREM PartialClosesKeepLeverage == Spec => PartialCloseKeepsLeverage
<1>1. PMInv /\ [Next]_vars
        => [\A k \in DOMAIN positions :
               k \in DOMAIN positions' /\ positions'[k].size < positions[k].size
                 => positions'[k].size * positions[k].collateral
                      <= positions[k].size * positions'[k].collateral]_vars
  BY LeverageStep
<1> QED
  BY <1>1, PMAlwaysInv, PTL DEF Spec, PartialCloseKeepsLeverage

(* The PnL the vault counts against its assets is always the sum of what the
   markets have stored, and a market that lost its last position holds none of
   it (refresh_market_unrealized_pnl, push_total_unrealized_pnl).            *)
THEOREM PnlLedgersAlwaysAgree == Spec => []PnlLedgersAgree
<1>1. PMInv /\ PMInv' /\ PnlInv /\ [Next]_vars => PnlInv'
  BY PnlStepInv
<1>2. PMInv /\ PnlInv => PnlLedgersAgree
  <2> SUFFICES ASSUME PMInv, PnlInv, NEW s \in Symbols,
                      \A k \in DOMAIN positions : k[2] # s
               PROVE  market_pnl[s] = 0
    BY DEF PnlLedgersAgree, PnlInv, SumOf
  <2>1. \A side \in Sides : Total(SideSizes(s, side)) = 0
    <3> SUFFICES ASSUME NEW side \in Sides
                 PROVE  Total(SideSizes(s, side)) = 0
      OBVIOUS
    <3>1. DOMAIN SideSizes(s, side) = {}
      BY DEF SideSizes
    <3> QED
      BY <3>1, TotalEmpty
  <2>2. s \in DOMAIN markets => \A side \in Sides : markets[s].oi[side] = 0
    BY <2>1 DEF PMInv, ReservationsMatchOpenInterest
  <2> QED
    BY <2>2 DEF PnlInv, IdleMarketsHoldNoPnl
<1> QED
  BY <1>1, <1>2, PnlStartInv, PMAlwaysInv, PTL DEF Spec

(* What is shown of the vault alone holds of the vault under this position
   manager, and its books with it.                                           *)
THEOREM VaultStaysSound == Spec => [](SharesAddUp /\ FeesFunded)
<1>1. PMInv => SharesAddUp /\ FeesFunded
  BY DEF PMInv, VaultInv
<1> QED
  BY <1>1, PMAlwaysInv, PTL
=============================================================================
