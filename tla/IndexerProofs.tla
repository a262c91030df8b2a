---------------------------- MODULE IndexerProofs ----------------------------
(***************************************************************************)
(* The indexer keeps the promise of ChainMirror, for every set of traders, *)
(* every page size, every number of transactions and faults and every set  *)
(* of events the database rejects.                                         *)
(***************************************************************************)
EXTENDS Indexer, Induction

(***************************************************************************)
(* The loop over a page.                                                   *)
(***************************************************************************)

(* h lists the rows after 0, 1, .. events of the page. *)
Handles(h, rows, page) ==
  /\ h[0] = rows
  /\ \A i \in 1..Len(page) : h[i] = Routed(h[i - 1], page[i])

(* The recursive function by which the community modules define the fold. *)
HandlesSets(g, rows, page, n) ==
  g = [s \in SUBSET (1..n) |->
         IF s = {} THEN rows ELSE Routed(g[s \ {Max(s)}], page[Max(s)])]

(* As far as sets of up to k events go. *)
HandlesUpTo(g, rows, page, n, k) ==
  /\ g = [s \in SUBSET (1..n) |-> g[s]]
  /\ g[{}] = rows
  /\ \A s \in SUBSET (1..n) :
        s # {} /\ Cardinality(s) <= k => g[s] = Routed(g[s \ {Max(s)}], page[Max(s)])

LEMMA WithoutLast ==
  ASSUME NEW n \in Nat, NEW s \in SUBSET (1..n)
  PROVE  /\ Cardinality(s) \in Nat /\ Cardinality(s) <= n
         /\ s # {} => /\ Cardinality(s) > 0
                      /\ Max(s) \in s /\ s \ {Max(s)} \in SUBSET (1..n)
                      /\ Cardinality(s \ {Max(s)}) = Cardinality(s) - 1
<1> DEFINE S == 1..n
           x == Max(s)
<1>1. IsFiniteSet(S) /\ Cardinality(S) = n
  BY FS_Interval
<1>2. s # {} => x \in s
  BY LargestExists
<1>3. s \in SUBSET S
  OBVIOUS
<1> HIDE DEF S, x
<1>4. /\ Cardinality(s) \in 0..Cardinality(S)
      /\ Cardinality(s) = 0 <=> s = {}
      /\ \A y \in s : /\ s \ {y} \in SUBSET S
                      /\ Cardinality(s \ {y}) = Cardinality(s) - 1
  BY <1>1, <1>3, SubsetCardinality
<1>5. Cardinality(s) \in Nat /\ Cardinality(s) <= n
  BY <1>1, <1>4
<1>6. s # {} => Cardinality(s) > 0
  <2> DEFINE c == Cardinality(s)
  <2>1. c \in Nat /\ (c = 0 <=> s = {})
    BY <1>4, <1>5
  <2> HIDE DEF c
  <2>2. s # {} => c # 0
    BY <2>1, Zenon
  <2>3. c # 0 => c > 0
    BY ONLY <2>1, SMT
  <2>4. s # {} => c > 0
    BY ONLY <2>2, <2>3, Zenon
  <2> QED
    BY <2>4 DEF c
<1> QED
  BY <1>2, <1>4, <1>5, <1>6 DEF S, x

(* It can be made for one event more. *)
LEMMA OneEventMore ==
  ASSUME NEW n \in Nat, NEW k \in Nat, NEW rows, NEW page,
         NEW g, HandlesUpTo(g, rows, page, n, k)
  PROVE  LET h == [s \in SUBSET (1..n) |->
                     IF s = {} THEN rows ELSE Routed(g[s \ {Max(s)}], page[Max(s)])]
         IN  HandlesUpTo(h, rows, page, n, k + 1)
<1> DEFINE D == SUBSET (1..n)
           h == [s \in D |-> IF s = {} THEN rows ELSE Routed(g[s \ {Max(s)}], page[Max(s)])]
<1>1. h = [s \in D |-> h[s]] /\ {} \in D /\ h[{}] = rows
  OBVIOUS
<1>2. ASSUME NEW s \in D, Cardinality(s) <= k
      PROVE  h[s] = g[s]
  BY <1>2 DEF HandlesUpTo
<1>3. ASSUME NEW s \in D, s # {}, Cardinality(s) <= k + 1
      PROVE  h[s] = Routed(h[s \ {Max(s)}], page[Max(s)])
  <2>1. s \ {Max(s)} \in D /\ Cardinality(s \ {Max(s)}) <= k
    <3>1. /\ s \ {Max(s)} \in D
          /\ Cardinality(s \ {Max(s)}) = Cardinality(s) - 1
      BY <1>3, WithoutLast
    <3>2. Cardinality(s) \in Nat
      BY <1>3, WithoutLast
    <3> QED
      BY <1>3, <3>1, <3>2
  <2>2. h[s \ {Max(s)}] = g[s \ {Max(s)}]
    BY <1>2, <2>1
  <2>3. h[s] = Routed(g[s \ {Max(s)}], page[Max(s)])
    BY <1>3
  <2> QED
    BY <2>2, <2>3
<1> HIDE DEF h
<1>4. HandlesUpTo(h, rows, page, n, k + 1)
  BY <1>1, <1>3 DEF HandlesUpTo
<1> QED
  BY <1>4 DEF h

LEMMA FoldOfHandlers ==
  ASSUME NEW n \in Nat, NEW rows, NEW page
  PROVE  \E g : HandlesSets(g, rows, page, n)
<1> DEFINE D == SUBSET (1..n)
           Reached == {k \in 0..n : \E g : HandlesUpTo(g, rows, page, n, k)}
<1>1. 0 \in Reached
  <2> DEFINE g == [s \in D |-> rows]
  <2>1. g = [s \in D |-> g[s]] /\ g[{}] = rows
    OBVIOUS
  <2>2. ASSUME NEW s \in D, s # {}
        PROVE  ~(Cardinality(s) <= 0)
    <3> DEFINE c == Cardinality(s)
    <3>1. c \in Nat /\ c > 0
      BY <2>2, WithoutLast
    <3> HIDE DEF c
    <3>2. ~(c <= 0)
      BY <3>1
    <3> QED
      BY <3>2 DEF c
  <2> HIDE DEF g
  <2>3. HandlesUpTo(g, rows, page, n, 0)
    BY <2>1, <2>2 DEF HandlesUpTo
  <2>4. \E f : HandlesUpTo(f, rows, page, n, 0)
    BY <2>3
  <2> QED
    BY <2>4
<1>2. ASSUME NEW k \in 1..n, k - 1 \in Reached
      PROVE  k \in Reached
  <2>1. PICK g : HandlesUpTo(g, rows, page, n, k - 1)
    BY <1>2
  <2>2. k - 1 \in Nat /\ k - 1 + 1 = k /\ k \in 0..n
    OBVIOUS
  <2>3. \E h : HandlesUpTo(h, rows, page, n, k - 1 + 1)
    BY <2>1, <2>2, OneEventMore
  <2> QED
    BY <2>2, <2>3
<1>3. n \in Reached
  <2> HIDE DEF Reached
  <2>1. \A k \in 1..n : k - 1 \in Reached => k \in Reached
    BY <1>2
  <2>2. 0..n \subseteq Reached
    BY <1>1, <2>1, IntervalInduction
  <2> QED
    BY <2>2
<1>4. PICK g : HandlesUpTo(g, rows, page, n, n)
  BY <1>3
<1>5. g = [s \in D |-> g[s]]
  BY <1>4 DEF HandlesUpTo
<1>6. ASSUME NEW s \in D
      PROVE  g[s] = IF s = {} THEN rows ELSE Routed(g[s \ {Max(s)}], page[Max(s)])
  <2>1. Cardinality(s) <= n
    BY WithoutLast
  <2> QED
    BY <1>4, <2>1 DEF HandlesUpTo
<1>7. HandlesSets(g, rows, page, n)
  BY <1>5, <1>6 DEF HandlesSets
<1> QED
  BY <1>7

LEMMA HandlersRunInOrder ==
  ASSUME NEW T, NEW page \in Seq(T), NEW rows
  PROVE  \E h : Handles(h, rows, page) /\ h[Len(page)] = HandleAll(rows, page)
<1> DEFINE n == Len(page)
           g == CHOOSE f : HandlesSets(f, rows, page, n)
<1>1. n \in Nat /\ n = Len(page) /\ DOMAIN page = 1..n
  OBVIOUS
<1>2. HandlesSets(g, rows, page, n)
  BY <1>1, FoldOfHandlers
<1>5. HandleAll(rows, page) = g[1..n]
  BY <1>1 DEF HandleAll, FoldLeft, MapThenFoldSet, HandlesSets
<1> HIDE DEF n, g
<1> DEFINE h == [i \in 0..n |-> g[1..i]]
<1>3. h[0] = rows /\ h[n] = HandleAll(rows, page)
  <2>1. 1..0 = {} /\ 0 \in 0..n /\ n \in 0..n /\ {} \in SUBSET (1..n)
    BY <1>1
  <2> QED
    BY <1>2, <1>5, <2>1 DEF HandlesSets
<1>4. ASSUME NEW i \in 1..n
      PROVE  h[i] = Routed(h[i - 1], page[i])
  <2>1. /\ 1..i \in SUBSET (1..n) /\ 1..i # {} /\ Max(1..i) = i
        /\ (1..i) \ {Max(1..i)} = 1..(i - 1)
    BY <1>1, UpTo
  <2>2. h[i] = g[1..i] /\ h[i - 1] = g[1..(i - 1)]
    BY <1>1
  <2> HIDE DEF h
  <2> QED
    BY <1>2, <2>1, <2>2 DEF HandlesSets
<1> HIDE DEF h
<1> QED
  BY <1>1, <1>3, <1>4 DEF Handles

(* Two lists of rows that start alike and handle the same events are alike. *)
InStep(g, h, n) ==
  /\ n \in Nat /\ g[0] = h[0]
  /\ \A i \in 1..n : g[i - 1] = h[i - 1] => g[i] = h[i]

LEMMA HandlersAgree ==
  ASSUME NEW n, NEW g, NEW h, InStep(g, h, n)
  PROVE  \A i \in 0..n : g[i] = h[i]
<1> DEFINE Same == {i \in 0..n : g[i] = h[i]}
<1>1. n \in Nat /\ 0 \in Same /\ \A i \in 1..n : i - 1 \in Same => i \in Same
  BY DEF InStep
<1>2. 0..n \subseteq Same
  <2> HIDE DEF Same
  <2> QED
    BY <1>1, IntervalInduction
<1> QED
  BY <1>2

(* A log is handled up to m, and from there up to n, as it is up to n at once. *)
LEMMA HandlingResumes ==
  ASSUME NEW T, NEW s \in Seq(T), NEW m \in 0..Len(s), NEW n \in m..Len(s), NEW rows
  PROVE  HandleAll(HandleAll(rows, SubSeq(s, 1, m)), SubSeq(s, m + 1, n))
           = HandleAll(rows, SubSeq(s, 1, n))
<1> DEFINE whole == SubSeq(s, 1, n)
           front == SubSeq(s, 1, m)
           back  == SubSeq(s, m + 1, n)
<1>1. /\ m \in Nat /\ n \in Nat /\ m <= n
      /\ whole \in Seq(T) /\ Len(whole) = n /\ \A i \in 1..n : whole[i] = s[i]
      /\ front \in Seq(T) /\ Len(front) = m /\ \A i \in 1..m : front[i] = s[i]
      /\ back \in Seq(T) /\ Len(back) = n - m /\ \A i \in 1..(n - m) : back[i] = s[m + i]
  <2>1. m \in Nat /\ n \in Nat /\ m <= n
    OBVIOUS
  <2>2. whole \in Seq(T) /\ Len(whole) = n /\ \A i \in 1..n : whole[i] = s[i]
    OBVIOUS
  <2>3. front \in Seq(T) /\ Len(front) = m /\ \A i \in 1..m : front[i] = s[i]
    OBVIOUS
  <2>4. back \in Seq(T) /\ Len(back) = n - m /\ \A i \in 1..(n - m) : back[i] = s[m + i]
    OBVIOUS
  <2> QED
    BY <2>1, <2>2, <2>3, <2>4
<1> HIDE DEF whole, front, back
<1>2. PICK w : Handles(w, rows, whole) /\ w[n] = HandleAll(rows, whole)
  BY <1>1, HandlersRunInOrder
<1>3. PICK f : Handles(f, rows, front) /\ f[m] = HandleAll(rows, front)
  BY <1>1, HandlersRunInOrder
<1>4. PICK b : Handles(b, HandleAll(rows, front), back)
                 /\ b[n - m] = HandleAll(HandleAll(rows, front), back)
  <2> DEFINE start == HandleAll(rows, front)
  <2> HIDE DEF start
  <2>1. \E b : Handles(b, start, back) /\ b[Len(back)] = HandleAll(start, back)
    BY <1>1, HandlersRunInOrder
  <2> QED
    BY <1>1, <2>1 DEF start
<1>5. \A i \in 0..m : f[i] = w[i]
  <2>1. f[0] = w[0]
    BY <1>2, <1>3 DEF Handles
  <2>2. ASSUME NEW i \in 1..m, f[i - 1] = w[i - 1]
        PROVE  f[i] = w[i]
    <3>1. i \in 1..Len(front) /\ i \in 1..Len(whole) /\ front[i] = whole[i]
      BY <1>1
    <3>2. f[i] = Routed(f[i - 1], front[i]) /\ w[i] = Routed(w[i - 1], whole[i])
      BY <1>2, <1>3, <3>1 DEF Handles
    <3> QED
      BY <2>2, <3>1, <3>2
  <2>3. InStep(f, w, m)
    BY <1>1, <2>1, <2>2 DEF InStep
  <2> QED
    BY ONLY <2>3, HandlersAgree
<1> DEFINE l == n - m
           v == [i \in 0..l |-> w[m + i]]
<1>10. l \in Nat /\ m + l = n /\ m + 0 = m /\ l = n - m
  BY <1>1
<1> HIDE DEF l
<1>6. v[0] = b[0]
  <2>1. 0 \in 0..l /\ v[0] = w[m] /\ m \in 0..m
    BY <1>1, <1>10
  <2>2. b[0] = HandleAll(rows, front)
    BY <1>4 DEF Handles
  <2> QED
    BY <1>3, <1>5, <2>1, <2>2
<1>7. ASSUME NEW i \in 1..l, v[i - 1] = b[i - 1]
      PROVE  v[i] = b[i]
  <2>1. /\ m + i \in 1..n /\ m + i - 1 = m + (i - 1) /\ i \in 0..l /\ i - 1 \in 0..l
        /\ i \in 1..Len(back) /\ m + i \in 1..Len(whole)
    BY <1>1, <1>10
  <2>2. w[m + i] = Routed(w[m + i - 1], whole[m + i]) /\ whole[m + i] = s[m + i]
    BY <1>1, <1>2, <2>1 DEF Handles
  <2>3. b[i] = Routed(b[i - 1], back[i]) /\ back[i] = s[m + i]
    BY <1>1, <1>4, <1>10, <2>1 DEF Handles
  <2>4. v[i] = w[m + i] /\ v[i - 1] = w[m + i - 1]
    BY <2>1
  <2> HIDE DEF v
  <2> QED
    BY <1>7, <2>2, <2>3, <2>4
<1>8. v[l] = w[n]
  BY <1>10
<1>9. v[l] = b[l]
  <2>1. \A i \in 0..l : v[i] = b[i]
    <3> HIDE DEF v
    <3>1. InStep(v, b, l)
      BY <1>6, <1>7, <1>10 DEF InStep
    <3> QED
      BY ONLY <3>1, HandlersAgree
  <2> QED
    BY <1>10, <2>1
<1> QED
  BY <1>2, <1>4, <1>8, <1>9, <1>10 DEF whole, front, back

(***************************************************************************)
(* What an event's handler makes of rows that show the contracts in state  *)
(* c: rows that show them in some state d.                                 *)
(***************************************************************************)

Fields == {"vault", "positions", "open_interest", "market", "config", "unpaused", "lockup"}

Ledger == [total_assets: Int, total_shares: Int, reserved_usdc: Int, unclaimed_fees: Int,
           net_pnl: Int, is_paused: BOOLEAN]
PositionRow == [size: Int, orders: BOOLEAN]

WithVault(c, v) == [c EXCEPT !.vault = v]
WithPositions(c, rows) ==
  [c EXCEPT !.positions = rows, !.open_interest = SumOf(Sizes(rows))]

SameEvent(l, e) == l.name = e.name /\ l.key = e.key /\ l.value = e.value

Turns(c, e, d) ==
  /\ Sound(d)
  /\ \A l : SameEvent(l, e) => Routed(Faithful(c), l) = Faithful(d)

(* The columns are the contracts' fields, beside the free liquidity. *)
LEMMA FaithfulColumns ==
  ASSUME NEW c, c = [f \in Fields |-> c[f]], NEW x
  PROVE  /\ \A f \in Fields : Faithful(c)[f] = c[f]
         /\ \A f \in Fields \ {"vault"} :
               [Faithful(c) EXCEPT ![f] = x] = Faithful([c EXCEPT ![f] = x])
         /\ recomputeFreeLiquidity([Faithful(c) EXCEPT !.vault = x]) = Faithful(WithVault(c, x))
<1> DEFINE Shown(d) == [f \in Fields \cup {"free"} |->
                          IF f = "free" THEN free_liquidity(d.vault) ELSE d[f]]
<1>1. Faithful(c) = Shown(c)
  BY DEF Faithful
<1>2. "free" \notin Fields /\ "vault" \in Fields
  BY DEF Fields
<1>3. \A f \in Fields : Faithful(c)[f] = c[f]
  BY <1>1, <1>2
<1>4. ASSUME NEW f \in Fields \ {"vault"}
      PROVE  [Faithful(c) EXCEPT ![f] = x] = Faithful([c EXCEPT ![f] = x])
  <2> DEFINE d == [c EXCEPT ![f] = x]
  <2>1. /\ d = [g \in Fields |-> d[g]] /\ d.vault = c.vault /\ d[f] = x
        /\ \A g \in Fields : g # f => d[g] = c[g]
    BY <1>2
  <2> HIDE DEF d
  <2>2. Faithful(d) = Shown(d)
    BY <2>1 DEF Faithful
  <2>3. [Faithful(c) EXCEPT ![f] = x] = Faithful(d)
    BY <1>1, <1>2, <2>1, <2>2
  <2> QED
    BY <2>3 DEF d
<1>5. recomputeFreeLiquidity([Faithful(c) EXCEPT !.vault = x]) = Faithful(WithVault(c, x))
  <2> DEFINE d == WithVault(c, x)
  <2>1. /\ d = [g \in Fields |-> d[g]] /\ d.vault = x
        /\ \A g \in Fields : g # "vault" => d[g] = c[g]
    BY <1>2 DEF WithVault
  <2> HIDE DEF d
  <2>2. Faithful(d) = Shown(d)
    BY <2>1 DEF Faithful
  <2>3. recomputeFreeLiquidity([Faithful(c) EXCEPT !.vault = x]) = Faithful(d)
    BY <1>1, <1>2, <2>1, <2>2 DEF recomputeFreeLiquidity
  <2> QED
    BY <2>3 DEF d
<1> QED
  BY <1>3, <1>4, <1>5

LEMMA SoundFields ==
  ASSUME NEW c, Sound(c)
  PROVE  /\ c = [f \in Fields |-> c[f]]
         /\ c.vault \in Ledger
         /\ c.positions \in [DOMAIN c.positions -> PositionRow]
         /\ c.open_interest = SumOf(Sizes(c.positions))
BY DEF Sound, Contracts, Fields, Ledger, PositionRow, SumOf

LEMMA LedgerReplaced ==
  ASSUME NEW c, Sound(c), NEW v \in Ledger
  PROVE  /\ Sound(WithVault(c, v)) /\ WithVault(c, v).vault = v
         /\ Faithful(WithVault(c, v)).vault = v
         /\ \A w : WithVault(WithVault(c, v), w) = WithVault(c, w)
<1>1. Sound(WithVault(c, v))
  BY DEF Sound, Contracts, WithVault, Ledger
<1>2. WithVault(c, v).vault = v /\ \A w : WithVault(WithVault(c, v), w) = WithVault(c, w)
  BY SoundFields DEF WithVault, Fields
<1>3. Faithful(WithVault(c, v)).vault = WithVault(c, v).vault
  BY <1>1, SoundFields, FaithfulColumns DEF Fields
<1> QED
  BY <1>1, <1>2, <1>3

(* Events of the vault, whose handlers change the ledger from v to w. *)
LEMMA VaultTurns ==
  ASSUME NEW c, Sound(c), NEW v \in Ledger, NEW w \in Ledger, NEW e,
         LET r == Faithful(WithVault(c, v))
         IN  \A l : SameEvent(l, e) => Routed(r, l) = recomputeFreeLiquidity([r EXCEPT !.vault = w])
  PROVE  Turns(WithVault(c, v), e, WithVault(c, w))
<1> DEFINE d == WithVault(c, v)
<1>1. Sound(d) /\ Sound(WithVault(c, w)) /\ WithVault(d, w) = WithVault(c, w)
  BY LedgerReplaced
<1> HIDE DEF d
<1>2. recomputeFreeLiquidity([Faithful(d) EXCEPT !.vault = w]) = Faithful(WithVault(d, w))
  BY <1>1, SoundFields, FaithfulColumns
<1> QED
  BY <1>1, <1>2 DEF Turns, d

LEMMA TotalAssetsTurn ==
  ASSUME NEW c, Sound(c), NEW v \in Ledger, NEW name \in {"total", "pay_profit", "absorbed"}, NEW k, NEW x \in Int
  PROVE  Turns(WithVault(c, v), Ev(name, k, x),
               WithVault(c, [v EXCEPT !.total_assets = x]))
<1> DEFINE w == [v EXCEPT !.total_assets = x]
           e == Ev(name, k, x)
           r == Faithful(WithVault(c, v))
<1>1. w \in Ledger
  BY DEF Ledger
<1>2. r.vault = v
  BY LedgerReplaced
<1> HIDE DEF r
<1>3. ASSUME NEW l, SameEvent(l, e)
      PROVE  Routed(r, l) = recomputeFreeLiquidity([r EXCEPT !.vault = w])
  <2>1. l.name = name /\ l.key = k /\ l.value = x
    BY <1>3 DEF SameEvent, Ev
  <2>2. Routed(r, l) = handleNewTotalAssets(r, l)
    BY <2>1 DEF Routed, Parsed, PMEvents, VaultEvents, ConfigGroups, handleVaultEvent
  <2> QED
    BY <1>2, <2>1, <2>2 DEF handleNewTotalAssets
<1> HIDE DEF w, e
<1> QED
  BY <1>1, <1>3, VaultTurns DEF w, e, r

LEMMA ReservedTurn ==
  ASSUME NEW c, Sound(c), NEW v \in Ledger, NEW name \in {"reserve", "release"}, NEW k, NEW x \in Int
  PROVE  Turns(WithVault(c, v), Ev(name, k, x),
               WithVault(c, [v EXCEPT !.reserved_usdc = x]))
<1> DEFINE w == [v EXCEPT !.reserved_usdc = x]
           e == Ev(name, k, x)
           r == Faithful(WithVault(c, v))
<1>1. w \in Ledger
  BY DEF Ledger
<1>2. r.vault = v
  BY LedgerReplaced
<1> HIDE DEF r
<1>3. ASSUME NEW l, SameEvent(l, e)
      PROVE  Routed(r, l) = recomputeFreeLiquidity([r EXCEPT !.vault = w])
  <2>1. l.name = name /\ l.key = k /\ l.value = x
    BY <1>3 DEF SameEvent, Ev
  <2>2. Routed(r, l) = handleNewReserved(r, l)
    BY <2>1 DEF Routed, Parsed, PMEvents, VaultEvents, ConfigGroups, handleVaultEvent
  <2> QED
    BY <1>2, <2>1, <2>2 DEF handleNewReserved
<1> HIDE DEF w, e
<1> QED
  BY <1>1, <1>3, VaultTurns DEF w, e, r

LEMMA FeesTurn ==
  ASSUME NEW c, Sound(c), NEW v \in Ledger, NEW k, NEW x \in Int
  PROVE  Turns(WithVault(c, v), Ev("fees", k, x),
               WithVault(c, [v EXCEPT !.unclaimed_fees = x]))
<1> DEFINE w == [v EXCEPT !.unclaimed_fees = x]
           e == Ev("fees", k, x)
           r == Faithful(WithVault(c, v))
<1>1. w \in Ledger
  BY DEF Ledger
<1>2. r.vault = v
  BY LedgerReplaced
<1> HIDE DEF r
<1>3. ASSUME NEW l, SameEvent(l, e)
      PROVE  Routed(r, l) = recomputeFreeLiquidity([r EXCEPT !.vault = w])
  <2>1. l.name = "fees" /\ l.key = k /\ l.value = x
    BY <1>3 DEF SameEvent, Ev
  <2>2. Routed(r, l) = handleAccrueFees(r, l)
    BY <2>1 DEF Routed, Parsed, PMEvents, VaultEvents, ConfigGroups, handleVaultEvent
  <2> QED
    BY <1>2, <2>1, <2>2 DEF handleAccrueFees
<1> HIDE DEF w, e
<1> QED
  BY <1>1, <1>3, VaultTurns DEF w, e, r

LEMMA NetPnlTurn ==
  ASSUME NEW c, Sound(c), NEW v \in Ledger, NEW k, NEW x \in Int
  PROVE  Turns(WithVault(c, v), Ev("net_pnl", k, x),
               WithVault(c, [v EXCEPT !.net_pnl = x]))
<1> DEFINE w == [v EXCEPT !.net_pnl = x]
           e == Ev("net_pnl", k, x)
           r == Faithful(WithVault(c, v))
<1>1. w \in Ledger
  BY DEF Ledger
<1>2. r.vault = v
  BY LedgerReplaced
<1> HIDE DEF r
<1>3. ASSUME NEW l, SameEvent(l, e)
      PROVE  Routed(r, l) = recomputeFreeLiquidity([r EXCEPT !.vault = w])
  <2>1. l.name = "net_pnl" /\ l.key = k /\ l.value = x
    BY <1>3 DEF SameEvent, Ev
  <2>2. Routed(r, l) = handleNetPnl(r, l)
    BY <2>1 DEF Routed, Parsed, PMEvents, VaultEvents, ConfigGroups, handleVaultEvent
  <2> QED
    BY <1>2, <2>1, <2>2 DEF handleNetPnl
<1> HIDE DEF w, e
<1> QED
  BY <1>1, <1>3, VaultTurns DEF w, e, r

LEMMA DepositTurn ==
  ASSUME NEW c, Sound(c), NEW v \in Ledger, NEW k, NEW x \in Int
  PROVE  Turns(WithVault(c, v), Ev("deposit", k, x),
               WithVault(c, [v EXCEPT !.total_shares = @ + x]))
<1> DEFINE w == [v EXCEPT !.total_shares = @ + x]
           e == Ev("deposit", k, x)
           r == Faithful(WithVault(c, v))
<1>1. w \in Ledger
  BY DEF Ledger
<1>2. r.vault = v
  BY LedgerReplaced
<1> HIDE DEF r
<1>3. ASSUME NEW l, SameEvent(l, e)
      PROVE  Routed(r, l) = recomputeFreeLiquidity([r EXCEPT !.vault = w])
  <2>1. l.name = "deposit" /\ l.key = k /\ l.value = x
    BY <1>3 DEF SameEvent, Ev
  <2>2. Routed(r, l) = handleDeposit(r, l)
    BY <2>1 DEF Routed, Parsed, PMEvents, VaultEvents, ConfigGroups, handleVaultEvent
  <2> QED
    BY <1>2, <2>1, <2>2 DEF handleDeposit
<1> HIDE DEF w, e
<1> QED
  BY <1>1, <1>3, VaultTurns DEF w, e, r

LEMMA WithdrawTurn ==
  ASSUME NEW c, Sound(c), NEW v \in Ledger, NEW k, NEW x \in Int
  PROVE  Turns(WithVault(c, v), Ev("withdraw", k, x),
               WithVault(c, [v EXCEPT !.total_shares = @ - x]))
<1> DEFINE w == [v EXCEPT !.total_shares = @ - x]
           e == Ev("withdraw", k, x)
           r == Faithful(WithVault(c, v))
<1>1. w \in Ledger
  BY DEF Ledger
<1>2. r.vault = v
  BY LedgerReplaced
<1> HIDE DEF r
<1>3. ASSUME NEW l, SameEvent(l, e)
      PROVE  Routed(r, l) = recomputeFreeLiquidity([r EXCEPT !.vault = w])
  <2>1. l.name = "withdraw" /\ l.key = k /\ l.value = x
    BY <1>3 DEF SameEvent, Ev
  <2>2. Routed(r, l) = handleWithdraw(r, l)
    BY <2>1 DEF Routed, Parsed, PMEvents, VaultEvents, ConfigGroups, handleVaultEvent
  <2> QED
    BY <1>2, <2>1, <2>2 DEF handleWithdraw
<1> HIDE DEF w, e
<1> QED
  BY <1>1, <1>3, VaultTurns DEF w, e, r

LEMMA ClaimTurn ==
  ASSUME NEW c, Sound(c), NEW v \in Ledger, NEW k, NEW x \in Int
  PROVE  Turns(WithVault(c, v), Ev("claim", k, x),
               WithVault(c, [v EXCEPT !.unclaimed_fees = 0, !.total_assets = @ - x]))
<1> DEFINE w == [v EXCEPT !.unclaimed_fees = 0, !.total_assets = @ - x]
           e == Ev("claim", k, x)
           r == Faithful(WithVault(c, v))
<1>1. w \in Ledger
  <2>1. v.total_assets - x \in Int
    BY DEF Ledger
  <2>2. [v EXCEPT !.unclaimed_fees = 0] \in Ledger
    BY DEF Ledger
  <2> QED
    BY <2>1, <2>2 DEF Ledger
<1>2. r.vault = v
  BY LedgerReplaced
<1> HIDE DEF r
<1>3. ASSUME NEW l, SameEvent(l, e)
      PROVE  Routed(r, l) = recomputeFreeLiquidity([r EXCEPT !.vault = w])
  <2>1. l.name = "claim" /\ l.key = k /\ l.value = x
    BY <1>3 DEF SameEvent, Ev
  <2>2. Routed(r, l) = handleClaimFees(r, l)
    BY <2>1 DEF Routed, Parsed, PMEvents, VaultEvents, ConfigGroups, handleVaultEvent
  <2> QED
    BY <1>2, <2>1, <2>2 DEF handleClaimFees
<1> HIDE DEF w, e
<1> QED
  BY <1>1, <1>3, VaultTurns DEF w, e, r

LEMMA ClaimToTurn ==
  ASSUME NEW c, Sound(c), NEW v \in Ledger, NEW k \in Int, NEW x \in Int
  PROVE  Turns(WithVault(c, v), Ev("claim_to", k, x),
               WithVault(c, [v EXCEPT !.unclaimed_fees = k, !.total_assets = @ - x]))
<1> DEFINE w == [v EXCEPT !.unclaimed_fees = k, !.total_assets = @ - x]
           e == Ev("claim_to", k, x)
           r == Faithful(WithVault(c, v))
<1>1. w \in Ledger
  <2>1. v.total_assets - x \in Int
    BY DEF Ledger
  <2>2. [v EXCEPT !.unclaimed_fees = k] \in Ledger
    BY DEF Ledger
  <2> QED
    BY <2>1, <2>2 DEF Ledger
<1>2. r.vault = v
  BY LedgerReplaced
<1> HIDE DEF r
<1>3. ASSUME NEW l, SameEvent(l, e)
      PROVE  Routed(r, l) = recomputeFreeLiquidity([r EXCEPT !.vault = w])
  <2>1. l.name = "claim_to" /\ l.key = k /\ l.value = x
    BY <1>3 DEF SameEvent, Ev
  <2>2. Routed(r, l) = handleClaimFeesTo(r, l)
    BY <2>1 DEF Routed, Parsed, PMEvents, VaultEvents, ConfigGroups, handleVaultEvent
  <2> QED
    BY <1>2, <2>1, <2>2 DEF handleClaimFeesTo
<1> HIDE DEF w, e
<1> QED
  BY <1>1, <1>3, VaultTurns DEF w, e, r

(* The handlers of the other columns. *)
LEMMA IndicesTurn ==
  ASSUME NEW c, Sound(c), NEW k, NEW x \in Int
  PROVE  Turns(c, Ev("indices", k, x), [c EXCEPT !.market.acc_index = x])
<1> DEFINE d == [c EXCEPT !.market.acc_index = x]
           e == Ev("indices", k, x)
<1>1. Sound(d)
  BY DEF Sound, Contracts, ConfigGroups
<1>2. ASSUME NEW l, SameEvent(l, e)
      PROVE  Routed(Faithful(c), l) = Faithful(d)
  <2>1. l.name = "indices" /\ l.key = k /\ l.value = x
    BY <1>2 DEF SameEvent, Ev
  <2>2. Routed(Faithful(c), l) = handleIndices(Faithful(c), l)
    BY <2>1 DEF Routed, Parsed, PMEvents, VaultEvents, ConfigGroups, handlePositionManagerEvent
  <2>3. /\ \A f \in Fields : Faithful(c)[f] = c[f]
        /\ \A f \in Fields \ {"vault"} : \A y :
             [Faithful(c) EXCEPT ![f] = y] = Faithful([c EXCEPT ![f] = y])
    BY SoundFields, FaithfulColumns
  <2>4. {"market", "config", "unpaused", "lockup"} \subseteq Fields \ {"vault"}
    BY DEF Fields
  <2> QED
    BY <2>1, <2>2, <2>3, <2>4 DEF handleIndices
<1> HIDE DEF d, e
<1> QED
  BY <1>1, <1>2 DEF Turns, d, e

LEMMA MaxLeverageTurn ==
  ASSUME NEW c, Sound(c), NEW k, NEW x \in Int
  PROVE  Turns(c, Ev("max_lev", k, x), [c EXCEPT !.market.max_leverage = x])
<1> DEFINE d == [c EXCEPT !.market.max_leverage = x]
           e == Ev("max_lev", k, x)
<1>1. Sound(d)
  BY DEF Sound, Contracts, ConfigGroups
<1>2. ASSUME NEW l, SameEvent(l, e)
      PROVE  Routed(Faithful(c), l) = Faithful(d)
  <2>1. l.name = "max_lev" /\ l.key = k /\ l.value = x
    BY <1>2 DEF SameEvent, Ev
  <2>2. Routed(Faithful(c), l) = handleMaxLeverage(Faithful(c), l)
    BY <2>1 DEF Routed, Parsed, PMEvents, VaultEvents, ConfigGroups, handlePositionManagerEvent
  <2>3. /\ \A f \in Fields : Faithful(c)[f] = c[f]
        /\ \A f \in Fields \ {"vault"} : \A y :
             [Faithful(c) EXCEPT ![f] = y] = Faithful([c EXCEPT ![f] = y])
    BY SoundFields, FaithfulColumns
  <2>4. {"market", "config", "unpaused", "lockup"} \subseteq Fields \ {"vault"}
    BY DEF Fields
  <2> QED
    BY <2>1, <2>2, <2>3, <2>4 DEF handleMaxLeverage
<1> HIDE DEF d, e
<1> QED
  BY <1>1, <1>2 DEF Turns, d, e

LEMMA MarketPnlTurn ==
  ASSUME NEW c, Sound(c), NEW k, NEW x \in Int
  PROVE  Turns(c, Ev("mkt_pnl", k, x), [c EXCEPT !.market.unrealized_pnl = x])
<1> DEFINE d == [c EXCEPT !.market.unrealized_pnl = x]
           e == Ev("mkt_pnl", k, x)
<1>1. Sound(d)
  BY DEF Sound, Contracts, ConfigGroups
<1>2. ASSUME NEW l, SameEvent(l, e)
      PROVE  Routed(Faithful(c), l) = Faithful(d)
  <2>1. l.name = "mkt_pnl" /\ l.key = k /\ l.value = x
    BY <1>2 DEF SameEvent, Ev
  <2>2. Routed(Faithful(c), l) = handleMarketPnl(Faithful(c), l)
    BY <2>1 DEF Routed, Parsed, PMEvents, VaultEvents, ConfigGroups, handlePositionManagerEvent
  <2>3. /\ \A f \in Fields : Faithful(c)[f] = c[f]
        /\ \A f \in Fields \ {"vault"} : \A y :
             [Faithful(c) EXCEPT ![f] = y] = Faithful([c EXCEPT ![f] = y])
    BY SoundFields, FaithfulColumns
  <2>4. {"market", "config", "unpaused", "lockup"} \subseteq Fields \ {"vault"}
    BY DEF Fields
  <2> QED
    BY <2>1, <2>2, <2>3, <2>4 DEF handleMarketPnl
<1> HIDE DEF d, e
<1> QED
  BY <1>1, <1>2 DEF Turns, d, e

LEMMA UnpauseTurn ==
  ASSUME NEW c, Sound(c), NEW k, NEW x \in Int \ {0}
  PROVE  Turns(c, Ev("pm_pause", k, x), [c EXCEPT !.unpaused = x])
<1> DEFINE d == [c EXCEPT !.unpaused = x]
           e == Ev("pm_pause", k, x)
<1>1. Sound(d)
  BY DEF Sound, Contracts, ConfigGroups
<1>2. ASSUME NEW l, SameEvent(l, e)
      PROVE  Routed(Faithful(c), l) = Faithful(d)
  <2>1. l.name = "pm_pause" /\ l.key = k /\ l.value = x
    BY <1>2 DEF SameEvent, Ev
  <2>2. Routed(Faithful(c), l) = handlePmPause(Faithful(c), l)
    BY <2>1 DEF Routed, Parsed, PMEvents, VaultEvents, ConfigGroups, handlePositionManagerEvent
  <2>3. /\ \A f \in Fields : Faithful(c)[f] = c[f]
        /\ \A f \in Fields \ {"vault"} : \A y :
             [Faithful(c) EXCEPT ![f] = y] = Faithful([c EXCEPT ![f] = y])
    BY SoundFields, FaithfulColumns
  <2>4. {"market", "config", "unpaused", "lockup"} \subseteq Fields \ {"vault"}
    BY DEF Fields
  <2> QED
    BY <2>1, <2>2, <2>3, <2>4 DEF handlePmPause
<1> HIDE DEF d, e
<1> QED
  BY <1>1, <1>2 DEF Turns, d, e

LEMMA LockupTurn ==
  ASSUME NEW c, Sound(c), NEW k, NEW x \in Int
  PROVE  Turns(c, Ev("lockup", k, x), [c EXCEPT !.lockup = x])
<1> DEFINE d == [c EXCEPT !.lockup = x]
           e == Ev("lockup", k, x)
<1>1. Sound(d)
  BY DEF Sound, Contracts, ConfigGroups
<1>2. ASSUME NEW l, SameEvent(l, e)
      PROVE  Routed(Faithful(c), l) = Faithful(d)
  <2>1. l.name = "lockup" /\ l.key = k /\ l.value = x
    BY <1>2 DEF SameEvent, Ev
  <2>2. Routed(Faithful(c), l) = handleLockup(Faithful(c), l)
    BY <2>1 DEF Routed, Parsed, PMEvents, VaultEvents, ConfigGroups, handleVaultEvent
  <2>3. /\ \A f \in Fields : Faithful(c)[f] = c[f]
        /\ \A f \in Fields \ {"vault"} : \A y :
             [Faithful(c) EXCEPT ![f] = y] = Faithful([c EXCEPT ![f] = y])
    BY SoundFields, FaithfulColumns
  <2>4. {"market", "config", "unpaused", "lockup"} \subseteq Fields \ {"vault"}
    BY DEF Fields
  <2> QED
    BY <2>1, <2>2, <2>3, <2>4 DEF handleLockup
<1> HIDE DEF d, e
<1> QED
  BY <1>1, <1>2 DEF Turns, d, e

LEMMA ConfigTurn ==
  ASSUME NEW c, Sound(c), NEW name \in {"feecfg", "feecnf", "limits", "rates"}, NEW k, NEW x \in Int
  PROVE  Turns(c, Ev(name, k, x), [c EXCEPT !.config[name] = x])
<1> DEFINE d == [c EXCEPT !.config[name] = x]
           e == Ev(name, k, x)
<1>1. Sound(d)
  BY DEF Sound, Contracts, ConfigGroups
<1>2. ASSUME NEW l, SameEvent(l, e)
      PROVE  Routed(Faithful(c), l) = Faithful(d)
  <2>1. l.name = name /\ l.key = k /\ l.value = x
    BY <1>2 DEF SameEvent, Ev
  <2>2. Routed(Faithful(c), l) = handleConfigManagerEvent(Faithful(c), l)
    BY <2>1 DEF Routed, Parsed, PMEvents, VaultEvents, ConfigGroups, handleConfigManagerEvent
  <2>3. /\ \A f \in Fields : Faithful(c)[f] = c[f]
        /\ \A f \in Fields \ {"vault"} : \A y :
             [Faithful(c) EXCEPT ![f] = y] = Faithful([c EXCEPT ![f] = y])
    BY SoundFields, FaithfulColumns
  <2>4. {"market", "config", "unpaused", "lockup"} \subseteq Fields \ {"vault"}
    BY DEF Fields
  <2> QED
    BY <2>1, <2>2, <2>3, <2>4 DEF handleConfigManagerEvent
<1> HIDE DEF d, e
<1> QED
  BY <1>1, <1>2 DEF Turns, d, e

(* The pause changes no number, so the free liquidity stays. *)
LEMMA PauseTurn ==
  ASSUME NEW c, Sound(c), NEW v \in Ledger, NEW k, NEW x \in BOOLEAN
  PROVE  Turns(WithVault(c, v), Ev("pause", k, x), WithVault(c, [v EXCEPT !.is_paused = x]))
<1> DEFINE w == [v EXCEPT !.is_paused = x]
           d == WithVault(c, v)
           e == Ev("pause", k, x)
<1>1. w \in Ledger /\ free_liquidity(w) = free_liquidity(v)
  BY DEF Ledger, free_liquidity
<1>2. /\ Sound(d) /\ Sound(WithVault(c, w)) /\ Faithful(d).vault = v
      /\ d.vault = v /\ WithVault(c, w) = WithVault(d, w)
  BY <1>1, LedgerReplaced
<1> HIDE DEF d
<1>3. ASSUME NEW l, SameEvent(l, e)
      PROVE  Routed(Faithful(d), l) = Faithful(WithVault(d, w))
  <2>1. l.name = "pause" /\ l.value = x
    BY <1>3 DEF SameEvent, Ev
  <2>2. Routed(Faithful(d), l) = handlePause(Faithful(d), l)
    BY <2>1 DEF Routed, Parsed, PMEvents, VaultEvents, ConfigGroups, handleVaultEvent
  <2>3. [Faithful(d) EXCEPT !.vault = w] = Faithful(WithVault(d, w))
    <3>1. /\ d = [f \in Fields |-> d[f]] /\ WithVault(d, w).vault = w
          /\ WithVault(d, w) = [f \in Fields |-> IF f = "vault" THEN w ELSE d[f]]
      BY <1>2, SoundFields DEF WithVault, Fields
    <3> HIDE DEF w
    <3> QED
      BY <1>1, <1>2, <3>1 DEF Faithful
  <2> QED
    BY <1>2, <2>1, <2>2, <2>3 DEF handlePause
<1> HIDE DEF e, w
<1> QED
  BY <1>2, <1>3 DEF Turns, d, e, w

(* Events of a history alone, of other contracts, and unknown ones. *)
LEMMA IdleTurn ==
  ASSUME NEW c, Sound(c), NEW name \in {"transfer", "price", "role", "unknown"}, NEW k, NEW x
  PROVE  Turns(c, Ev(name, k, x), c)
BY DEF Turns, SameEvent, Ev, Routed, Parsed, PMEvents, VaultEvents, ConfigGroups,
       handleVaultEvent, handleTransfer

LEMMA PauseOfManagerTurn ==
  ASSUME NEW c, Sound(c), NEW k
  PROVE  Turns(c, Ev("pm_pause", k, 0), c)
BY DEF Turns, SameEvent, Ev, Routed, Parsed, PMEvents, VaultEvents, ConfigGroups,
       handlePositionManagerEvent, handlePmPause

(* Positions: open interest is recomputed as the sum of the sizes. *)
LEMMA SizesTyped ==
  ASSUME NEW S, IsFiniteSet(S), NEW rows \in [S -> PositionRow]
  PROVE  /\ Sizes(rows) \in [S -> Int] /\ DOMAIN rows = S
         /\ SumOf(Sizes(rows)) \in Int
<1>1. Sizes(rows) \in [S -> Int] /\ DOMAIN rows = S
  BY DEF Sizes, PositionRow
<1> DEFINE f == Sizes(rows)
<1> HIDE DEF f
<1>2. PICK g : PartialSums(g, S, f) /\ SumOf(f) = g[S]
  BY <1>1, SumHasPartialSums DEF f
<1>3. SumOf(f) \in Int
  BY <1>2 DEF PartialSums
<1> QED
  BY <1>1, <1>3 DEF f

(* A row that replaces one adds the difference of the sizes ... *)
LEMMA SizesReplaced ==
  ASSUME NEW S, IsFiniteSet(S), NEW rows \in [S -> PositionRow],
         NEW t \in S, NEW row \in PositionRow
  PROVE  SumOf(Sizes(Put(rows, t, row)))
           = SumOf(Sizes(rows)) - rows[t].size + row.size
<1> DEFINE f == Sizes(rows)
           x == row.size
<1>1. f \in [S -> Int] /\ f[t] = rows[t].size /\ x \in Int
  BY SizesTyped DEF Sizes, PositionRow
<1>2. Sizes(Put(rows, t, row)) = [f EXCEPT ![t] = x]
  BY DEF Sizes, Put
<1> HIDE DEF f, x
<1>3. SumOf([f EXCEPT ![t] = x]) = SumOf(f) - f[t] + x
  BY <1>1, SumChanges
<1> QED
  BY <1>1, <1>2, <1>3 DEF f, x

(* ... one that is deleted takes its size away ... *)
LEMMA SizesDeleted ==
  ASSUME NEW S, IsFiniteSet(S), NEW rows \in [S -> PositionRow], NEW t \in S
  PROVE  SumOf(Sizes(Restrict(rows, S \ {t}))) = SumOf(Sizes(rows)) - rows[t].size
<1> DEFINE f == Sizes(rows)
<1>1. f \in [S -> Int] /\ f[t] = rows[t].size
  BY SizesTyped DEF Sizes
<1>2. Sizes(Restrict(rows, S \ {t})) = [y \in S \ {t} |-> f[y]]
  BY DEF Sizes, Restrict
<1> HIDE DEF f
<1>3. SumOf([y \in S \ {t} |-> f[y]]) = SumOf(f) - f[t]
  BY <1>1, SumWithout
<1> QED
  BY <1>1, <1>2, <1>3 DEF f

(* ... and one that is new adds its own. *)
LEMMA SizesAdded ==
  ASSUME NEW S, IsFiniteSet(S), NEW rows \in [S -> PositionRow],
         NEW t, t \notin S, NEW row \in PositionRow
  PROVE  SumOf(Sizes(Put(rows, t, row))) = SumOf(Sizes(rows)) + row.size
<1> DEFINE new == Put(rows, t, row)
           D == S \cup {t}
<1>1. new \in [D -> PositionRow] /\ new[t] = row /\ t \in D /\ D \ {t} = S
  BY DEF Put
<1>2. Restrict(new, S) = rows
  BY DEF Put, Restrict
<1>3. IsFiniteSet(D)
  BY FS_AddElement
<1> HIDE DEF new, D
<1>4. SumOf(Sizes(rows)) = SumOf(Sizes(new)) - row.size
  <2>1. SumOf(Sizes(Restrict(new, D \ {t}))) = SumOf(Sizes(new)) - new[t].size
    BY <1>1, <1>3, SizesDeleted
  <2> QED
    BY <1>1, <1>2, <2>1
<1>5. row.size \in Int /\ SumOf(Sizes(new)) \in Int
  BY <1>1, <1>3, SizesTyped DEF PositionRow
<1> HIDE DEF PositionRow
<1>6. SumOf(Sizes(new)) = SumOf(Sizes(rows)) + row.size
  BY <1>4, <1>5
<1> QED
  BY <1>6 DEF new

LEMMA RefreshShows ==
  ASSUME NEW c, Sound(c), NEW S, IsFiniteSet(S), NEW rows \in [S -> PositionRow]
  PROVE  /\ refreshMarketAggregates([Faithful(c) EXCEPT !.positions = rows])
              = Faithful(WithPositions(c, rows))
         /\ Sound(WithPositions(c, rows))
<1> DEFINE p == [c EXCEPT !.positions = rows]
           oi == SumOf(Sizes(rows))
<1>1. p = [f \in Fields |-> p[f]] /\ p.positions = rows
  BY SoundFields DEF Fields
<1>2. {"positions", "open_interest"} \subseteq Fields \ {"vault"}
  BY DEF Fields
<1>3. [Faithful(c) EXCEPT !.positions = rows] = Faithful(p)
  BY <1>2, SoundFields, FaithfulColumns
<1>4. Faithful(p).positions = rows
  <2> HIDE DEF p
  <2> QED
    BY <1>1, <1>2, FaithfulColumns
<1>5. [Faithful(p) EXCEPT !.open_interest = oi] = Faithful([p EXCEPT !.open_interest = oi])
  <2> HIDE DEF p, oi
  <2> QED
    BY <1>1, <1>2, FaithfulColumns
<1>6. refreshMarketAggregates([Faithful(c) EXCEPT !.positions = rows])
        = Faithful(WithPositions(c, rows))
  <2> HIDE DEF p
  <2>1. refreshMarketAggregates(Faithful(p)) = [Faithful(p) EXCEPT !.open_interest = oi]
    BY <1>4 DEF refreshMarketAggregates, SumOf
  <2>2. WithPositions(c, rows) = [p EXCEPT !.open_interest = oi]
    BY DEF WithPositions, p
  <2> QED
    BY <1>3, <1>5, <2>1, <2>2
<1>7. Sound(WithPositions(c, rows))
  <2>1. oi \in Int /\ DOMAIN rows = S
    BY SizesTyped
  <2>2. c \in Contracts(DOMAIN c.positions)
    BY DEF Sound
  <2> DEFINE d == WithPositions(c, rows)
  <2>3. d \in Contracts(S) /\ d.positions = rows /\ d.open_interest = oi
    <3> HIDE DEF oi
    <3> QED
      BY <2>1, <2>2 DEF WithPositions, Contracts, PositionRow, oi
  <2> HIDE DEF d
  <2> QED
    BY <2>1, <2>3 DEF Sound, SumOf, d
<1> QED
  BY <1>6, <1>7

LEMMA IncreaseTurn ==
  ASSUME NEW c, Sound(c), NEW t, NEW row \in PositionRow
  PROVE  Turns(c, Ev("increase", t, row), WithPositions(c, Put(c.positions, t, row)))
<1> DEFINE rows == Put(c.positions, t, row)
           S == DOMAIN c.positions \cup {t}
           e == Ev("increase", t, row)
<1>1. rows \in [S -> PositionRow] /\ IsFiniteSet(S)
  <2>1. IsFiniteSet(DOMAIN c.positions)
    BY DEF Sound
  <2>2. IsFiniteSet(S)
    BY <2>1, FS_AddElement
  <2> QED
    BY <2>2, SoundFields DEF Put
<1>2. ASSUME NEW l, SameEvent(l, e)
      PROVE  Routed(Faithful(c), l)
               = refreshMarketAggregates([Faithful(c) EXCEPT !.positions = rows])
  <2>1. l.name = "increase" /\ l.key = t /\ l.value = row
    BY <1>2 DEF SameEvent, Ev
  <2>2. Routed(Faithful(c), l) = handleIncrease(Faithful(c), l)
    BY <2>1 DEF Routed, Parsed, PMEvents, VaultEvents, ConfigGroups, handlePositionManagerEvent
  <2>3. Faithful(c).positions = c.positions
    BY SoundFields, FaithfulColumns DEF Fields
  <2> QED
    BY <2>1, <2>2, <2>3 DEF handleIncrease
<1> HIDE DEF rows, S, e
<1>3. /\ refreshMarketAggregates([Faithful(c) EXCEPT !.positions = rows])
           = Faithful(WithPositions(c, rows))
      /\ Sound(WithPositions(c, rows))
  BY <1>1, RefreshShows
<1> QED
  BY <1>2, <1>3 DEF Turns, rows, e

LEMMA CloseTurn ==
  ASSUME NEW c, Sound(c), NEW name \in {"decrease", "liq", "exec_ord", "adl"}, NEW t
  PROVE  Turns(c, Ev(name, t, 0),
               WithPositions(c, Restrict(c.positions, DOMAIN c.positions \ {t})))
<1> DEFINE S == DOMAIN c.positions \ {t}
           rows == Restrict(c.positions, S)
           e == Ev(name, t, 0)
<1>1. rows \in [S -> PositionRow] /\ IsFiniteSet(S)
  <2>1. IsFiniteSet(DOMAIN c.positions)
    BY DEF Sound
  <2>2. IsFiniteSet(S)
    BY <2>1, FS_Subset
  <2> QED
    BY <2>2, SoundFields DEF Restrict
<1>2. ASSUME NEW l, SameEvent(l, e)
      PROVE  Routed(Faithful(c), l)
               = refreshMarketAggregates([Faithful(c) EXCEPT !.positions = rows])
  <2>1. l.name = name /\ l.key = t /\ l.value = 0
    BY <1>2 DEF SameEvent, Ev
  <2>2. Routed(Faithful(c), l) = refreshMarketAggregates(DeleteRow(Faithful(c), t))
    BY <2>1 DEF Routed, Parsed, PMEvents, VaultEvents, ConfigGroups, handlePositionManagerEvent,
                handleDecrease, handleForcedClose
  <2>3. Faithful(c).positions = c.positions
    BY SoundFields, FaithfulColumns DEF Fields
  <2> QED
    BY <2>2, <2>3 DEF DeleteRow
<1> HIDE DEF rows, S, e
<1>3. /\ refreshMarketAggregates([Faithful(c) EXCEPT !.positions = rows])
           = Faithful(WithPositions(c, rows))
      /\ Sound(WithPositions(c, rows))
  BY <1>1, RefreshShows
<1> QED
  BY <1>2, <1>3 DEF Turns, rows, S, e

LEMMA DecreaseTurn ==
  ASSUME NEW c, Sound(c), NEW t \in DOMAIN c.positions, NEW x \in Int \ {0}
  PROVE  Turns(c, Ev("decrease", t, x),
               WithPositions(c, [c.positions EXCEPT ![t].size = x]))
<1> DEFINE S == DOMAIN c.positions
           rows == [c.positions EXCEPT ![t].size = x]
           e == Ev("decrease", t, x)
<1>1. rows \in [S -> PositionRow] /\ IsFiniteSet(S)
  <2>1. c.positions \in [S -> PositionRow] /\ IsFiniteSet(S)
    BY SoundFields DEF Sound
  <2>2. [c.positions[t] EXCEPT !.size = x] \in PositionRow
    BY <2>1 DEF PositionRow
  <2> QED
    BY <2>1, <2>2
<1>2. ASSUME NEW l, SameEvent(l, e)
      PROVE  Routed(Faithful(c), l)
               = refreshMarketAggregates([Faithful(c) EXCEPT !.positions = rows])
  <2>1. l.name = "decrease" /\ l.key = t /\ l.value = x
    BY <1>2 DEF SameEvent, Ev
  <2>2. Routed(Faithful(c), l) = refreshMarketAggregates(UpdateRow(Faithful(c), t, "size", x))
    BY <2>1 DEF Routed, Parsed, PMEvents, VaultEvents, ConfigGroups, handlePositionManagerEvent,
                handleDecrease
  <2>3. Faithful(c).positions = c.positions
    BY SoundFields, FaithfulColumns DEF Fields
  <2> QED
    BY <2>2, <2>3 DEF UpdateRow
<1> HIDE DEF rows, S, e
<1>3. /\ refreshMarketAggregates([Faithful(c) EXCEPT !.positions = rows])
           = Faithful(WithPositions(c, rows))
      /\ Sound(WithPositions(c, rows))
  BY <1>1, RefreshShows
<1> QED
  BY <1>2, <1>3 DEF Turns, rows, e

(* Orders change no size. *)
LEMMA OrdersTurn ==
  ASSUME NEW c, Sound(c), NEW t \in DOMAIN c.positions, NEW x \in BOOLEAN
  PROVE  Turns(c, Ev("tp_sl", t, x), [c EXCEPT !.positions[t].orders = x])
<1> DEFINE S == DOMAIN c.positions
           rows == [c.positions EXCEPT ![t].orders = x]
           d == [c EXCEPT !.positions = rows]
           e == Ev("tp_sl", t, x)
<1>1. c.positions \in [S -> PositionRow] /\ IsFiniteSet(S)
  BY SoundFields DEF Sound
<1>2. rows \in [S -> PositionRow] /\ Sizes(rows) = Sizes(c.positions)
  <2>1. /\ [c.positions[t] EXCEPT !.orders = x] \in PositionRow
        /\ [c.positions[t] EXCEPT !.orders = x].size = c.positions[t].size
    BY <1>1 DEF PositionRow
  <2>2. rows \in [S -> PositionRow] /\ \A u \in S : rows[u].size = c.positions[u].size
    BY <1>1, <2>1
  <2> HIDE DEF rows
  <2> QED
    BY <1>1, <2>2 DEF Sizes
<1>3. Sound(d)
  <2> HIDE DEF rows
  <2> QED
    BY <1>1, <1>2 DEF Sound, Contracts, PositionRow
<1>4. ASSUME NEW l, SameEvent(l, e)
      PROVE  Routed(Faithful(c), l) = Faithful(d)
  <2>1. l.name = "tp_sl" /\ l.key = t /\ l.value = x
    BY <1>4 DEF SameEvent, Ev
  <2>2. Routed(Faithful(c), l) = UpdateRow(Faithful(c), t, "orders", x)
    BY <2>1 DEF Routed, Parsed, PMEvents, VaultEvents, ConfigGroups, handlePositionManagerEvent,
                handleTpSl
  <2>3. Faithful(c).positions = c.positions
    BY SoundFields, FaithfulColumns DEF Fields
  <2>4. UpdateRow(Faithful(c), t, "orders", x) = [Faithful(c) EXCEPT !.positions = rows]
    BY <2>3 DEF UpdateRow
  <2> HIDE DEF rows
  <2>5. [Faithful(c) EXCEPT !.positions = rows] = Faithful(d)
    <3>1. "positions" \in Fields \ {"vault"}
      BY DEF Fields
    <3> QED
      BY <3>1, SoundFields, FaithfulColumns
  <2> QED
    BY <2>2, <2>4, <2>5
<1>5. d = [c EXCEPT !.positions[t].orders = x]
  OBVIOUS
<1> HIDE DEF d, e
<1> QED
  BY <1>3, <1>4, <1>5 DEF Turns, e

(***************************************************************************)
(* What the handlers make of a transaction: what the contracts hold after  *)
(* it.                                                                     *)
(***************************************************************************)

Plays(from, c, evs) ==
  /\ Len(evs) \in 1..6 /\ DOMAIN evs = 1..Len(evs)
  /\ Sound(c)
  /\ \A b : HandleAll(Faithful(from), Logged(c, evs, b)) = Faithful(c)

WrittenAs(page, c, evs, b) ==
  /\ page \in Seq(Range(page)) /\ Len(page) = Len(evs)
  /\ \A i \in 1..Len(evs) : /\ SameEvent(page[i], evs[i])
                            /\ page[i].chain = c
                            /\ page[i].closes <=> i = Len(evs)
                            /\ page[i].after = Faithful(c)
                            /\ page[i].balance = b

LEMMA LoggedEvents ==
  ASSUME NEW c, NEW evs, NEW b, Len(evs) \in Nat, DOMAIN evs = 1..Len(evs)
  PROVE  WrittenAs(Logged(c, evs, b), c, evs, b)
<1> DEFINE page == Logged(c, evs, b)
           n == Len(evs)
<1>1. /\ page = [i \in 1..n |-> page[i]]
      /\ \A i \in 1..n : /\ SameEvent(page[i], evs[i]) /\ page[i].chain = c
                         /\ page[i].closes <=> i = n
                         /\ page[i].after = Faithful(c) /\ page[i].balance = b
  BY DEF Logged, SameEvent
<1> HIDE DEF page
<1>2. \A i \in 1..n : page[i] \in Range(page)
  BY <1>1 DEF Range
<1>3. page \in [1..n -> Range(page)]
  BY <1>1, <1>2
<1>4. page \in Seq(Range(page)) /\ Len(page) = n
  BY <1>3
<1> QED
  BY <1>1, <1>4 DEF page, WrittenAs

LEMMA PlaysOne ==
  ASSUME NEW from, NEW e1, NEW c, Turns(from, e1, c)
  PROVE  Plays(from, c, <<e1>>)
<1> DEFINE evs == <<e1>>
<1>1. /\ Len(evs) = 1 /\ DOMAIN evs = 1..1
      /\ evs[1] = e1
  OBVIOUS
<1> HIDE DEF evs
<1>2. ASSUME NEW b
      PROVE  HandleAll(Faithful(from), Logged(c, evs, b)) = Faithful(c)
  <2> DEFINE page == Logged(c, evs, b)
  <2>1. /\ page \in Seq(Range(page)) /\ Len(page) = 1
        /\ SameEvent(page[1], e1)
    BY <1>1, LoggedEvents DEF WrittenAs
  <2> HIDE DEF page
  <2>2. PICK h : Handles(h, Faithful(from), page) /\ h[1] = HandleAll(Faithful(from), page)
    BY <2>1, HandlersRunInOrder
  <2>3. h[1] = Faithful(c)
    <3>1. h[1] = Routed(h[0], page[1]) /\ h[0] = Faithful(from)
      BY <2>1, <2>2 DEF Handles
    <3> QED
      BY <2>1, <3>1 DEF Turns
  <2> QED
    BY <2>2, <2>3 DEF page
<1>3. Sound(c)
  BY DEF Turns
<1>4. Plays(from, c, evs)
  BY <1>1, <1>2, <1>3 DEF Plays
<1> QED
  BY <1>4 DEF evs

LEMMA PlaysTwo ==
  ASSUME NEW from, NEW e1, NEW d1, Turns(from, e1, d1), NEW e2, NEW c, Turns(d1, e2, c)
  PROVE  Plays(from, c, <<e1, e2>>)
<1> DEFINE evs == <<e1, e2>>
<1>1. /\ Len(evs) = 2 /\ DOMAIN evs = 1..2
      /\ evs[1] = e1 /\ evs[2] = e2
  OBVIOUS
<1> HIDE DEF evs
<1>2. ASSUME NEW b
      PROVE  HandleAll(Faithful(from), Logged(c, evs, b)) = Faithful(c)
  <2> DEFINE page == Logged(c, evs, b)
  <2>1. /\ page \in Seq(Range(page)) /\ Len(page) = 2
        /\ SameEvent(page[1], e1) /\ SameEvent(page[2], e2)
    BY <1>1, LoggedEvents DEF WrittenAs
  <2> HIDE DEF page
  <2>2. PICK h : Handles(h, Faithful(from), page) /\ h[2] = HandleAll(Faithful(from), page)
    BY <2>1, HandlersRunInOrder
  <2>3. h[1] = Faithful(d1)
    <3>1. h[1] = Routed(h[0], page[1]) /\ h[0] = Faithful(from)
      BY <2>1, <2>2 DEF Handles
    <3> QED
      BY <2>1, <3>1 DEF Turns
  <2>4. h[2] = Faithful(c)
    <3>1. h[2] = Routed(h[1], page[2])
      BY <2>1, <2>2 DEF Handles
    <3> QED
      BY <2>3, <2>1, <3>1 DEF Turns
  <2> QED
    BY <2>2, <2>4 DEF page
<1>3. Sound(c)
  BY DEF Turns
<1>4. Plays(from, c, evs)
  BY <1>1, <1>2, <1>3 DEF Plays
<1> QED
  BY <1>4 DEF evs

LEMMA PlaysThree ==
  ASSUME NEW from, NEW e1, NEW d1, Turns(from, e1, d1), NEW e2, NEW d2, Turns(d1, e2, d2),
         NEW e3, NEW c, Turns(d2, e3, c)
  PROVE  Plays(from, c, <<e1, e2, e3>>)
<1> DEFINE evs == <<e1, e2, e3>>
<1>1. /\ Len(evs) = 3 /\ DOMAIN evs = 1..3
      /\ evs[1] = e1 /\ evs[2] = e2 /\ evs[3] = e3
  OBVIOUS
<1> HIDE DEF evs
<1>2. ASSUME NEW b
      PROVE  HandleAll(Faithful(from), Logged(c, evs, b)) = Faithful(c)
  <2> DEFINE page == Logged(c, evs, b)
  <2>1. /\ page \in Seq(Range(page)) /\ Len(page) = 3
        /\ SameEvent(page[1], e1) /\ SameEvent(page[2], e2)
        /\ SameEvent(page[3], e3)
    BY <1>1, LoggedEvents DEF WrittenAs
  <2> HIDE DEF page
  <2>2. PICK h : Handles(h, Faithful(from), page) /\ h[3] = HandleAll(Faithful(from), page)
    BY <2>1, HandlersRunInOrder
  <2>3. h[1] = Faithful(d1)
    <3>1. h[1] = Routed(h[0], page[1]) /\ h[0] = Faithful(from)
      BY <2>1, <2>2 DEF Handles
    <3> QED
      BY <2>1, <3>1 DEF Turns
  <2>4. h[2] = Faithful(d2)
    <3>1. h[2] = Routed(h[1], page[2])
      BY <2>1, <2>2 DEF Handles
    <3> QED
      BY <2>3, <2>1, <3>1 DEF Turns
  <2>5. h[3] = Faithful(c)
    <3>1. h[3] = Routed(h[2], page[3])
      BY <2>1, <2>2 DEF Handles
    <3> QED
      BY <2>4, <2>1, <3>1 DEF Turns
  <2> QED
    BY <2>2, <2>5 DEF page
<1>3. Sound(c)
  BY DEF Turns
<1>4. Plays(from, c, evs)
  BY <1>1, <1>2, <1>3 DEF Plays
<1> QED
  BY <1>4 DEF evs

LEMMA PlaysFour ==
  ASSUME NEW from, NEW e1, NEW d1, Turns(from, e1, d1), NEW e2, NEW d2, Turns(d1, e2, d2),
         NEW e3, NEW d3, Turns(d2, e3, d3), NEW e4, NEW c, Turns(d3, e4, c)
  PROVE  Plays(from, c, <<e1, e2, e3, e4>>)
<1> DEFINE evs == <<e1, e2, e3, e4>>
<1>1. /\ Len(evs) = 4 /\ DOMAIN evs = 1..4
      /\ evs[1] = e1 /\ evs[2] = e2 /\ evs[3] = e3 /\ evs[4] = e4
  OBVIOUS
<1> HIDE DEF evs
<1>2. ASSUME NEW b
      PROVE  HandleAll(Faithful(from), Logged(c, evs, b)) = Faithful(c)
  <2> DEFINE page == Logged(c, evs, b)
  <2>1. /\ page \in Seq(Range(page)) /\ Len(page) = 4
        /\ SameEvent(page[1], e1) /\ SameEvent(page[2], e2)
        /\ SameEvent(page[3], e3) /\ SameEvent(page[4], e4)
    BY <1>1, LoggedEvents DEF WrittenAs
  <2> HIDE DEF page
  <2>2. PICK h : Handles(h, Faithful(from), page) /\ h[4] = HandleAll(Faithful(from), page)
    BY <2>1, HandlersRunInOrder
  <2>3. h[1] = Faithful(d1)
    <3>1. h[1] = Routed(h[0], page[1]) /\ h[0] = Faithful(from)
      BY <2>1, <2>2 DEF Handles
    <3> QED
      BY <2>1, <3>1 DEF Turns
  <2>4. h[2] = Faithful(d2)
    <3>1. h[2] = Routed(h[1], page[2])
      BY <2>1, <2>2 DEF Handles
    <3> QED
      BY <2>3, <2>1, <3>1 DEF Turns
  <2>5. h[3] = Faithful(d3)
    <3>1. h[3] = Routed(h[2], page[3])
      BY <2>1, <2>2 DEF Handles
    <3> QED
      BY <2>4, <2>1, <3>1 DEF Turns
  <2>6. h[4] = Faithful(c)
    <3>1. h[4] = Routed(h[3], page[4])
      BY <2>1, <2>2 DEF Handles
    <3> QED
      BY <2>5, <2>1, <3>1 DEF Turns
  <2> QED
    BY <2>2, <2>6 DEF page
<1>3. Sound(c)
  BY DEF Turns
<1>4. Plays(from, c, evs)
  BY <1>1, <1>2, <1>3 DEF Plays
<1> QED
  BY <1>4 DEF evs

LEMMA PlaysSix ==
  ASSUME NEW from, NEW e1, NEW d1, Turns(from, e1, d1), NEW e2, NEW d2, Turns(d1, e2, d2),
         NEW e3, NEW d3, Turns(d2, e3, d3), NEW e4, NEW d4, Turns(d3, e4, d4),
         NEW e5, NEW d5, Turns(d4, e5, d5), NEW e6, NEW c, Turns(d5, e6, c)
  PROVE  Plays(from, c, <<e1, e2, e3, e4, e5, e6>>)
<1> DEFINE evs == <<e1, e2, e3, e4, e5, e6>>
<1>1. /\ Len(evs) = 6 /\ DOMAIN evs = 1..6
      /\ evs[1] = e1 /\ evs[2] = e2 /\ evs[3] = e3 /\ evs[4] = e4 /\ evs[5] = e5 /\ evs[6] = e6
  OBVIOUS
<1> HIDE DEF evs
<1>2. ASSUME NEW b
      PROVE  HandleAll(Faithful(from), Logged(c, evs, b)) = Faithful(c)
  <2> DEFINE page == Logged(c, evs, b)
  <2>1. /\ page \in Seq(Range(page)) /\ Len(page) = 6
        /\ SameEvent(page[1], e1) /\ SameEvent(page[2], e2)
        /\ SameEvent(page[3], e3) /\ SameEvent(page[4], e4)
        /\ SameEvent(page[5], e5) /\ SameEvent(page[6], e6)
    BY <1>1, LoggedEvents DEF WrittenAs
  <2> HIDE DEF page
  <2>2. PICK h : Handles(h, Faithful(from), page) /\ h[6] = HandleAll(Faithful(from), page)
    BY <2>1, HandlersRunInOrder
  <2>3. h[1] = Faithful(d1)
    <3>1. h[1] = Routed(h[0], page[1]) /\ h[0] = Faithful(from)
      BY <2>1, <2>2 DEF Handles
    <3> QED
      BY <2>1, <3>1 DEF Turns
  <2>4. h[2] = Faithful(d2)
    <3>1. h[2] = Routed(h[1], page[2])
      BY <2>1, <2>2 DEF Handles
    <3> QED
      BY <2>3, <2>1, <3>1 DEF Turns
  <2>5. h[3] = Faithful(d3)
    <3>1. h[3] = Routed(h[2], page[3])
      BY <2>1, <2>2 DEF Handles
    <3> QED
      BY <2>4, <2>1, <3>1 DEF Turns
  <2>6. h[4] = Faithful(d4)
    <3>1. h[4] = Routed(h[3], page[4])
      BY <2>1, <2>2 DEF Handles
    <3> QED
      BY <2>5, <2>1, <3>1 DEF Turns
  <2>7. h[5] = Faithful(d5)
    <3>1. h[5] = Routed(h[4], page[5])
      BY <2>1, <2>2 DEF Handles
    <3> QED
      BY <2>6, <2>1, <3>1 DEF Turns
  <2>8. h[6] = Faithful(c)
    <3>1. h[6] = Routed(h[5], page[6])
      BY <2>1, <2>2 DEF Handles
    <3> QED
      BY <2>7, <2>1, <3>1 DEF Turns
  <2> QED
    BY <2>2, <2>8 DEF page
<1>3. Sound(c)
  BY DEF Turns
<1>4. Plays(from, c, evs)
  BY <1>1, <1>2, <1>3 DEF Plays
<1> QED
  BY <1>4 DEF evs

(* The contracts' transaction is one of those. *)
Told == \E c, evs, b : Emits(c, evs, b) /\ Plays(chain, c, evs) /\ Settles(c, b)

LEMMA OwnLedger ==
  ASSUME NEW c, Sound(c)
  PROVE  c.vault \in Ledger /\ WithVault(c, c.vault) = c
BY SoundFields DEF WithVault, Fields

LEMMA ChainNumbers ==
  ASSUME Sound(chain)
  PROVE  /\ V \in Ledger /\ WithVault(chain, V) = chain
         /\ V.total_assets \in Int /\ V.reserved_usdc \in Int /\ V.unclaimed_fees \in Int
         /\ V.is_paused \in BOOLEAN
         /\ chain.lockup \in Int /\ chain.market.acc_index \in Int
<1>1. V \in Ledger /\ WithVault(chain, V) = chain
  BY OwnLedger DEF V
<1>2. chain.lockup \in Int /\ chain.market.acc_index \in Int
  BY DEF Sound, Contracts
<1> QED
  BY <1>1, <1>2 DEF Ledger

(* What a movement of USDC leaves in the vault, and what is told of it. *)
LEMMA MoneyMoves ==
  ASSUME NEW n \in Int, balance \in Balances
  PROVE  /\ Counted(n) \in Balances
         /\ Counted(n).usdc = AsTold(Counted(n)) /\ AsTold(Counted(n)) \in Int
         /\ Paid(n) \in Balances /\ AsTold(Paid(n)) = AsTold(balance) - n
         /\ AsTold(balance) \in Int
BY DEF Balances, Counted, Paid, AsTold

(* A payment without a slice is not told. *)
LEMMA RevenueMoves ==
  ASSUME NEW b \in Balances, NEW amount \in 0..2
  PROVE  /\ recv_revenue(b, amount) \in Balances
         /\ non_lp(amount) \in Int /\ AsTold(recv_revenue(b, amount)) \in Int
         /\ ~(non_lp(amount) > 0) =>
              /\ non_lp(amount) = 0
              /\ AsTold(recv_revenue(b, amount)) = AsTold(b)
<1>1. non_lp(amount) \in {0, 1}
  BY DEF non_lp
<1>2. /\ recv_revenue(b, amount) \in Balances
      /\ AsTold(recv_revenue(b, amount)) \in Int
      /\ ~(non_lp(amount) > 0) => AsTold(recv_revenue(b, amount)) = AsTold(b)
  <2> DEFINE x == non_lp(amount)
  <2> HIDE DEF x
  <2>1. /\ (IF x > 0 THEN [usdc |-> b.usdc + amount, silent |-> 0] ELSE Untold(b, amount)) \in Balances
        /\ AsTold(IF x > 0 THEN [usdc |-> b.usdc + amount, silent |-> 0] ELSE Untold(b, amount)) \in Int
        /\ ~(x > 0) => AsTold(IF x > 0 THEN [usdc |-> b.usdc + amount, silent |-> 0]
                                        ELSE Untold(b, amount)) = AsTold(b)
    BY DEF Balances, AsTold, Untold
  <2> QED
    BY <2>1 DEF recv_revenue, x
<1> QED
  BY <1>1, <1>2

(* Short sequences of events, joined. *)
LEMMA JoinedTo ==
  ASSUME NEW S, NEW s \in Seq(S), NEW t \in Seq(S), NEW u \in Seq(S), Len(u) = Len(s) + Len(t),
         \A i \in 1..Len(s) : u[i] = s[i],
         \A i \in 1..Len(t) : u[Len(s) + i] = t[i]
  PROVE  s \o t = u
<1> DEFINE st == s \o t
           m == Len(s)
           k == Len(t)
<1>1. /\ st \in Seq(S) /\ Len(st) = m + k /\ m \in Nat /\ k \in Nat
      /\ \A i \in 1..m : st[i] = s[i]
      /\ \A i \in 1..k : st[m + i] = t[i]
  OBVIOUS
<1> HIDE DEF st, m, k
<1>2. ASSUME NEW i \in 1..Len(st)
      PROVE  st[i] = u[i]
  <2>1. CASE i <= m
    BY <1>1, <2>1 DEF m
  <2>2. CASE ~(i <= m)
    <3> DEFINE j == i - m
    <3>1. j \in 1..k /\ i = m + j
      BY <1>1, <2>2
    <3> HIDE DEF j
    <3>2. st[i] = t[j] /\ u[i] = t[j]
      BY <1>1, <3>1 DEF m, k
    <3> QED
      BY <3>2
  <2> QED
    BY <2>1, <2>2
<1>3. Len(st) = Len(u) /\ \A i \in 1..Len(st) : st[i] = u[i]
  BY <1>1, <1>2 DEF m, k
<1>4. st = u
  BY ONLY <1>1, <1>3, u \in Seq(S)
<1> QED
  BY <1>4 DEF st

LEMMA NothingJoined ==
  ASSUME NEW e1, NEW e2
  PROVE  <<>> \o <<e1, e2>> = <<e1, e2>> /\ <<e1, e2>> \o <<>> = <<e1, e2>>
<1>1. <<>> \o <<e1, e2>> = <<e1, e2>>
  OBVIOUS
<1>2. <<e1, e2>> \o <<>> = <<e1, e2>>
  OBVIOUS
<1> QED
  BY <1>1, <1>2

LEMMA TwoAndTwo ==
  ASSUME NEW e1, NEW e2, NEW e3, NEW e4
  PROVE  <<e1, e2>> \o <<e3, e4>> = <<e1, e2, e3, e4>>
<1> DEFINE S == {e1, e2, e3, e4}
           s == <<e1, e2>>
           t == <<e3, e4>>
           u == <<e1, e2, e3, e4>>
<1>1. s \in Seq(S) /\ t \in Seq(S) /\ u \in Seq(S) /\ Len(u) = 4 /\ Len(s) = 2 /\ Len(t) = 2
  OBVIOUS
<1>2. u[1] = s[1] /\ u[2] = s[2] /\ u[3] = t[1] /\ u[4] = t[2]
  OBVIOUS
<1> HIDE DEF S, s, t, u
<1>3. /\ s \in Seq(S) /\ t \in Seq(S) /\ u \in Seq(S) /\ Len(u) = Len(s) + Len(t)
      /\ \A i \in 1..Len(s) : u[i] = s[i]
      /\ \A i \in 1..Len(t) : u[Len(s) + i] = t[i]
  BY <1>1, <1>2
<1>4. s \o t = u
  BY ONLY <1>3, JoinedTo
<1> QED
  BY <1>4 DEF s, t, u

LEMMA FourAndTwo ==
  ASSUME NEW e1, NEW e2, NEW e3, NEW e4, NEW e5, NEW e6
  PROVE  <<e1, e2, e3, e4>> \o <<e5, e6>> = <<e1, e2, e3, e4, e5, e6>>
<1> DEFINE S == {e1, e2, e3, e4, e5, e6}
           s == <<e1, e2, e3, e4>>
           t == <<e5, e6>>
           u == <<e1, e2, e3, e4, e5, e6>>
<1>1. s \in Seq(S) /\ t \in Seq(S) /\ u \in Seq(S) /\ Len(u) = 6 /\ Len(s) = 4 /\ Len(t) = 2
  OBVIOUS
<1>2. /\ u[1] = s[1] /\ u[2] = s[2] /\ u[3] = s[3] /\ u[4] = s[4]
      /\ u[5] = t[1] /\ u[6] = t[2]
  OBVIOUS
<1> HIDE DEF S, s, t, u
<1>3. /\ s \in Seq(S) /\ t \in Seq(S) /\ u \in Seq(S) /\ Len(u) = Len(s) + Len(t)
      /\ \A i \in 1..Len(s) : u[i] = s[i]
      /\ \A i \in 1..Len(t) : u[Len(s) + i] = t[i]
  BY <1>1, <1>2
<1>4. s \o t = u
  BY ONLY <1>3, JoinedTo
<1> QED
  BY <1>4 DEF s, t, u

LEMMA DepositPlays ==
  ASSUME Sound(chain), balance \in Balances
  PROVE  LET v == [V EXCEPT !.total_assets = AsTold(Counted(1)), !.total_shares = @ + 1]
             d == [Vaulted(v) EXCEPT !.lockup = @ + 1]
         IN  /\ Plays(chain, d, <<Ev("lockup", "", chain.lockup + 1), Ev("deposit", "", 1),
                                  Ev("total", "", v.total_assets)>>)
             /\ Settles(d, Counted(1))
<1> DEFINE y == chain.lockup + 1
           x == AsTold(Counted(1))
           c == [chain EXCEPT !.lockup = y]
           v == [V EXCEPT !.total_shares = @ + 1]
           w == [v EXCEPT !.total_assets = x]
<1>1. V \in Ledger /\ x \in Int /\ y \in Int /\ Counted(1) \in Balances
  BY ChainNumbers, MoneyMoves
<1>2. v \in Ledger
  BY <1>1 DEF Ledger
<1>3. w = [V EXCEPT !.total_assets = AsTold(Counted(1)), !.total_shares = @ + 1] /\ w.total_assets = x
  BY <1>1 DEF Ledger
<1>4. c.vault = V
  BY SoundFields DEF Fields, V
<1>5. WithVault(c, w) = [Vaulted(w) EXCEPT !.lockup = @ + 1]
  <2> HIDE DEF w
  <2> QED
    BY SoundFields DEF Vaulted, WithVault, Fields
<1> HIDE DEF x, y, w
<1>6. Turns(chain, Ev("lockup", "", y), c)
  BY <1>1, LockupTurn
<1>7. Sound(c)
  BY <1>6 DEF Turns
<1> HIDE DEF c
<1>8. WithVault(c, V) = c
  BY <1>4, <1>7, OwnLedger
<1>9. Turns(c, Ev("deposit", "", 1), WithVault(c, v))
  <2> DEFINE one == 1
  <2>1. one \in Int
    OBVIOUS
  <2> HIDE DEF one
  <2>2. Turns(WithVault(c, V), Ev("deposit", "", one),
              WithVault(c, [V EXCEPT !.total_shares = @ + one]))
    BY <1>1, <1>7, <2>1, DepositTurn
  <2> QED
    BY <1>8, <2>2 DEF one
<1> HIDE DEF v
<1>10. Turns(WithVault(c, v), Ev("total", "", x), WithVault(c, w))
  BY <1>1, <1>2, <1>7, TotalAssetsTurn DEF w
<1>11. Plays(chain, WithVault(c, w), <<Ev("lockup", "", y), Ev("deposit", "", 1), Ev("total", "", x)>>)
  BY <1>6, <1>9, <1>10, PlaysThree
<1>12. Settles(WithVault(c, w), Counted(1))
  <2>1. w \in Ledger /\ w.total_assets = x
    BY <1>1, <1>2 DEF Ledger, w
  <2>2. WithVault(c, w).vault = w
    BY <1>7, <2>1, LedgerReplaced
  <2> QED
    BY <1>1, <2>1, <2>2 DEF Settles, x
<1> QED
  BY <1>3, <1>5, <1>11, <1>12 DEF y

LEMMA WithdrawalPlays ==
  ASSUME Sound(chain), balance \in Balances
  PROVE  LET v == [V EXCEPT !.total_assets = AsTold(Counted(-1)), !.total_shares = @ - 1]
         IN  /\ Plays(chain, Vaulted(v), <<Ev("withdraw", "", 1), Ev("total", "", v.total_assets)>>)
             /\ Settles(Vaulted(v), Counted(-1))
<1> DEFINE x == AsTold(Counted(-1))
           v == [V EXCEPT !.total_shares = @ - 1]
           w == [v EXCEPT !.total_assets = x]
<1>1. V \in Ledger /\ x \in Int /\ WithVault(chain, V) = chain /\ Counted(-1) \in Balances
  BY ChainNumbers, MoneyMoves
<1>2. v \in Ledger
  BY <1>1 DEF Ledger
<1>3. w = [V EXCEPT !.total_assets = AsTold(Counted(-1)), !.total_shares = @ - 1] /\ w.total_assets = x
  BY <1>1 DEF Ledger
<1> HIDE DEF x, w
<1>5. Turns(chain, Ev("withdraw", "", 1), WithVault(chain, v))
  <2> DEFINE one == 1
  <2>1. one \in Int
    OBVIOUS
  <2> HIDE DEF one
  <2>2. Turns(WithVault(chain, V), Ev("withdraw", "", one),
              WithVault(chain, [V EXCEPT !.total_shares = @ - one]))
    BY <1>1, <2>1, WithdrawTurn
  <2> QED
    BY <1>1, <2>2 DEF one
<1> HIDE DEF v
<1>6. Turns(WithVault(chain, v), Ev("total", "", x), WithVault(chain, w))
  BY <1>1, <1>2, TotalAssetsTurn DEF w
<1>7. Plays(chain, WithVault(chain, w), <<Ev("withdraw", "", 1), Ev("total", "", x)>>)
  BY <1>5, <1>6, PlaysTwo
<1>8. Vaulted(w) = WithVault(chain, w)
  BY DEF Vaulted, WithVault
<1>9. Settles(WithVault(chain, w), Counted(-1))
  <2>1. w \in Ledger /\ w.total_assets = x
    BY <1>1, <1>2 DEF Ledger, w
  <2>2. WithVault(chain, w).vault = w
    BY <2>1, LedgerReplaced
  <2> QED
    BY <1>1, <2>1, <2>2 DEF Settles, x
<1> QED
  BY <1>3, <1>7, <1>8, <1>9

LEMMA LPTransactsTold ==
  ASSUME Sound(chain), Settles(chain, balance), LPTransacts
  PROVE  Told
<1>1. Plays(chain, chain, <<Ev("transfer", "", 1)>>)
  BY IdleTurn, PlaysOne
<1>2. balance \in Balances
  BY DEF Settles
<1> QED
  BY <1>1, <1>2, DepositPlays, WithdrawalPlays DEF LPTransacts, Told

LEMMA LedgerDebited ==
  ASSUME NEW v \in Ledger, NEW f \in Int, NEW n \in Int
  PROVE  LET w == [v EXCEPT !.unclaimed_fees = f, !.total_assets = @ - n]
         IN  w \in Ledger /\ w.total_assets = v.total_assets - n
<1> DEFINE u == [v EXCEPT !.unclaimed_fees = f]
           x == u.total_assets - n
<1>1. u \in Ledger /\ u.total_assets = v.total_assets
  BY DEF Ledger
<1> HIDE DEF u
<1>2. x \in Int /\ x = v.total_assets - n
  BY <1>1 DEF Ledger
<1> HIDE DEF x
<1>3. [u EXCEPT !.total_assets = x] \in Ledger /\ [u EXCEPT !.total_assets = x].total_assets = x
  BY <1>1, <1>2 DEF Ledger
<1> QED
  BY <1>2, <1>3 DEF u, x

LEMMA FeesClaimedTold ==
  ASSUME Sound(chain), Settles(chain, balance), FeesClaimed
  PROVE  Told
<1>1. V \in Ledger /\ V.unclaimed_fees \in Int /\ WithVault(chain, V) = chain
  BY ChainNumbers
<1>0. ASSUME NEW n \in Int, NEW w \in Ledger, w.total_assets = V.total_assets - n
      PROVE  Settles(Vaulted(w), Paid(n))
  <2>1. Vaulted(w).vault = w
    BY SoundFields DEF Vaulted, Fields
  <2>2. balance \in Balances /\ V.total_assets = AsTold(balance)
    BY DEF Settles, V
  <2>3. Paid(n) \in Balances /\ AsTold(Paid(n)) = AsTold(balance) - n
    BY <2>2, MoneyMoves
  <2> QED
    BY <1>0, <2>1, <2>2, <2>3 DEF Settles
<1>2. /\ Plays(chain, Vaulted([V EXCEPT !.total_assets = @ - V.unclaimed_fees, !.unclaimed_fees = 0]),
               <<Ev("claim", "", V.unclaimed_fees)>>)
      /\ Settles(Vaulted([V EXCEPT !.total_assets = @ - V.unclaimed_fees, !.unclaimed_fees = 0]),
                 Paid(V.unclaimed_fees))
  <2> DEFINE x == V.unclaimed_fees
             w == [V EXCEPT !.unclaimed_fees = 0, !.total_assets = @ - x]
  <2>1. w = [V EXCEPT !.total_assets = @ - V.unclaimed_fees, !.unclaimed_fees = 0]
    BY <1>1 DEF Ledger
  <2>5. w \in Ledger /\ w.total_assets = V.total_assets - x
    <3>1. x \in Int /\ 0 \in Int
      BY <1>1
    <3> HIDE DEF x
    <3> QED
      BY <1>1, <3>1, LedgerDebited
  <2>2. Turns(WithVault(chain, V), Ev("claim", "", x), WithVault(chain, w))
    <3> HIDE DEF x
    <3> QED
      BY <1>1, ClaimTurn DEF x
  <2> HIDE DEF w
  <2>3. Plays(chain, WithVault(chain, w), <<Ev("claim", "", x)>>)
    BY <1>1, <2>2, PlaysOne
  <2>4. Vaulted(w) = WithVault(chain, w)
    BY DEF Vaulted, WithVault
  <2>6. Settles(Vaulted(w), Paid(x))
    BY <1>0, <1>1, <2>5
  <2> QED
    BY <2>1, <2>3, <2>4, <2>6
<1>3. /\ Plays(chain, Vaulted([V EXCEPT !.total_assets = @ - 1, !.unclaimed_fees = @ - 1]),
               <<Ev("claim_to", V.unclaimed_fees - 1, 1)>>)
      /\ Settles(Vaulted([V EXCEPT !.total_assets = @ - 1, !.unclaimed_fees = @ - 1]), Paid(1))
  <2> DEFINE k == V.unclaimed_fees - 1
             one == 1
             w == [V EXCEPT !.unclaimed_fees = k, !.total_assets = @ - one]
  <2>1. w = [V EXCEPT !.total_assets = @ - 1, !.unclaimed_fees = @ - 1]
    BY ONLY <1>1 DEF Ledger
  <2>2. k \in Int /\ one \in Int
    BY <1>1
  <2> HIDE DEF k, one
  <2>6. w \in Ledger /\ w.total_assets = V.total_assets - one
    BY <1>1, <2>2, LedgerDebited
  <2>3. Turns(WithVault(chain, V), Ev("claim_to", k, one), WithVault(chain, w))
    BY <1>1, <2>2, ClaimToTurn
  <2> HIDE DEF w
  <2>4. Plays(chain, WithVault(chain, w), <<Ev("claim_to", k, one)>>)
    BY <1>1, <2>3, PlaysOne
  <2>5. Vaulted(w) = WithVault(chain, w)
    BY DEF Vaulted, WithVault
  <2>7. Settles(Vaulted(w), Paid(one))
    BY <1>0, <2>2, <2>6
  <2> QED
    BY <2>1, <2>4, <2>5, <2>7 DEF k, one
<1> QED
  BY <1>2, <1>3 DEF FeesClaimed, Told

LEMMA IndicesUpdatedTold ==
  ASSUME Sound(chain), Settles(chain, balance), IndicesUpdated
  PROVE  Told
<1> DEFINE x  == chain.market.acc_index + 1
           one == 1
           c1 == [chain EXCEPT !.market.acc_index = x]
           c2 == [c1 EXCEPT !.market.unrealized_pnl = one]
           w  == [c2.vault EXCEPT !.net_pnl = one]
           evs == <<Ev("indices", "", x), Ev("mkt_pnl", "", one), Ev("net_pnl", "", one)>>
<1>1. x \in Int /\ one \in Int
  BY ChainNumbers
<1>2. WithVault(c2, w) = [chain EXCEPT !.market.acc_index = @ + 1,
                                       !.market.unrealized_pnl = 1, !.vault.net_pnl = 1]
  BY SoundFields DEF WithVault, Fields
<1>3. Emits(WithVault(c2, w), evs, balance)
  <2>1. Emits([chain EXCEPT !.market.acc_index = @ + 1, !.market.unrealized_pnl = 1,
                            !.vault.net_pnl = 1], evs, balance)
    BY DEF IndicesUpdated
  <2> HIDE DEF evs
  <2> QED
    BY <1>2, <2>1
<1>10. Settles(WithVault(c2, w), balance)
  <2>1. WithVault(c2, w).vault = [V EXCEPT !.net_pnl = one]
    BY <1>2, SoundFields DEF V, Fields
  <2>2. [V EXCEPT !.net_pnl = one].total_assets = V.total_assets
    BY ChainNumbers DEF Ledger
  <2> QED
    BY <2>1, <2>2 DEF Settles, V
<1> HIDE DEF x, one
<1>4. Turns(chain, Ev("indices", "", x), c1)
  BY <1>1, IndicesTurn
<1> HIDE DEF c1
<1>5. Turns(c1, Ev("mkt_pnl", "", one), c2)
  <2>1. Sound(c1)
    BY <1>4 DEF Turns
  <2> QED
    BY <1>1, <2>1, MarketPnlTurn
<1> HIDE DEF c2
<1>6. Sound(c2)
  BY <1>5 DEF Turns
<1>7. c2.vault \in Ledger /\ WithVault(c2, c2.vault) = c2
  BY <1>6, OwnLedger
<1>8. Turns(WithVault(c2, c2.vault), Ev("net_pnl", "", one), WithVault(c2, w))
  BY <1>1, <1>6, <1>7, NetPnlTurn
<1> HIDE DEF w
<1>9. Plays(chain, WithVault(c2, w), evs)
  BY <1>4, <1>5, <1>7, <1>8, PlaysThree
<1> QED
  BY <1>3, <1>9, <1>10 DEF Told

LEMMA AdministeredTold ==
  ASSUME Sound(chain), Settles(chain, balance), Administered, Len(log) \in Nat
  PROVE  Told
<1> DEFINE one == 1
<1>0. one \in Int
  OBVIOUS
<1> HIDE DEF one
<1>1. ASSUME NEW group \in ConfigGroups
      PROVE  Plays(chain, [chain EXCEPT !.config[group] = 1], <<Ev(group, "", 1)>>)
  <2>1. group \in {"feecfg", "feecnf", "limits", "rates"}
    BY DEF ConfigGroups
  <2>2. Turns(chain, Ev(group, "", one), [chain EXCEPT !.config[group] = one])
    BY <1>0, <2>1, ConfigTurn
  <2> QED
    BY <2>2, PlaysOne DEF one
<1>2. Plays(chain, [chain EXCEPT !.market.max_leverage = 1], <<Ev("max_lev", "", 1)>>)
  <2>1. Turns(chain, Ev("max_lev", "", one), [chain EXCEPT !.market.max_leverage = one])
    BY <1>0, MaxLeverageTurn
  <2> QED
    BY <2>1, PlaysOne DEF one
<1>3. Plays(chain, [chain EXCEPT !.vault.is_paused = ~@], <<Ev("pause", "", ~V.is_paused)>>)
  <2> DEFINE x == ~V.is_paused
             w == [V EXCEPT !.is_paused = x]
  <2>1. x \in BOOLEAN /\ V \in Ledger /\ WithVault(chain, V) = chain
    BY ChainNumbers
  <2>2. WithVault(chain, w) = [chain EXCEPT !.vault.is_paused = ~@]
    BY DEF WithVault, V
  <2> HIDE DEF x
  <2>3. Turns(WithVault(chain, V), Ev("pause", "", x), WithVault(chain, w))
    BY <2>1, PauseTurn
  <2> HIDE DEF w
  <2>4. Plays(chain, WithVault(chain, w), <<Ev("pause", "", x)>>)
    BY <2>1, <2>3, PlaysOne
  <2> QED
    BY <2>2, <2>4 DEF x
<1>4. Plays(chain, chain, <<Ev("pm_pause", "", 0)>>)
  BY PauseOfManagerTurn, PlaysOne
<1>5. Plays(chain, [chain EXCEPT !.unpaused = Len(log) + 1], <<Ev("pm_pause", "", Len(log) + 1)>>)
  <2> DEFINE x == Len(log) + 1
             d == [chain EXCEPT !.unpaused = x]
  <2>1. x \in Int \ {0}
    OBVIOUS
  <2> HIDE DEF x
  <2>2. Turns(chain, Ev("pm_pause", "", x), d)
    BY <2>1, UnpauseTurn
  <2> HIDE DEF d
  <2>3. Plays(chain, d, <<Ev("pm_pause", "", x)>>)
    BY <2>2, PlaysOne
  <2> QED
    BY <2>3 DEF d, x
<1>6. /\ \A group \in ConfigGroups : Settles([chain EXCEPT !.config[group] = 1], balance)
      /\ Settles([chain EXCEPT !.market.max_leverage = 1], balance)
      /\ Settles([chain EXCEPT !.vault.is_paused = ~@], balance)
      /\ \A x : Settles([chain EXCEPT !.unpaused = x], balance)
  <2>1. chain = [f \in Fields |-> chain[f]] /\ chain.vault \in Ledger
    BY SoundFields
  <2> QED
    BY <2>1 DEF Settles, Fields, Ledger
<1> QED
  BY <1>1, <1>2, <1>3, <1>4, <1>5, <1>6 DEF Administered, Told

LEMMA OtherTold ==
  ASSUME Sound(chain), Settles(chain, balance), Other
  PROVE  Told
<1>1. PICK name \in {"price", "role", "unknown"} : Emits(chain, <<Ev(name, "", router.price)>>, balance)
  BY DEF Other
<1>2. Turns(chain, Ev(name, "", router.price), chain)
  BY IdleTurn
<1> QED
  BY <1>1, <1>2, PlaysOne DEF Told

LEMMA OrderSetTold ==
  ASSUME Sound(chain), Settles(chain, balance), NEW t, OrderSet(t)
  PROVE  Told
<1> DEFINE x == ~chain.positions[t].orders
<1>1. t \in DOMAIN chain.positions
  BY DEF OrderSet, SizeOf
<1>2. x \in BOOLEAN
  OBVIOUS
<1>3. [chain EXCEPT !.positions[t].orders = x] = [chain EXCEPT !.positions[t].orders = ~@]
  OBVIOUS
<1>4. Turns(chain, Ev("tp_sl", t, x), [chain EXCEPT !.positions[t].orders = x])
  <2> HIDE DEF x
  <2> QED
    BY <1>1, <1>2, OrdersTurn
<1>5. Settles([chain EXCEPT !.positions[t].orders = ~@], balance)
  BY SoundFields DEF Settles, Fields
<1> QED
  BY <1>3, <1>4, <1>5, PlaysOne DEF Told, OrderSet

(* Trades: the reservation, the fees, the assets, and then the position. *)
LEMMA SizesOf ==
  ASSUME Sound(chain), NEW t
  PROVE  /\ SizeOf(t) \in Int
         /\ t \in DOMAIN chain.positions =>
              chain.positions[t] \in PositionRow /\ SizeOf(t) = chain.positions[t].size
         /\ SizeOf(t) > 0 => t \in DOMAIN chain.positions
         /\ chain.open_interest \in Int
<1>1. chain.positions \in [DOMAIN chain.positions -> PositionRow] /\ chain.open_interest \in Int
  BY SoundFields DEF Sound, Contracts
<1> QED
  BY <1>1 DEF SizeOf, PositionRow

LEMMA PositionPut ==
  ASSUME Sound(chain), NEW t, NEW row \in PositionRow
  PROVE  SumOf(Sizes(Put(chain.positions, t, row))) = chain.open_interest - SizeOf(t) + row.size
<1> DEFINE ps == chain.positions
           S  == DOMAIN ps
<1>1. /\ ps \in [S -> PositionRow] /\ IsFiniteSet(S)
      /\ chain.open_interest = SumOf(Sizes(ps))
  BY SoundFields DEF Sound
<1>2. chain.open_interest \in Int /\ row.size \in Int
  BY SizesOf DEF PositionRow
<1>3. CASE t \in S
  <2>1. SizeOf(t) = ps[t].size
    BY <1>3 DEF SizeOf
  <2> HIDE DEF ps, S
  <2>2. SumOf(Sizes(Put(ps, t, row))) = SumOf(Sizes(ps)) - ps[t].size + row.size
    BY <1>1, <1>3, SizesReplaced
  <2> QED
    BY <1>1, <2>1, <2>2 DEF ps
<1>4. CASE t \notin S
  <2>1. SizeOf(t) = 0
    BY <1>4 DEF SizeOf
  <2> HIDE DEF ps, S
  <2>2. SumOf(Sizes(Put(ps, t, row))) = SumOf(Sizes(ps)) + row.size
    BY <1>1, <1>4, SizesAdded
  <2> QED
    BY <1>1, <1>2, <2>1, <2>2 DEF ps
<1> QED
  BY <1>3, <1>4

LEMMA PositionClosed ==
  ASSUME Sound(chain), NEW t \in DOMAIN chain.positions
  PROVE  SumOf(Sizes(Restrict(chain.positions, DOMAIN chain.positions \ {t})))
           = chain.open_interest - SizeOf(t)
<1> DEFINE ps == chain.positions
           S  == DOMAIN ps
<1>1. /\ ps \in [S -> PositionRow] /\ IsFiniteSet(S) /\ t \in S
      /\ chain.open_interest = SumOf(Sizes(ps)) /\ SizeOf(t) = ps[t].size
  BY SoundFields DEF Sound, SizeOf
<1> HIDE DEF ps, S
<1>2. SumOf(Sizes(Restrict(ps, S \ {t}))) = SumOf(Sizes(ps)) - ps[t].size
  BY <1>1, SizesDeleted
<1> QED
  BY <1>1, <1>2 DEF ps, S

LEMMA IncreasePlays ==
  ASSUME Sound(chain), Settles(chain, balance), NEW t, NEW size \in {1, 2}, NEW asked \in BOOLEAN
  PROVE  LET b == recv_revenue(balance, size)
             v == [V EXCEPT !.total_assets = AsTold(b), !.unclaimed_fees = @ + non_lp(size),
                            !.reserved_usdc = @ + size]
             row == [size |-> SizeOf(t) + size,
                     orders |-> asked \/ (SizeOf(t) > 0 /\ chain.positions[t].orders)]
             d == [chain EXCEPT !.vault = v, !.open_interest = @ + size, !.positions = Holding(t, row)]
         IN  /\ Plays(chain, d, accrue_fees(v, size)
                                 \o <<Ev("reserve", "", v.reserved_usdc), Ev("increase", t, row)>>)
             /\ Settles(d, b)
<1> DEFINE b == recv_revenue(balance, size)
           v == [V EXCEPT !.total_assets = AsTold(b), !.unclaimed_fees = @ + non_lp(size),
                          !.reserved_usdc = @ + size]
           row == [size |-> SizeOf(t) + size,
                   orders |-> asked \/ (SizeOf(t) > 0 /\ chain.positions[t].orders)]
           fees == V.unclaimed_fees + non_lp(size)
           assets == AsTold(b)
           reserved == V.reserved_usdc + size
           v1 == [V EXCEPT !.unclaimed_fees = fees]
           v2 == [v1 EXCEPT !.total_assets = assets]
           v3 == [v2 EXCEPT !.reserved_usdc = reserved]
           rows == Put(chain.positions, t, row)
           c == WithVault(chain, v3)
           d == [chain EXCEPT !.vault = v, !.open_interest = @ + size, !.positions = Holding(t, row)]
           last == <<Ev("reserve", "", reserved), Ev("increase", t, row)>>
<1>0. /\ b \in Balances /\ non_lp(size) \in Int /\ assets \in Int
      /\ ~(non_lp(size) > 0) => non_lp(size) = 0 /\ assets = V.total_assets
  <2>1. balance \in Balances /\ V.total_assets = AsTold(balance) /\ size \in 0..2
    BY DEF Settles, V
  <2> QED
    BY <2>1, RevenueMoves
<1> HIDE DEF b
<1>1. V \in Ledger /\ fees \in Int /\ reserved \in Int /\ WithVault(chain, V) = chain
  BY <1>0, ChainNumbers
<1>2. v = v3 /\ v.unclaimed_fees = fees /\ v.total_assets = assets /\ v.reserved_usdc = reserved
  BY ONLY <1>1 DEF Ledger
<1>3. v1 \in Ledger /\ v2 \in Ledger /\ v3 \in Ledger
  <2> HIDE DEF fees, assets, reserved
  <2>1. v1 \in Ledger
    BY ONLY <1>1 DEF Ledger
  <2> HIDE DEF v1
  <2>2. v2 \in Ledger
    BY ONLY <1>0, <2>1 DEF Ledger
  <2> HIDE DEF v2
  <2>3. v3 \in Ledger
    BY ONLY <1>1, <2>2 DEF Ledger
  <2> QED
    BY <2>1, <2>2, <2>3
<1>4. row \in PositionRow /\ SumOf(Sizes(rows)) = chain.open_interest + size
  <2>1. SizeOf(t) \in Int /\ chain.open_interest \in Int
    BY SizesOf
  <2>2. row \in PositionRow
    BY <2>1 DEF PositionRow
  <2>3. row.size = SizeOf(t) + size
    OBVIOUS
  <2> HIDE DEF row
  <2>4. SumOf(Sizes(rows)) = chain.open_interest - SizeOf(t) + row.size
    BY <2>2, PositionPut
  <2> QED
    BY <2>1, <2>2, <2>3, <2>4
<1>14. ~(non_lp(size) > 0) => v2 = V
  <2>1. ~(non_lp(size) > 0) => fees = V.unclaimed_fees /\ assets = V.total_assets
    BY <1>0, ChainNumbers
  <2> HIDE DEF fees, assets
  <2> QED
    BY <1>1, <2>1 DEF Ledger
<1>15. Settles(d, b)
  <2>1. d.vault = v
    BY SoundFields DEF Fields
  <2> QED
    BY <1>0, <1>2, <2>1 DEF Settles
<1> HIDE DEF v, row, fees, assets, reserved
<1>5. Turns(WithVault(chain, V), Ev("fees", "", fees), WithVault(chain, v1))
  BY <1>1, FeesTurn
<1> HIDE DEF v1
<1>6. Turns(WithVault(chain, v1), Ev("total", "", assets), WithVault(chain, v2))
  BY <1>0, <1>3, TotalAssetsTurn
<1> HIDE DEF v2
<1>7. Turns(WithVault(chain, v2), Ev("reserve", "", reserved), c)
  BY <1>1, <1>3, ReservedTurn
<1> HIDE DEF v3
<1>8. Sound(c) /\ c.positions = chain.positions
  BY <1>7, SoundFields DEF Turns, WithVault, Fields
<1>9. d = WithPositions(c, rows)
  <2> HIDE DEF rows
  <2> QED
    BY <1>2, <1>4, SoundFields DEF WithPositions, WithVault, Holding, Fields, rows
<1> HIDE DEF c, d
<1>10. Turns(c, Ev("increase", t, row), d)
  BY <1>4, <1>8, <1>9, IncreaseTurn
<1>11. Plays(chain, d, accrue_fees(v, size) \o last)
  <2>1. CASE non_lp(size) > 0
    <3>1. accrue_fees(v, size) = <<Ev("fees", "", fees), Ev("total", "", assets)>>
      BY <1>2, <2>1 DEF accrue_fees
    <3>2. Plays(chain, d, <<Ev("fees", "", fees), Ev("total", "", assets),
                            Ev("reserve", "", reserved), Ev("increase", t, row)>>)
      BY <1>1, <1>5, <1>6, <1>7, <1>10, PlaysFour
    <3>3. <<Ev("fees", "", fees), Ev("total", "", assets)>> \o last
            = <<Ev("fees", "", fees), Ev("total", "", assets),
                Ev("reserve", "", reserved), Ev("increase", t, row)>>
      BY TwoAndTwo, Zenon
    <3> QED
      BY <3>1, <3>2, <3>3, Zenon
  <2>2. CASE ~(non_lp(size) > 0)
    <3>1. accrue_fees(v, size) = <<>>
      BY <2>2 DEF accrue_fees
    <3>2. Turns(chain, Ev("reserve", "", reserved), c)
      BY <1>1, <1>7, <1>14, <2>2
    <3>3. Plays(chain, d, last)
      BY <1>10, <3>2, PlaysTwo
    <3>4. <<>> \o last = last
      BY NothingJoined, Zenon
    <3> QED
      BY <3>1, <3>3, <3>4, Zenon
  <2> QED
    BY <2>1, <2>2
<1> QED
  BY <1>2, <1>11, <1>15 DEF d, v, row, b

LEMMA DecreasePlays ==
  ASSUME Sound(chain), Settles(chain, balance), NEW t, SizeOf(t) > 1
  PROVE  LET v == [V EXCEPT !.total_assets = AsTold(Counted(1)), !.reserved_usdc = @ - 1]
             d == [chain EXCEPT !.vault = v, !.open_interest = @ - 1, !.positions[t].size = @ - 1]
         IN  /\ Plays(chain, d, <<Ev("release", "", v.reserved_usdc), Ev("absorbed", "", v.total_assets),
                                  Ev("decrease", t, SizeOf(t) - 1)>>)
             /\ Settles(d, Counted(1))
<1> DEFINE v == [V EXCEPT !.total_assets = AsTold(Counted(1)), !.reserved_usdc = @ - 1]
           assets == AsTold(Counted(1))
           reserved == V.reserved_usdc - 1
           x == SizeOf(t) - 1
           v1 == [V EXCEPT !.reserved_usdc = reserved]
           v2 == [v1 EXCEPT !.total_assets = assets]
           rows == [chain.positions EXCEPT ![t].size = x]
           c == WithVault(chain, v2)
           d == [chain EXCEPT !.vault = v, !.open_interest = @ - 1, !.positions[t].size = @ - 1]
<1>1. /\ V \in Ledger /\ assets \in Int /\ reserved \in Int /\ WithVault(chain, V) = chain
      /\ Counted(1) \in Balances
  <2>1. balance \in Balances /\ 1 \in Int
    BY DEF Settles
  <2> QED
    BY <2>1, ChainNumbers, MoneyMoves
<1>2. v = v2 /\ v.total_assets = assets /\ v.reserved_usdc = reserved
  BY ONLY <1>1 DEF Ledger
<1>3. v1 \in Ledger /\ v2 \in Ledger
  <2> HIDE DEF assets, reserved
  <2>1. v1 \in Ledger
    BY ONLY <1>1 DEF Ledger
  <2> HIDE DEF v1
  <2>2. v2 \in Ledger
    BY ONLY <1>1, <2>1 DEF Ledger
  <2> QED
    BY <2>1, <2>2
<1>4. /\ t \in DOMAIN chain.positions /\ x \in Int \ {0} /\ chain.open_interest \in Int
      /\ chain.positions[t] \in PositionRow /\ chain.positions[t].size = SizeOf(t)
  BY SizesOf
<1>5. SumOf(Sizes(rows)) = chain.open_interest - 1
  <2> DEFINE row == [chain.positions[t] EXCEPT !.size = x]
  <2>1. row \in PositionRow /\ row.size = x
    BY <1>4 DEF PositionRow
  <2>2. rows = Put(chain.positions, t, row)
    <3>1. chain.positions = [u \in DOMAIN chain.positions |-> chain.positions[u]]
      BY SoundFields
    <3> HIDE DEF x
    <3> QED
      BY <1>4, <3>1 DEF Put
  <2> HIDE DEF row, rows
  <2>3. SumOf(Sizes(rows)) = chain.open_interest - SizeOf(t) + x
    BY <2>1, <2>2, PositionPut
  <2> QED
    BY <1>4, <2>3, SizesOf
<1>6. d = [chain EXCEPT !.vault = v, !.open_interest = chain.open_interest - 1, !.positions = rows]
  BY <1>4
<1>13. Settles(d, Counted(1))
  <2>1. d.vault = v
    BY SoundFields DEF Fields
  <2> QED
    BY <1>1, <1>2, <2>1 DEF Settles
<1> HIDE DEF v, assets, reserved, x, d
<1>7. Turns(WithVault(chain, V), Ev("release", "", reserved), WithVault(chain, v1))
  BY <1>1, ReservedTurn
<1> HIDE DEF v1
<1>8. Turns(WithVault(chain, v1), Ev("absorbed", "", assets), c)
  BY <1>1, <1>3, TotalAssetsTurn
<1> HIDE DEF v2
<1>9. Sound(c) /\ c.positions = chain.positions
  BY <1>8, SoundFields DEF Turns, WithVault, Fields
<1>10. d = WithPositions(c, rows)
  <2> HIDE DEF rows
  <2> QED
    BY <1>2, <1>5, <1>6, SoundFields DEF WithPositions, WithVault, Fields
<1> HIDE DEF c
<1>11. Turns(c, Ev("decrease", t, x), d)
  BY <1>4, <1>9, <1>10, DecreaseTurn
<1>12. Plays(chain, d, <<Ev("release", "", reserved), Ev("absorbed", "", assets),
                         Ev("decrease", t, x)>>)
  BY <1>1, <1>7, <1>8, <1>11, PlaysThree
<1> QED
  BY <1>2, <1>12, <1>13 DEF d, v, x

LEMMA ClosePlays ==
  ASSUME Sound(chain), Settles(chain, balance), NEW t, SizeOf(t) > 0,
         NEW kind \in {"decrease", "liq", "exec_ord", "adl"}, NEW escrow \in Forfeits(t, kind)
  PROVE  LET gain == IF kind \in {"exec_ord", "adl"} THEN 1 ELSE -1
             b == recv_revenue(Counted(-gain), escrow)
             v == [V EXCEPT !.total_assets = AsTold(b), !.unclaimed_fees = @ + non_lp(escrow),
                            !.reserved_usdc = @ - SizeOf(t), !.net_pnl = 0]
             d == [chain EXCEPT !.vault = v, !.open_interest = @ - SizeOf(t),
                                !.positions = Restrict(@, DOMAIN @ \ {t})]
         IN  /\ Plays(chain, d,
                      <<Ev("release", "", v.reserved_usdc),
                        Ev(IF gain > 0 THEN "pay_profit" ELSE "absorbed", "", Counted(-gain).usdc)>>
                        \o accrue_fees(v, escrow) \o <<Ev("net_pnl", "", 0), Ev(kind, t, 0)>>)
             /\ Settles(d, b)
<1> DEFINE gain == IF kind \in {"exec_ord", "adl"} THEN 1 ELSE -1
           settled == Counted(-gain)
           b == recv_revenue(settled, escrow)
           v == [V EXCEPT !.total_assets = AsTold(b), !.unclaimed_fees = @ + non_lp(escrow),
                          !.reserved_usdc = @ - SizeOf(t), !.net_pnl = 0]
           name == IF gain > 0 THEN "pay_profit" ELSE "absorbed"
           moved == settled.usdc
           assets == AsTold(b)
           fees == V.unclaimed_fees + non_lp(escrow)
           reserved == V.reserved_usdc - SizeOf(t)
           none == 0
           v1 == [V EXCEPT !.reserved_usdc = reserved]
           v2 == [v1 EXCEPT !.total_assets = moved]
           v3 == [v2 EXCEPT !.unclaimed_fees = fees]
           v4 == [v3 EXCEPT !.total_assets = assets]
           v5 == [v4 EXCEPT !.net_pnl = none]
           rows == Restrict(chain.positions, DOMAIN chain.positions \ {t})
           c == WithVault(chain, v5)
           d == [chain EXCEPT !.vault = v, !.open_interest = @ - SizeOf(t),
                              !.positions = Restrict(@, DOMAIN @ \ {t})]
           first == <<Ev("release", "", reserved), Ev(name, "", moved)>>
           last  == <<Ev("net_pnl", "", none), Ev(kind, t, 0)>>
<1>0. -gain \in Int /\ SizeOf(t) \in Int /\ name \in {"total", "pay_profit", "absorbed"}
  BY SizesOf
<1> HIDE DEF gain, name
<1>13. balance \in Balances /\ escrow \in 0..2
  BY DEF Settles, Forfeits
<1>14. settled \in Balances /\ moved = AsTold(settled) /\ moved \in Int
  BY <1>0, <1>13, MoneyMoves
<1> HIDE DEF settled, moved
<1>15. /\ b \in Balances /\ non_lp(escrow) \in Int /\ assets \in Int
       /\ ~(non_lp(escrow) > 0) => non_lp(escrow) = 0 /\ assets = moved
  BY <1>13, <1>14, RevenueMoves
<1> HIDE DEF b
<1>1. /\ V \in Ledger /\ fees \in Int /\ reserved \in Int /\ none \in Int
      /\ WithVault(chain, V) = chain
  BY <1>0, <1>15, ChainNumbers
<1>2. v = v5 /\ v.total_assets = assets /\ v.reserved_usdc = reserved /\ v.unclaimed_fees = fees
  BY ONLY <1>1 DEF Ledger
<1>3. v1 \in Ledger /\ v2 \in Ledger /\ v3 \in Ledger /\ v4 \in Ledger
  <2> HIDE DEF moved, assets, reserved, fees
  <2>1. v1 \in Ledger
    BY ONLY <1>1 DEF Ledger
  <2> HIDE DEF v1
  <2>2. v2 \in Ledger
    BY ONLY <1>14, <2>1 DEF Ledger
  <2> HIDE DEF v2
  <2>3. v3 \in Ledger
    BY ONLY <1>1, <2>2 DEF Ledger
  <2> HIDE DEF v3
  <2>4. v4 \in Ledger
    BY ONLY <1>15, <2>3 DEF Ledger
  <2> QED
    BY <2>1, <2>2, <2>3, <2>4
<1>16. ~(non_lp(escrow) > 0) => v4 = v2
  <2>1. ~(non_lp(escrow) > 0) => fees = v2.unclaimed_fees /\ assets = v2.total_assets
    <3>1. V.unclaimed_fees \in Int /\ v2.unclaimed_fees = V.unclaimed_fees /\ v2.total_assets = moved
      BY ONLY <1>1 DEF Ledger
    <3> HIDE DEF v2, assets, moved
    <3> QED
      BY <1>15, <3>1
  <2> HIDE DEF fees, assets, v2
  <2> QED
    BY <1>3, <2>1 DEF Ledger
<1>4. t \in DOMAIN chain.positions
  BY SizesOf
<1>5. SumOf(Sizes(rows)) = chain.open_interest - SizeOf(t)
  BY <1>4, PositionClosed
<1>17. Settles(d, b)
  <2>1. d.vault = v
    BY SoundFields DEF Fields
  <2> QED
    BY <1>2, <1>15, <2>1 DEF Settles
<1> HIDE DEF v, assets, reserved, fees, none
<1>6. Turns(WithVault(chain, V), Ev("release", "", reserved), WithVault(chain, v1))
  BY <1>1, ReservedTurn
<1> HIDE DEF v1
<1>7. Turns(WithVault(chain, v1), Ev(name, "", moved), WithVault(chain, v2))
  BY <1>0, <1>14, <1>3, TotalAssetsTurn
<1> HIDE DEF v2
<1>18. Turns(WithVault(chain, v2), Ev("fees", "", fees), WithVault(chain, v3))
  BY <1>1, <1>3, FeesTurn
<1> HIDE DEF v3
<1>19. Turns(WithVault(chain, v3), Ev("total", "", assets), WithVault(chain, v4))
  BY <1>15, <1>3, TotalAssetsTurn
<1> HIDE DEF v4
<1>8. Turns(WithVault(chain, v4), Ev("net_pnl", "", none), c)
  BY <1>1, <1>3, NetPnlTurn
<1> HIDE DEF v5
<1>9. Sound(c) /\ c.positions = chain.positions
  BY <1>8, SoundFields DEF Turns, WithVault, Fields
<1>10. d = WithPositions(c, rows)
  <2>1. d = [chain EXCEPT !.vault = v, !.open_interest = chain.open_interest - SizeOf(t),
                          !.positions = rows]
    OBVIOUS
  <2> HIDE DEF rows, d
  <2> QED
    BY <1>2, <1>5, <2>1, SoundFields DEF WithPositions, WithVault, Fields
<1> HIDE DEF c, d
<1>11. Turns(c, Ev(kind, t, 0), d)
  <2>1. Turns(c, Ev(kind, t, 0), WithPositions(c, Restrict(c.positions, DOMAIN c.positions \ {t})))
    BY <1>9, CloseTurn
  <2> QED
    BY <1>9, <1>10, <2>1
<1>12. Plays(chain, d, first \o accrue_fees(v, escrow) \o last)
  <2>1. CASE non_lp(escrow) > 0
    <3>1. accrue_fees(v, escrow) = <<Ev("fees", "", fees), Ev("total", "", assets)>>
      BY <1>2, <2>1 DEF accrue_fees
    <3>2. Plays(chain, d, <<Ev("release", "", reserved), Ev(name, "", moved), Ev("fees", "", fees),
                            Ev("total", "", assets), Ev("net_pnl", "", none), Ev(kind, t, 0)>>)
      BY <1>1, <1>6, <1>7, <1>8, <1>11, <1>18, <1>19, PlaysSix
    <3> DEFINE e1 == Ev("release", "", reserved)
               e2 == Ev(name, "", moved)
               e3 == Ev("fees", "", fees)
               e4 == Ev("total", "", assets)
               e5 == Ev("net_pnl", "", none)
               e6 == Ev(kind, t, 0)
    <3>3. <<e1, e2>> \o <<e3, e4>> \o <<e5, e6>> = <<e1, e2, e3, e4, e5, e6>>
      <4> HIDE DEF e1, e2, e3, e4, e5, e6
      <4>1. <<e1, e2>> \o <<e3, e4>> = <<e1, e2, e3, e4>>
        BY TwoAndTwo, Zenon
      <4>2. <<e1, e2, e3, e4>> \o <<e5, e6>> = <<e1, e2, e3, e4, e5, e6>>
        BY ONLY FourAndTwo, SMT
      <4> QED
        BY <4>1, <4>2, Zenon
    <3> QED
      BY <3>1, <3>2, <3>3, Zenon
  <2>2. CASE ~(non_lp(escrow) > 0)
    <3>1. accrue_fees(v, escrow) = <<>>
      BY <2>2 DEF accrue_fees
    <3>2. Turns(WithVault(chain, v2), Ev("net_pnl", "", none), c)
      BY <1>8, <1>16, <2>2
    <3>3. Plays(chain, d, <<Ev("release", "", reserved), Ev(name, "", moved),
                            Ev("net_pnl", "", none), Ev(kind, t, 0)>>)
      BY <1>1, <1>6, <1>7, <1>11, <3>2, PlaysFour
    <3>4. first \o <<>> = first
      BY NothingJoined, Zenon
    <3>5. first \o last = <<Ev("release", "", reserved), Ev(name, "", moved),
                             Ev("net_pnl", "", none), Ev(kind, t, 0)>>
      BY TwoAndTwo, Zenon
    <3> QED
      BY <3>1, <3>3, <3>4, <3>5, Zenon
  <2> QED
    BY <2>1, <2>2
<1> QED
  BY <1>2, <1>12, <1>17 DEF d, v, none, name, gain, b, settled, moved

\* The transaction of Increased, of one size and with or without orders.
Increasing(t, size, asked) ==
  LET b == recv_revenue(balance, size)
      v == [V EXCEPT !.total_assets = AsTold(b), !.unclaimed_fees = @ + non_lp(size),
                     !.reserved_usdc = @ + size]
      row == [size |-> SizeOf(t) + size,
              orders |-> asked \/ (SizeOf(t) > 0 /\ chain.positions[t].orders)]
  IN  Emits([chain EXCEPT !.vault = v, !.open_interest = @ + size, !.positions = Holding(t, row)],
            accrue_fees(v, size) \o <<Ev("reserve", "", v.reserved_usdc), Ev("increase", t, row)>>, b)

\* The transaction of Closed, of one kind and with an escrow forfeited.
Closing(t, kind, escrow) ==
  LET gain == IF kind \in {"exec_ord", "adl"} THEN 1 ELSE -1
      b == recv_revenue(Counted(-gain), escrow)
      v == [V EXCEPT !.total_assets = AsTold(b), !.unclaimed_fees = @ + non_lp(escrow),
                     !.reserved_usdc = @ - SizeOf(t), !.net_pnl = 0]
  IN  Emits([chain EXCEPT !.vault = v, !.open_interest = @ - SizeOf(t),
                          !.positions = Restrict(@, DOMAIN @ \ {t})],
            <<Ev("release", "", v.reserved_usdc),
              Ev(IF gain > 0 THEN "pay_profit" ELSE "absorbed", "", Counted(-gain).usdc)>>
              \o accrue_fees(v, escrow) \o <<Ev("net_pnl", "", 0), Ev(kind, t, 0)>>, b)

(* Every transaction of the contracts is understood. *)
LEMMA TransactionTold ==
  ASSUME Sound(chain), Settles(chain, balance), Len(log) \in Nat, Transaction
  PROVE  Told
<1>1. ASSUME NEW t, Increased(t)
      PROVE  Told
  <2>1. PICK size \in {1, 2}, asked \in BOOLEAN : Increasing(t, size, asked)
    BY <1>1 DEF Increased, Increasing
  <2> DEFINE b == recv_revenue(balance, size)
             v == [V EXCEPT !.total_assets = AsTold(b), !.unclaimed_fees = @ + non_lp(size),
                            !.reserved_usdc = @ + size]
             row == [size |-> SizeOf(t) + size,
                     orders |-> asked \/ (SizeOf(t) > 0 /\ chain.positions[t].orders)]
             d == [chain EXCEPT !.vault = v, !.open_interest = @ + size, !.positions = Holding(t, row)]
             evs == accrue_fees(v, size)
                      \o <<Ev("reserve", "", v.reserved_usdc), Ev("increase", t, row)>>
  <2>2. Emits(d, evs, b)
    BY <2>1 DEF Increasing
  <2>3. Plays(chain, d, evs) /\ Settles(d, b)
    BY IncreasePlays
  <2> HIDE DEF d, evs, b
  <2> QED
    BY <2>2, <2>3 DEF Told
<1>2. ASSUME NEW t, Decreased(t)
      PROVE  Told
  <2> DEFINE v == [V EXCEPT !.total_assets = AsTold(Counted(1)), !.reserved_usdc = @ - 1]
             d == [chain EXCEPT !.vault = v, !.open_interest = @ - 1, !.positions[t].size = @ - 1]
             evs == <<Ev("release", "", v.reserved_usdc), Ev("absorbed", "", v.total_assets),
                      Ev("decrease", t, SizeOf(t) - 1)>>
  <2>1. SizeOf(t) > 1 /\ Emits(d, evs, Counted(1))
    BY <1>2 DEF Decreased
  <2>2. Plays(chain, d, evs) /\ Settles(d, Counted(1))
    BY <2>1, DecreasePlays
  <2> HIDE DEF d, evs
  <2> QED
    BY <2>1, <2>2 DEF Told
<1>3. ASSUME NEW t, Closed(t)
      PROVE  Told
  <2>1. PICK kind \in {"decrease", "liq", "exec_ord", "adl"} : \E escrow \in Forfeits(t, kind) :
               Closing(t, kind, escrow)
    BY <1>3 DEF Closed, Closing
  <2>2. PICK escrow \in Forfeits(t, kind) : Closing(t, kind, escrow)
    BY <2>1
  <2>3. SizeOf(t) > 0
    BY <1>3 DEF Closed
  <2> DEFINE gain == IF kind \in {"exec_ord", "adl"} THEN 1 ELSE -1
             b == recv_revenue(Counted(-gain), escrow)
             v == [V EXCEPT !.total_assets = AsTold(b), !.unclaimed_fees = @ + non_lp(escrow),
                            !.reserved_usdc = @ - SizeOf(t), !.net_pnl = 0]
             d == [chain EXCEPT !.vault = v, !.open_interest = @ - SizeOf(t),
                                !.positions = Restrict(@, DOMAIN @ \ {t})]
             evs == <<Ev("release", "", v.reserved_usdc),
                      Ev(IF gain > 0 THEN "pay_profit" ELSE "absorbed", "", Counted(-gain).usdc)>>
                      \o accrue_fees(v, escrow) \o <<Ev("net_pnl", "", 0), Ev(kind, t, 0)>>
  <2>4. Emits(d, evs, b)
    BY <2>2 DEF Closing
  <2>5. Plays(chain, d, evs) /\ Settles(d, b)
    BY <2>3, ClosePlays
  <2> HIDE DEF d, evs, b
  <2> QED
    BY <2>4, <2>5 DEF Told
<1> QED
  BY <1>1, <1>2, <1>3, OrderSetTold, LPTransactsTold, FeesClaimedTold, IndicesUpdatedTold,
     AdministeredTold, OtherTold DEF Transaction

(***************************************************************************)
(* The inductive invariant.                                                *)
(***************************************************************************)

LEMMA SeqAmong ==
  ASSUME NEW R, NEW n \in Nat, NEW s \in [1..n -> R]
  PROVE  s \in Seq(R)
OBVIOUS

LEMMA OwnRange ==
  ASSUME NEW T, NEW s \in Seq(T)
  PROVE  s \in Seq(Range(s))
<1>1. s = [i \in 1..Len(s) |-> s[i]] /\ Len(s) \in Nat
  OBVIOUS
<1>2. \A i \in 1..Len(s) : s[i] \in Range(s)
  BY <1>1 DEF Range
<1>3. s \in [1..Len(s) -> Range(s)]
  BY <1>1, <1>2
<1>4. \A R, n : n \in Nat /\ s \in [1..n -> R] => s \in Seq(R)
  BY SeqAmong, Zenon
<1> QED
  BY <1>1, <1>3, <1>4, Zenon

LEMMA Appended ==
  ASSUME NEW A, NEW s \in Seq(A), NEW B, NEW t \in Seq(B)
  PROVE  LET st == s \o t
         IN  /\ st \in Seq(Range(st)) /\ Len(st) = Len(s) + Len(t)
             /\ \A i \in 1..Len(s) : st[i] = s[i]
             /\ \A i \in 1..Len(t) : st[Len(s) + i] = t[i]
             /\ \A n \in 0..Len(s) : SubSeq(st, 1, n) = SubSeq(s, 1, n)
             /\ SubSeq(st, Len(s) + 1, Len(st)) = t
<1> DEFINE T == A \cup B
           st == s \o t
<1>1. s \in Seq(T) /\ t \in Seq(T) /\ Len(s) \in Nat /\ Len(t) \in Nat
  OBVIOUS
<1>2. /\ st \in Seq(T) /\ Len(st) = Len(s) + Len(t)
      /\ \A i \in 1..Len(s) : st[i] = s[i]
      /\ \A i \in 1..Len(t) : st[Len(s) + i] = t[i]
  BY <1>1
<1> HIDE DEF st, T
<1>3. st \in Seq(Range(st))
  BY <1>2, OwnRange
<1>4. ASSUME NEW n \in 0..Len(s)
      PROVE  SubSeq(st, 1, n) = SubSeq(s, 1, n)
  BY <1>1, <1>2
<1>5. SubSeq(st, Len(s) + 1, Len(st)) = t
  <2> DEFINE u == SubSeq(st, Len(s) + 1, Len(st))
  <2>1. u \in Seq(T) /\ Len(u) = Len(t) /\ \A i \in 1..Len(t) : u[i] = st[Len(s) + i]
    BY <1>1, <1>2
  <2>2. \A i \in 1..Len(t) : u[i] = t[i]
    BY <1>2, <2>1
  <2> HIDE DEF u
  <2>3. u = t
    BY <1>1, <2>1, <2>2
  <2> QED
    BY <2>3 DEF u
<1> QED
  BY <1>2, <1>3, <1>4, <1>5 DEF st

(* What is understood stays so when a transaction is appended. *)
LEMMA LogGrows ==
  ASSUME LogUnderstood, MoneyAccounted, Told
  PROVE  /\ LogUnderstood' /\ MoneyAccounted'
         /\ Len(log) \in Nat /\ Len(log') \in Nat /\ Len(log') > Len(log)
         /\ SubSeq(log', 1, Len(log)) = log
         /\ \A i \in 1..Len(log) : log'[i] = log[i]
         /\ \A n \in 0..Len(log) : RowsAfter(n)' = RowsAfter(n)
<1> DEFINE blank == Faithful(NoChain)
           m == Len(log)
<1>1. PICK c, evs, b : Emits(c, evs, b) /\ Plays(chain, c, evs) /\ Settles(c, b)
  BY DEF Told
<1> DEFINE page == Logged(c, evs, b)
           k == Len(evs)
<1>2. /\ k \in 1..6 /\ page \in Seq(Range(page)) /\ Len(page) = k
      /\ \A i \in 1..k : /\ page[i].chain = c
                         /\ page[i].closes <=> i = k
                         /\ page[i].after = Faithful(c) /\ page[i].balance = b
  <2>1. k \in 1..6 /\ k \in Nat /\ DOMAIN evs = 1..k
    BY <1>1 DEF Plays
  <2> QED
    <3>1. WrittenAs(page, c, evs, b)
      BY ONLY <2>1, LoggedEvents
    <3> HIDE DEF page, k
    <3> QED
      BY <2>1, <3>1 DEF k, WrittenAs
<1>3. HandleAll(Faithful(chain), page) = Faithful(c) /\ Sound(c)
  BY <1>1 DEF Plays
<1>4. log' = log \o page /\ balance' = b
  BY <1>1 DEF Emits
<1> HIDE DEF page, k
<1>5. log \in Seq(Range(log)) /\ m \in Nat /\ RowsAfter(m) = Faithful(chain)
  BY DEF LogUnderstood
<1>6. /\ log' \in Seq(Range(log')) /\ Len(log') = m + k
      /\ \A i \in 1..m : log'[i] = log[i]
      /\ \A i \in 1..k : log'[m + i] = page[i]
      /\ \A n \in 0..m : SubSeq(log', 1, n) = SubSeq(log, 1, n)
      /\ SubSeq(log', m + 1, Len(log')) = page
  BY <1>2, <1>4, <1>5, Appended
<1>7. \A n \in 0..m : RowsAfter(n)' = RowsAfter(n)
  BY <1>6 DEF RowsAfter
<1>8. ASSUME NEW e, e = m + k
      PROVE  RowsAfter(e)' = Faithful(c)
  <2> DEFINE l == log'
  <2>1. l \in Seq(Range(l)) /\ Len(l) = m + k
    BY <1>6
  <2> HIDE DEF l
  <2>2. m \in 0..Len(l) /\ e \in m..Len(l) /\ e = Len(l)
    BY ONLY <1>2, <1>5, <1>8, <2>1
  <2>3. HandleAll(HandleAll(blank, SubSeq(l, 1, m)), SubSeq(l, m + 1, e))
          = HandleAll(blank, SubSeq(l, 1, e))
    BY <2>1, <2>2, HandlingResumes
  <2>4. SubSeq(l, 1, m) = SubSeq(log, 1, m) /\ SubSeq(l, m + 1, e) = page
    BY <1>5, <1>6, <2>2 DEF l
  <2>5. HandleAll(blank, SubSeq(l, 1, e)) = Faithful(c)
    BY <1>3, <1>5, <2>3, <2>4 DEF RowsAfter
  <2> QED
    BY <2>5 DEF RowsAfter, l
<1>9. chain' = c
  <2>1. Len(log') \in Nat /\ Len(log') > 0 /\ log'[Len(log')] = page[k]
    BY <1>2, <1>5, <1>6
  <2>2. log' # <<>>
    BY <2>1
  <2>3. page[k].chain = c
    BY <1>2
  <2> QED
    BY <2>1, <2>2, <2>3 DEF chain, Last
<1>10. ASSUME NEW n \in 1..(m + k), log'[n].closes
       PROVE  RowsAfter(n)' = log'[n].after
  <2>1. CASE n \in 1..m
    BY <1>5, <1>6, <1>7, <1>10, <2>1 DEF LogUnderstood
  <2>2. CASE n \notin 1..m
    <3> DEFINE i == n - m
    <3>1. i \in 1..k /\ n = m + i
      BY <1>2, <1>5, <2>2
    <3> HIDE DEF i
    <3>2. log'[n] = page[i]
      BY <1>6, <3>1
    <3>3. i = k /\ page[i].after = Faithful(c)
      BY <1>2, <1>10, <3>1, <3>2
    <3> QED
      BY <1>8, <3>1, <3>2, <3>3
  <2> QED
    BY <2>1, <2>2
<1>11. LogUnderstood'
  <2>0. Sound(chain)'
    BY <1>3, <1>9
  <2>1. RowsAfter(Len(log))' = Faithful(chain)'
    <3>1. PICK e : e = m + k
      OBVIOUS
    <3>2. Len(log)' = e
      BY <1>6, <3>1
    <3>3. HandleAll(blank, SubSeq(log', 1, e)) = Faithful(c)
      BY <1>8, <3>1 DEF RowsAfter
    <3> QED
      BY <1>9, <3>2, <3>3 DEF RowsAfter
  <2>2. \A n \in 1..Len(log') : log'[n].closes => RowsAfter(n)' = log'[n].after
    BY <1>6, <1>10
  <2> QED
    BY <1>6, <2>0, <2>1, <2>2 DEF LogUnderstood
<1>12. SubSeq(log', 1, m) = log
  BY <1>5, <1>6
<1>13. Len(log) \in Nat /\ Len(log') \in Nat /\ Len(log') > Len(log)
  <2>1. Len(log') = m + k /\ k \in 1..6 /\ m \in Nat
    BY <1>2, <1>5, <1>6
  <2> QED
    BY <2>1
<1>14. (\A i \in 1..Len(log) : log'[i] = log[i]) /\ \A n \in 0..Len(log) : RowsAfter(n)' = RowsAfter(n)
  BY <1>6, <1>7
<1>15. MoneyAccounted'
  <2>1. Settles(chain, balance)'
    BY <1>1, <1>4, <1>9
  <2>2. ASSUME NEW n \in 1..(m + k)
        PROVE  /\ Sound(log'[n].chain) /\ Settles(log'[n].chain, log'[n].balance)
               /\ log'[n].after = Faithful(log'[n].chain)
    <3>1. CASE n \in 1..m
      BY <1>6, <3>1 DEF MoneyAccounted
    <3>2. CASE n \notin 1..m
      <4> DEFINE i == n - m
      <4>1. i \in 1..k /\ n = m + i
        BY <1>2, <1>5, <3>2
      <4> HIDE DEF i
      <4>2. log'[n] = page[i]
        BY <1>6, <4>1
      <4> QED
        BY <1>1, <1>2, <1>3, <4>1, <4>2
    <3> QED
      BY <3>1, <3>2
  <2> QED
    BY <1>6, <2>1, <2>2 DEF MoneyAccounted
<1> QED
  BY <1>11, <1>12, <1>13, <1>14, <1>15

(* A page is handled to what its events make of the rows before it. *)
LEMMA PageHandled ==
  ASSUME LogUnderstood, TablesAtCursor, loop.cursor = db.cursor,
         loop.next \in (loop.cursor + 1)..Len(log)
  PROVE  PageRows = RowsAfter(loop.next)
<1> DEFINE m == loop.cursor
           n == loop.next
<1>1. log \in Seq(Range(log)) /\ m \in 0..Len(log) /\ n \in m..Len(log) /\ db.rows = RowsAfter(m)
  BY DEF LogUnderstood, TablesAtCursor
<1> HIDE DEF m, n
<1>2. HandleAll(HandleAll(Faithful(NoChain), SubSeq(log, 1, m)), SubSeq(log, m + 1, n))
        = HandleAll(Faithful(NoChain), SubSeq(log, 1, n))
  BY <1>1, HandlingResumes
<1> QED
  BY <1>1, <1>2 DEF PageRows, Page, RowsAfter, m, n

LEMMA NoChainSound == Sound(NoChain)
<1>1. SumOf([x \in {} |-> 0]) = 0
  BY FS_EmptySet, SumOfZeros
<1>2. DOMAIN <<>> = {} /\ Sizes(<<>>) = [x \in {} |-> 0]
  BY DEF Sizes
<1>3. NoChain \in Contracts({})
  <2>1. <<>> \in [{} -> [size: Int, orders: BOOLEAN]]
    OBVIOUS
  <2> QED
    BY <2>1 DEF NoChain, NoVault, NoMarket, NoConfig, Contracts
<1>4. NoChain.positions = <<>> /\ NoChain.open_interest = 0 /\ IsFiniteSet({})
  BY FS_EmptySet DEF NoChain
<1> QED
  BY <1>1, <1>2, <1>3, <1>4 DEF Sound, SumOf

LEMMA IndexerInitInv == IndexerInit => IndexerInv
<1> SUFFICES ASSUME IndexerInit
             PROVE  IndexerInv
  OBVIOUS
<1>1. log = <<>> /\ <<>> \in Seq(Range(<<>>)) /\ Len(<<>>) = 0
  BY DEF IndexerInit
<1>2. RowsAfter(0) = Faithful(NoChain)
  <2>1. SubSeq(log, 1, 0) \in Seq({}) /\ Len(SubSeq(log, 1, 0)) = 0
    BY <1>1
  <2> QED
    BY <2>1, HandlersRunInOrder DEF RowsAfter, Handles
<1>3. chain = NoChain
  BY <1>1 DEF chain
<1>4. LogUnderstood
  BY <1>1, <1>2, <1>3, NoChainSound DEF LogUnderstood
<1>5. TablesAtCursor
  BY <1>1, <1>2 DEF IndexerInit, TablesAtCursor
<1>6. PageInHand
  BY DEF IndexerInit, PageInHand, Down, Resting
<1>7. MoneyAccounted
  <2>1. balance = [usdc |-> 0, silent |-> 0] /\ chain.vault.total_assets = 0
    BY <1>3 DEF IndexerInit, NoChain, NoVault
  <2>2. Settles(chain, balance)
    BY <2>1 DEF Settles, Balances, AsTold
  <2> QED
    BY <1>1, <2>2 DEF MoneyAccounted
<1> QED
  BY <1>4, <1>5, <1>6, <1>7 DEF IndexerInv

(* Where the log stays, so does what it says. *)
LEMMA LogStays ==
  ASSUME LogUnderstood, UNCHANGED log
  PROVE  LogUnderstood' /\ \A n : RowsAfter(n)' = RowsAfter(n)
BY DEF LogUnderstood, chain, RowsAfter

(* What is sent to the vault in silence is counted as such. *)
LEMMA MoneyStays ==
  ASSUME MoneyAccounted, UNCHANGED log, UNCHANGED balance \/ Donated
  PROVE  MoneyAccounted'
<1>1. chain' = chain
  BY DEF chain
<1>2. Settles(chain, balance')
  BY DEF MoneyAccounted, Donated, Settles, Balances, AsTold, Untold
<1> QED
  BY <1>1, <1>2 DEF MoneyAccounted, Settles

LEMMA TransactionTellsAll ==
  ASSUME IndexerInv, Transaction
  PROVE  Told
BY TransactionTold DEF IndexerInv, LogUnderstood, MoneyAccounted

LEMMA StepKeepsMoney ==
  ASSUME IndexerInv, [IndexerNext]_vars
  PROVE  MoneyAccounted'
<1>1. CASE Transaction
  BY <1>1, TransactionTellsAll, LogGrows DEF IndexerInv
<1>2. CASE UNCHANGED log /\ (UNCHANGED balance \/ Donated)
  BY <1>2, MoneyStays DEF IndexerInv
<1> QED
  BY <1>1, <1>2
     DEF IndexerNext, EventLoop, Poller, Donated, PriceMoves, Start, Fetch, HandlePage, Commit,
         Rollback, PollerAsks, PollerReads, PollerInserts, Crash, vars

LEMMA StepKeepsTables ==
  ASSUME IndexerInv, [IndexerNext]_vars
  PROVE  LogUnderstood' /\ TablesAtCursor' /\ PageInHand'
<1> USE DEF IndexerInv
<1>0. CASE Transaction
  <2>1. Told
    BY <1>0, TransactionTellsAll
  <2>2. UNCHANGED <<db, loop>>
    BY <1>0 DEF Transaction
  <2>3. /\ LogUnderstood'
        /\ Len(log) \in Nat /\ Len(log') \in Nat /\ Len(log') > Len(log)
        /\ \A i \in 1..Len(log) : log'[i] = log[i]
        /\ \A n \in 0..Len(log) : RowsAfter(n)' = RowsAfter(n)
    BY <2>1, LogGrows
  <2>4. TablesAtCursor'
    BY <2>2, <2>3 DEF TablesAtCursor
  <2>5. PageInHand'
    <3>1. CASE loop.phase \in {"fetched", "handled", "aborted"}
      <4>1. /\ loop.cursor \in Nat /\ loop.next \in 1..Len(log)
            /\ loop.next \in (loop.cursor + 1)..Len(log)
            /\ loop.next \in (loop.cursor + 1)..Len(log')
        BY <2>3, <3>1 DEF PageInHand, TablesAtCursor
      <4>2. {i \in (loop.cursor + 1)..loop.next : log'[i].recorded}
              = {i \in (loop.cursor + 1)..loop.next : log[i].recorded}
        BY <2>3, <4>1
      <4>3. PageHistory' = PageHistory
        BY <2>2, <4>2 DEF PageHistory
      <4>4. RowsAfter(loop.next)' = RowsAfter(loop.next)
        BY <2>2, <2>3, <4>1
      <4> QED
        BY <2>2, <4>1, <4>3, <4>4 DEF PageInHand, Down, Resting
    <3>2. CASE loop.phase \notin {"fetched", "handled", "aborted"}
      BY <2>2, <3>2 DEF PageInHand, Down, Resting
    <3> QED
      BY <3>1, <3>2
  <2> QED
    BY <2>3, <2>4, <2>5
<1>1. CASE UNCHANGED <<log, db, loop>>
  <2>1. LogUnderstood' /\ \A n : RowsAfter(n)' = RowsAfter(n)
    BY <1>1, LogStays
  <2>2. TablesAtCursor'
    BY <1>1, <2>1 DEF TablesAtCursor
  <2>3. PageInHand'
    BY <1>1, <2>1 DEF PageInHand, PageHistory, Down, Resting
  <2> QED
    BY <2>1, <2>2, <2>3
<1>2. ASSUME UNCHANGED <<log, db>>, PageInHand'
      PROVE  LogUnderstood' /\ TablesAtCursor' /\ PageInHand'
  <2>1. LogUnderstood' /\ \A n : RowsAfter(n)' = RowsAfter(n)
    BY <1>2, LogStays
  <2>2. TablesAtCursor'
    BY <1>2, <2>1 DEF TablesAtCursor
  <2> QED
    BY <1>2, <2>1, <2>2
<1>3. CASE Start
  <2>1. PageInHand'
    BY <1>3 DEF Start, PageInHand, Down, Resting
  <2> QED
    BY <1>2, <1>3, <2>1 DEF Start
<1>4. CASE Fetch
  <2>1. PageInHand'
    <3>1. loop.cursor \in 0..Len(log) /\ loop.cursor < Len(log) /\ Len(log) \in Nat /\ PageSize \in Nat \ {0}
      BY <1>4, IndexerAssumption DEF Fetch, PageInHand, TablesAtCursor, LogUnderstood
    <3>2. Min2(loop.cursor + PageSize, Len(log)) \in (loop.cursor + 1)..Len(log)
      BY <3>1 DEF Min2
    <3> QED
      BY <1>4, <3>1, <3>2 DEF Fetch, PageInHand, Down, Resting
  <2> QED
    BY <1>2, <1>4, <2>1 DEF Fetch
<1>5. CASE HandlePage
  <2>1. PageInHand'
    <3>1. loop.next \in (loop.cursor + 1)..Len(log) /\ loop.cursor = db.cursor
      BY <1>5 DEF HandlePage, PageInHand
    <3>2. PageRows = RowsAfter(loop.next)
      BY <3>1, PageHandled
    <3>3. /\ log' = log /\ db' = db /\ DOMAIN loop' = DOMAIN loop
          /\ loop'.phase \in {"aborted", "handled"}
          /\ loop'.cursor = loop.cursor /\ loop'.next = loop.next
          /\ loop'.rows = PageRows /\ loop'.history = PageHistory
      BY <1>5 DEF HandlePage, PageInHand, Down, Resting
    <3>4. PageHistory' = PageHistory /\ RowsAfter(loop.next)' = RowsAfter(loop'.next)
      BY <3>3 DEF PageHistory, RowsAfter
    <3> QED
      BY <3>1, <3>2, <3>3, <3>4 DEF PageInHand, Down, Resting, RowsAfter
  <2> QED
    BY <1>2, <1>5, <2>1 DEF HandlePage
<1>6. CASE Commit
  <2>1. /\ log' = log /\ loop.next \in (loop.cursor + 1)..Len(log) /\ loop.cursor = db.cursor
        /\ loop.rows = RowsAfter(loop.next)
    BY <1>6 DEF Commit, PageInHand
  <2>2. LogUnderstood' /\ \A n : RowsAfter(n)' = RowsAfter(n)
    BY <2>1, LogStays
  <2>3. db' = Committed
    BY <1>6 DEF Commit
  <2>4. TablesAtCursor'
    <3>1. db.cursor \in 0..Len(log) /\ Len(log) \in Nat
      BY DEF TablesAtCursor, LogUnderstood
    <3> QED
      BY <2>1, <2>2, <2>3, <3>1 DEF TablesAtCursor, Committed
  <2>5. PageInHand'
    BY <1>6, <2>3 DEF Commit, Committed, PageInHand, Down, Resting
  <2> QED
    BY <2>2, <2>4, <2>5
<1>7. CASE Rollback
  <2>1. PageInHand'
    BY <1>7 DEF Rollback, PageInHand, Down, Resting
  <2> QED
    BY <1>2, <1>7, <2>1 DEF Rollback
<1>8. CASE PollerInserts
  <2>1. /\ log' = log /\ DOMAIN db' = DOMAIN db /\ DOMAIN loop' = DOMAIN loop
        /\ db'.cursor = db.cursor /\ db'.rows = db.rows
        /\ loop'.phase = loop.phase /\ loop'.cursor = loop.cursor /\ loop'.next = loop.next
        /\ loop'.rows = loop.rows /\ loop'.history = loop.history
    BY <1>8 DEF PollerInserts, TablesAtCursor, PageInHand, Down, Resting
  <2>2. LogUnderstood' /\ \A n : RowsAfter(n)' = RowsAfter(n)
    BY <2>1, LogStays
  <2>3. TablesAtCursor'
    BY <2>1, <2>2 DEF TablesAtCursor
  <2>4. PageInHand'
    BY <2>1, <2>2 DEF PageInHand, PageHistory, Down, Resting, RowsAfter
  <2> QED
    BY <2>2, <2>3, <2>4
<1>9. CASE Crash
  <2>1. PageInHand'
    BY <1>9 DEF Crash, PageInHand, Down, Resting
  <2> QED
    BY <1>2, <1>9, <2>1 DEF Crash
<1> QED
  BY <1>0, <1>1, <1>3, <1>4, <1>5, <1>6, <1>7, <1>8, <1>9
     DEF IndexerNext, EventLoop, Poller, Donated, PriceMoves, PollerAsks, PollerReads, vars

LEMMA IndexerStepInv ==
  ASSUME IndexerInv, [IndexerNext]_vars
  PROVE  IndexerInv'
BY StepKeepsMoney, StepKeepsTables DEF IndexerInv

(* The tables are, at every moment, what the handlers make of the events up to
   the cursor, one after the other, whatever pages they came in.  Wherever a
   transaction of the contracts ends that is what its events tell of them, and
   what the events tell of the vault's total_assets is the vault's, less what
   came in silently since the last event that told it (index.ts,
   revenue.rs).                                                            *)
THEOREM IndexerAlwaysInv == IndexerSpec => []IndexerInv
<1> QED
  BY IndexerInitInv, IndexerStepInv, PTL DEF IndexerSpec

(* More USDC in the vault is no less free liquidity. *)
LEMMA MoreIsFree ==
  ASSUME NEW v \in Ledger, NEW x \in Int, v.total_assets <= x
  PROVE  free_liquidity(v) <= free_liquidity([v EXCEPT !.total_assets = x])
<1> DEFINE w == [v EXCEPT !.total_assets = x]
<1>1. /\ w.total_assets = x /\ w.reserved_usdc = v.reserved_usdc
      /\ w.unclaimed_fees = v.unclaimed_fees /\ w.net_pnl = v.net_pnl
      /\ v.total_assets \in Int /\ v.reserved_usdc \in Int /\ v.unclaimed_fees \in Int
      /\ v.net_pnl \in Int
  BY DEF Ledger
<1> HIDE DEF w
<1>2. free_liquidity(v) <= free_liquidity(w)
  BY <1>1 DEF free_liquidity
<1> QED
  BY <1>2 DEF w

LEMMA InvArrivals == IndexerInv => OnlyArrivalsMissing
<1> SUFFICES ASSUME IndexerInv, db.cursor > 0, log[db.cursor].closes
             PROVE  LET e == log[db.cursor]
                    IN  /\ db.rows.vault.total_assets = e.balance.usdc - e.balance.silent
                        /\ db.rows.free
                             <= free_liquidity([e.chain.vault EXCEPT !.total_assets = e.balance.usdc])
  BY DEF OnlyArrivalsMissing
<1> DEFINE n == db.cursor
           c == log[n].chain
           b == log[n].balance
<1>1. n \in 1..Len(log) /\ db.rows = RowsAfter(n)
  BY DEF IndexerInv, LogUnderstood, TablesAtCursor
<1>2. Sound(c) /\ Settles(c, b) /\ db.rows = Faithful(c)
  BY <1>1 DEF IndexerInv, LogUnderstood, MoneyAccounted
<1> HIDE DEF n, c, b
<1>3. /\ c.vault \in Ledger /\ Faithful(c).vault = c.vault
      /\ Faithful(c).free = free_liquidity(c.vault)
  BY <1>2, SoundFields DEF Faithful, Fields
<1>4. /\ c.vault.total_assets = b.usdc - b.silent
      /\ b.usdc \in Int /\ c.vault.total_assets <= b.usdc
  BY <1>2 DEF Settles, Balances, AsTold
<1>5. free_liquidity(c.vault) <= free_liquidity([c.vault EXCEPT !.total_assets = b.usdc])
  BY <1>3, <1>4, MoreIsFree
<1> QED
  BY <1>2, <1>3, <1>4, <1>5 DEF n, c, b

(* At the end of a transaction, the tables are wrong by what came into the vault
   silently, and by nothing else: its total_assets is short by that, and the free
   liquidity, which LPs' exits and the keeper's rates are judged by, is never
   overstated, however long ago an event last told the total (revenue.rs:56-65,
   handlers/vault.ts).                                                     *)
THEOREM OnlyArrivalsAlwaysMissing == IndexerSpec => []OnlyArrivalsMissing
<1> QED
  BY IndexerAlwaysInv, InvArrivals, PTL

(***************************************************************************)
(* Every step of the indexer is a step of the mirror, or none.             *)
(***************************************************************************)

(* The indexer and its specification put positions in the same order. *)
LEMMA SameOrder ==
  ASSUME NEW positions
  PROVE  InOrder(positions) = Mirror!InOrder(positions)
BY DEF InOrder, Mirror!InOrder, SetToSortSeq, Mirror!SetToSortSeq, SetToSeq, Mirror!SetToSeq,
       IsInjective, Mirror!IsInjective, Cardinality, Mirror!Cardinality

LEMMA InitMirrors == IndexerInit => Mirror!MirrorInit
BY DEF IndexerInit, Mirror!MirrorInit

(* A transaction of the contracts only adds to the log. *)
LEMMA TransactionMirrors ==
  ASSUME IndexerInv, Transaction
  PROVE  Mirror!ChainGrows
<1>1. Told
  BY TransactionTellsAll
<1>2. Len(log') > Len(log) /\ SubSeq(log', 1, Len(log)) = log
  BY <1>1, LogGrows DEF IndexerInv
<1> QED
  BY <1>2 DEF Transaction, Mirror!ChainGrows

(* The commit of a page moves the cursor, the tables and the histories
   together, to what the contracts hold there.                             *)
LEMMA CommitMirrors ==
  ASSUME IndexerInv, Commit
  PROVE  Mirror!Advance
<1>1. /\ log \in Seq(Range(log)) /\ db.cursor \in 0..Len(log) /\ loop.cursor = db.cursor
      /\ loop.next \in (db.cursor + 1)..Len(log)
      /\ loop.rows = RowsAfter(loop.next) /\ loop.history = PageHistory
      /\ log[loop.next].closes => RowsAfter(loop.next) = log[loop.next].after
  BY DEF IndexerInv, LogUnderstood, TablesAtCursor, PageInHand, Commit
<1>2. /\ log' = log /\ db'.cursor = loop.next /\ db'.rows = loop.rows
      /\ db'.history = db.history \o loop.history
  BY DEF Commit, Committed
<1>3. \A positions : InOrder(positions) = Mirror!InOrder(positions)
  BY SameOrder, Zenon
<1>4. loop.history = Mirror!InOrder({i \in (db.cursor + 1)..loop.next : log[i].recorded})
  BY <1>1, <1>3 DEF PageHistory
<1> QED
  BY <1>1, <1>2, <1>4 DEF Mirror!Advance

LEMMA StepMirrors ==
  ASSUME IndexerInv, [IndexerNext]_vars
  PROVE  [Mirror!ChainGrows \/ Mirror!Advance]_Mirror!mirrorVars
<1>1. CASE Transaction
  BY <1>1, TransactionMirrors
<1>2. CASE Commit
  BY <1>2, CommitMirrors
<1>3. CASE UNCHANGED <<log, db>>
  BY <1>3 DEF Mirror!mirrorVars
<1>4. CASE PollerInserts
  <2>1. log' = log /\ db'.cursor = db.cursor /\ db'.rows = db.rows /\ db'.history = db.history
    BY <1>4 DEF PollerInserts, IndexerInv, TablesAtCursor
  <2> QED
    BY <2>1 DEF Mirror!mirrorVars
<1> QED
  BY <1>1, <1>2, <1>3, <1>4
     DEF IndexerNext, EventLoop, Poller, Donated, PriceMoves, Start, Fetch, HandlePage, Rollback,
         PollerAsks, PollerReads, Crash, vars

(* The indexer implements ChainMirror: its tables only ever show the contracts
   as their events tell them up to a point of the event stream, that point only moves forward,
   and each trade is recorded once, whatever the pages, the rejected statements,
   the crashes and the prices in between (index.ts:107-161).               *)
THEOREM IndexerImplementsMirror == IndexerSpec => ImplementsMirror
<1>1. IndexerInit => Mirror!MirrorInit
  BY InitMirrors
<1>2. IndexerInv /\ [IndexerNext]_vars => [Mirror!ChainGrows \/ Mirror!Advance]_Mirror!mirrorVars
  BY StepMirrors
<1>3. IndexerSpec => []IndexerInv
  BY IndexerAlwaysInv
<1> QED
  BY <1>1, <1>2, <1>3, PTL DEF IndexerSpec, ImplementsMirror, Mirror!MirrorSpec

=============================================================================
