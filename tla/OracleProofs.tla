----------------------------- MODULE OracleProofs -----------------------------
(***************************************************************************)
(* Theorems about the oracle side: the router's cache, for all feeds,      *)
(* reports, thresholds and orders of calls, and the publishers, for all    *)
(* tickers, books, policies and numbers of faults.                         *)
(***************************************************************************)
EXTENDS OracleRouter, OraclePublisher, Induction, SequenceTheorems

(***************************************************************************)
(* The lists a fetch works on.                                             *)
(***************************************************************************)

(* What appending does. *)
LEMMA AppendSeq ==
    ASSUME NEW T, NEW s \in Seq(T), NEW x \in T
    PROVE  /\ Append(s, x) \in Seq(T) /\ Len(Append(s, x)) = Len(s) + 1
           /\ \A i \in 1..Len(s) : Append(s, x)[i] = s[i]
           /\ Append(s, x)[Len(s) + 1] = x
           /\ Len(s) \in Nat /\ DOMAIN s = 1..Len(s)
           /\ DOMAIN Append(s, x) = 1..Len(s) + 1
OBVIOUS

(* The list with x appended holds what s holds, and x. *)
LEMMA AppendHolds ==
    ASSUME NEW s \in Seq(Feeds), NEW x \in Feeds
    PROVE  \A y : (\E i \in DOMAIN Append(s, x) : Append(s, x)[i] = y)
                    <=> (y = x \/ \E i \in DOMAIN s : s[i] = y)
<1>1. /\ \A i \in 1..Len(s) : Append(s, x)[i] = s[i]
      /\ Append(s, x)[Len(s) + 1] = x
      /\ Len(s) \in Nat /\ DOMAIN s = 1..Len(s)
      /\ DOMAIN Append(s, x) = 1..Len(s) \cup {Len(s) + 1}
  OBVIOUS
<1> QED
  BY <1>1

(* dedup_sources goes through the list from its start. *)
LEMMA DedupIsBuiltUp ==
    ASSUME NEW list \in Seq(Feeds)
    PROVE  \E h \in [0..Len(list) -> Seq(Feeds)] :
              /\ h[0] = <<>>
              /\ \A i \in 1..Len(list) : h[i] = KeptOnce(h[i - 1], list[i])
              /\ dedup_sources(list) = h[Len(list)]
<1> DEFINE n == Len(list)
           D == Seq(Feeds)
           F == [p \in (1..n) \X D |-> KeptOnce(p[2], list[p[1]])]
           Iter(g) == g = [s \in SUBSET (1..n) |->
                              IF s = {} THEN <<>>
                              ELSE KeptOnce(g[s \ {Max(s)}], list[Max(s)])]
           f == CHOOSE g : Iter(g)
<1>1. \A i \in 1..n, d \in D : KeptOnce(d, list[i]) \in D /\ F[<<i, d>>] = KeptOnce(d, list[i])
  BY DEF KeptOnce
<1>2. n \in Nat /\ DOMAIN list = 1..n /\ LeftFold(n, D, <<>>, F)
  <2>1. n \in Nat /\ DOMAIN list = 1..n /\ <<>> \in D
    OBVIOUS
  <2> HIDE DEF n, D, F
  <2> QED
    BY <1>1, <2>1 DEF LeftFold
<1>3. dedup_sources(list) = f[1..n]
  BY <1>2 DEF dedup_sources, FoldLeft, MapThenFoldSet, KeptOnce
<1> HIDE DEF n, D, F
<1>4. Iter(f)
  <2>1. PICK g \in [SUBSET (1..n) -> D] :
            /\ Accumulates(g, n, D, <<>>, F)
            /\ \A s \in SUBSET (1..n) :
                  s # {} => Max(s) \in s /\ s \ {Max(s)} \in SUBSET (1..n)
    BY <1>2, FoldExists
  <2>2. Iter(g)
    BY <1>1, <2>1 DEF Accumulates
  <2> HIDE DEF Iter
  <2> QED
    BY <2>2
<1> HIDE DEF f
<1>5. Accumulates(f, n, D, <<>>, F)
  <2>1. \A s \in SUBSET (1..n) : s # {} => Max(s) \in 1..n
    BY <1>2, LargestExists
  <2> QED
    BY <1>1, <1>4, <2>1 DEF Accumulates
<1>6. PICK h : FoldPrefixes(h, n, D, <<>>, F) /\ h[n] = f[1..n]
  BY <1>2, <1>5, FoldHasPrefixes
<1>7. \A i \in 1..n : h[i - 1] \in D /\ h[i] = KeptOnce(h[i - 1], list[i])
  <2>1. \A i \in 1..n : i - 1 \in 0..n
    BY <1>2
  <2> QED
    BY <1>1, <1>6, <2>1 DEF FoldPrefixes
<1> QED
  BY <1>3, <1>6, <1>7 DEF FoldPrefixes, n, D

(* So does query_sources. *)
LEMMA QueryIsBuiltUp ==
    ASSUME NEW list \in Seq(Feeds)
    PROVE  \E h \in [0..Len(list) -> Seq(Feeds)] :
              /\ h[0] = <<>>
              /\ \A i \in 1..Len(list) : h[i] = AskedOnce(h[i - 1], list[i])
              /\ query_sources(list) = h[Len(list)]
<1> DEFINE n == Len(list)
           D == Seq(Feeds)
           F == [p \in (1..n) \X D |-> AskedOnce(p[2], list[p[1]])]
           Iter(g) == g = [s \in SUBSET (1..n) |->
                              IF s = {} THEN <<>>
                              ELSE AskedOnce(g[s \ {Max(s)}], list[Max(s)])]
           f == CHOOSE g : Iter(g)
<1>1. \A i \in 1..n, d \in D : AskedOnce(d, list[i]) \in D /\ F[<<i, d>>] = AskedOnce(d, list[i])
  BY DEF AskedOnce
<1>2. n \in Nat /\ DOMAIN list = 1..n /\ LeftFold(n, D, <<>>, F)
  <2>1. n \in Nat /\ DOMAIN list = 1..n /\ <<>> \in D
    OBVIOUS
  <2> HIDE DEF n, D, F
  <2> QED
    BY <1>1, <2>1 DEF LeftFold
<1>3. query_sources(list) = f[1..n]
  BY <1>2 DEF query_sources, FoldLeft, MapThenFoldSet, AskedOnce
<1> HIDE DEF n, D, F
<1>4. Iter(f)
  <2>1. PICK g \in [SUBSET (1..n) -> D] :
            /\ Accumulates(g, n, D, <<>>, F)
            /\ \A s \in SUBSET (1..n) :
                  s # {} => Max(s) \in s /\ s \ {Max(s)} \in SUBSET (1..n)
    BY <1>2, FoldExists
  <2>2. Iter(g)
    BY <1>1, <2>1 DEF Accumulates
  <2> HIDE DEF Iter
  <2> QED
    BY <2>2
<1> HIDE DEF f
<1>5. Accumulates(f, n, D, <<>>, F)
  <2>1. \A s \in SUBSET (1..n) : s # {} => Max(s) \in 1..n
    BY <1>2, LargestExists
  <2> QED
    BY <1>1, <1>4, <2>1 DEF Accumulates
<1>6. PICK h : FoldPrefixes(h, n, D, <<>>, F) /\ h[n] = f[1..n]
  BY <1>2, <1>5, FoldHasPrefixes
<1>7. \A i \in 1..n : h[i - 1] \in D /\ h[i] = AskedOnce(h[i - 1], list[i])
  <2>1. \A i \in 1..n : i - 1 \in 0..n
    BY <1>2
  <2> QED
    BY <1>1, <1>6, <2>1 DEF FoldPrefixes
<1> QED
  BY <1>3, <1>6, <1>7 DEF FoldPrefixes, n, D

(* A source listed twice is kept once. *)
LEMMA DedupIsInjective ==
    ASSUME NEW list \in Seq(Feeds)
    PROVE  /\ dedup_sources(list) \in Seq(Feeds)
           /\ IsInjective(dedup_sources(list))
<1> DEFINE n == Len(list)
<1>1. PICK h \in [0..n -> Seq(Feeds)] :
         /\ h[0] = <<>>
         /\ \A i \in 1..n : h[i] = KeptOnce(h[i - 1], list[i])
         /\ dedup_sources(list) = h[n]
  BY DedupIsBuiltUp
<1> DEFINE T == {i \in 0..n : IsInjective(h[i])}
<1>2. 0 \in T
  BY <1>1 DEF IsInjective
<1>3. ASSUME NEW i \in 1..n, i - 1 \in T
      PROVE  i \in T
  <2> DEFINE kept == h[i - 1]
             s == list[i]
  <2>1. kept \in Seq(Feeds) /\ s \in Feeds /\ IsInjective(kept)
    BY <1>3
  <2>2. h[i] = KeptOnce(kept, s)
    BY <1>1
  <2>0. i \in 0..n
    OBVIOUS
  <2> HIDE DEF kept, s, n
  <2>3. CASE s \in FeedsOf(kept)
    BY <2>0, <2>1, <2>2, <2>3 DEF KeptOnce
  <2>4. CASE s \notin FeedsOf(kept)
    <3>1. h[i] = Append(kept, s)
      BY <2>2, <2>4 DEF KeptOnce
    <3>2. \A k \in 1..Len(kept) : kept[k] # s
      BY <2>1, <2>4 DEF FeedsOf
    <3>3. IsInjective(Append(kept, s))
      BY <2>1, <3>2, AppendSeq DEF IsInjective
    <3> QED
      BY <2>0, <3>1, <3>3
  <2> QED
    BY <2>3, <2>4
<1>4. 0..n \subseteq T
  <2>1. n \in Nat
    OBVIOUS
  <2> HIDE DEF n, T
  <2> QED
    BY <1>2, <1>3, <2>1, IntervalInduction
<1> QED
  BY <1>1, <1>4

(* Of different sources, each that answers usefully answers once. *)
LEMMA QueryAsksEachOnce ==
    ASSUME NEW list \in Seq(Feeds), IsInjective(list)
    PROVE  /\ query_sources(list) \in Seq(Feeds)
           /\ IsInjective(query_sources(list))
           /\ FeedsOf(query_sources(list)) = Answering(list)
<1> DEFINE n == Len(list)
           Upto(i) == {s \in Feeds : Usable(feed[s]) /\ \E k \in 1..i : list[k] = s}
<1>1. PICK h \in [0..n -> Seq(Feeds)] :
         /\ h[0] = <<>>
         /\ \A i \in 1..n : h[i] = AskedOnce(h[i - 1], list[i])
         /\ query_sources(list) = h[n]
  BY QueryIsBuiltUp
<1> DEFINE T == {i \in 0..n : IsInjective(h[i]) /\ FeedsOf(h[i]) = Upto(i)}
<1>2. 0 \in T
  BY <1>1 DEF IsInjective, FeedsOf
<1>3. ASSUME NEW i \in 1..n, i - 1 \in T
      PROVE  i \in T
  <2> DEFINE valid == h[i - 1]
             s == list[i]
  <2>1. /\ valid \in Seq(Feeds) /\ s \in Feeds /\ IsInjective(valid)
        /\ FeedsOf(valid) = Upto(i - 1)
    BY <1>3
  <2>2. h[i] = AskedOnce(valid, s)
    BY <1>1
  <2>3. \A k \in 1..i-1 : list[k] # s
    BY DEF IsInjective
  <2>4. Upto(i) = IF Usable(feed[s]) THEN Upto(i - 1) \cup {s} ELSE Upto(i - 1)
    <3> HIDE DEF valid
    <3> QED
      BY <2>1
  <2>5. s \notin Upto(i - 1)
    BY <2>3
  <2>0. i \in 0..n
    OBVIOUS
  <2> HIDE DEF valid, s, Upto, n
  <2>6. CASE ~Usable(feed[s])
    BY <2>0, <2>1, <2>2, <2>4, <2>6 DEF AskedOnce
  <2>7. CASE Usable(feed[s])
    <3>1. h[i] = Append(valid, s)
      BY <2>2, <2>7 DEF AskedOnce
    <3>2. \A k \in 1..Len(valid) : valid[k] # s
      BY <2>1, <2>5 DEF FeedsOf
    <3>3. IsInjective(Append(valid, s))
      BY <2>1, <3>2, AppendSeq DEF IsInjective
    <3>4. FeedsOf(Append(valid, s)) = FeedsOf(valid) \cup {s}
      <4>1. \A y : (\E j \in DOMAIN Append(valid, s) : Append(valid, s)[j] = y)
                      <=> (y = s \/ \E j \in DOMAIN valid : valid[j] = y)
        BY <2>1, AppendHolds
      <4> QED
        BY <2>1, <4>1 DEF FeedsOf
    <3> QED
      BY <2>0, <2>1, <2>4, <2>7, <3>1, <3>3, <3>4
  <2> QED
    BY <2>6, <2>7
<1>4. 0..n \subseteq T
  <2>1. n \in Nat
    OBVIOUS
  <2> HIDE DEF n, T
  <2> QED
    BY <1>2, <1>3, <2>1, IntervalInduction
<1>5. Answering(list) = Upto(n)
  BY DEF Answering, FeedsOf
<1> QED
  BY <1>1, <1>4, <1>5

(* A position p within reach of s: what InsertAt does there. *)
LEMMA InsertShifts ==
    ASSUME NEW s \in Seq(Int), NEW p \in 1..Len(s) + 1, NEW x \in Int
    PROVE  /\ InsertAt(s, p, x) \in Seq(Int)
           /\ Len(InsertAt(s, p, x)) = Len(s) + 1
           /\ \A i \in 1..Len(s) + 1 :
                 InsertAt(s, p, x)[i] = IF i < p THEN s[i]
                                        ELSE IF i = p THEN x ELSE s[i - 1]
<1> DEFINE before == SubSeq(s, 1, p - 1)
           after  == SubSeq(s, p, Len(s))
           n == Len(s)
<1>1. n \in Nat /\ p \in 1..n+1 /\ \A i \in 1..n : s[i] \in Int
  OBVIOUS
<1>2. /\ before \in Seq(Int) /\ Len(before) = p - 1
      /\ \A i \in 1..p-1 : before[i] = s[i]
  <2>1. \A i \in 1..p-1 : s[i] \in Int
    BY <1>1
  <2>2. p - 1 \in Int /\ 1 \in Int
    OBVIOUS
  <2>3. /\ before \in Seq(Int)
        /\ Len(before) = IF 1 <= p - 1 THEN p - 1 - 1 + 1 ELSE 0
        /\ \A i \in 1 .. p - 1 - 1 + 1 : before[i] = s[1 + i - 1]
    BY <2>1, <2>2, SubSeqProperties
  <2> HIDE DEF before
  <2> QED
    BY <2>3
<1>3. /\ after \in Seq(Int) /\ Len(after) = n - p + 1
      /\ \A i \in 1..n-p+1 : after[i] = s[p + i - 1]
  <2>1. \A i \in p..n : s[i] \in Int
    BY <1>1
  <2>2. p \in Int /\ n \in Int
    BY <1>1
  <2>3. /\ after \in Seq(Int)
        /\ Len(after) = IF p <= n THEN n - p + 1 ELSE 0
        /\ \A i \in 1 .. n - p + 1 : after[i] = s[p + i - 1]
    BY <2>1, <2>2, SubSeqProperties
  <2> HIDE DEF after
  <2> QED
    BY <2>3, <1>1
<1> HIDE DEF before, after, n
<1>4. /\ <<x>> \in Seq(Int) /\ Len(<<x>>) = 1 /\ <<x>>[1] = x
  OBVIOUS
<1>5. /\ before \o <<x>> \in Seq(Int) /\ Len(before \o <<x>>) = p
      /\ \A i \in 1..p : (before \o <<x>>)[i] = IF i < p THEN s[i] ELSE x
  <2>1. /\ before \o <<x>> \in Seq(Int)
        /\ Len(before \o <<x>>) = Len(before) + Len(<<x>>)
        /\ \A i \in 1 .. Len(before) + Len(<<x>>) :
              (before \o <<x>>)[i] = IF i <= Len(before) THEN before[i]
                                     ELSE <<x>>[i - Len(before)]
    BY <1>2, <1>4, ConcatProperties
  <2> QED
    BY <2>1, <1>2, <1>4
<1>6. /\ InsertAt(s, p, x) \in Seq(Int)
      /\ Len(InsertAt(s, p, x)) = p + (n - p + 1)
      /\ \A i \in 1 .. p + (n - p + 1) :
            InsertAt(s, p, x)[i] = IF i <= p THEN (before \o <<x>>)[i]
                                   ELSE after[i - p]
  <2>1. InsertAt(s, p, x) = (before \o <<x>>) \o after
    BY DEF InsertAt, before, after, n
  <2> DEFINE front == before \o <<x>>
  <2>2. front \in Seq(Int) /\ Len(front) = p
    BY <1>5
  <2> HIDE DEF front
  <2>3. /\ front \o after \in Seq(Int)
        /\ Len(front \o after) = Len(front) + Len(after)
        /\ \A i \in 1 .. Len(front) + Len(after) :
              (front \o after)[i] = IF i <= Len(front) THEN front[i]
                                    ELSE after[i - Len(front)]
    BY <2>2, <1>3, ConcatProperties
  <2> QED
    BY <2>1, <2>2, <2>3, <1>3 DEF front
<1>7. \A i \in 1..n+1 : InsertAt(s, p, x)[i] = IF i < p THEN s[i]
                                              ELSE IF i = p THEN x ELSE s[i - 1]
  <2> SUFFICES ASSUME NEW i \in 1..n+1
               PROVE  InsertAt(s, p, x)[i] = IF i < p THEN s[i]
                                             ELSE IF i = p THEN x ELSE s[i - 1]
    OBVIOUS
  <2> DEFINE front == before \o <<x>>
             all == InsertAt(s, p, x)
  <2>1. i \in 1 .. p + (n - p + 1) /\ i \in Int /\ p \in Int /\ n \in Int
    BY <1>1
  <2>4. all[i] = IF i <= p THEN front[i] ELSE after[i - p]
    BY <1>6, <2>1
  <2>5. i <= p => front[i] = IF i < p THEN s[i] ELSE x
    BY <1>5, <2>1
  <2> HIDE DEF front, all
  <2>2. CASE i <= p
    <3>1. i < p \/ i = p
      BY <2>1, <2>2
    <3>2. all[i] = IF i < p THEN s[i] ELSE IF i = p THEN x ELSE s[i - 1]
      BY <2>2, <2>4, <2>5, <3>1
    <3> QED
      BY <3>2 DEF all
  <2>3. CASE i > p
    <3>1. i - p \in 1..n-p+1 /\ p + (i - p) - 1 = i - 1
      BY <1>1, <2>1, <2>3
    <3>2. after[i - p] = s[i - 1]
      BY <3>1, <1>3
    <3>3. ~(i <= p) /\ ~(i < p) /\ i # p
      BY <2>1, <2>3
    <3>4. all[i] = IF i < p THEN s[i] ELSE IF i = p THEN x ELSE s[i - 1]
      BY <2>4, <3>2, <3>3
    <3> QED
      BY <3>4 DEF all
  <2> QED
    BY <2>1, <2>2, <2>3
<1>8. p + (n - p + 1) = n + 1
  BY <1>1
<1> QED
  BY <1>6, <1>7, <1>8 DEF n

Ascending(s) == \A i, j \in DOMAIN s : i <= j => s[i] <= s[j]

(* In an ascending list the entries that are not greater than the key are those
   before its place.                                                         *)
LEMMA PlaceOfKey ==
    ASSUME NEW s \in Seq(Int), Ascending(s), NEW key \in Int
    PROVE  \E p \in 1..Len(s) + 1 :
              /\ Inserted(s, key) = InsertAt(s, p, key)
              /\ \A i \in 1..Len(s) : s[i] <= key <=> i < p
<1> DEFINE n == Len(s)
           Below == {i \in DOMAIN s : s[i] <= key}
<1>1. n \in Nat /\ DOMAIN s = 1..n /\ \A i \in 1..n : s[i] \in Int
  OBVIOUS
<1>2. PICK k \in 0..n : \A i \in 1..n : s[i] <= key <=> i <= k
  <2>1. CASE Below = {}
    <3>1. 0 \in 0..n /\ \A i \in 1..n : ~(s[i] <= key) /\ ~(i <= 0)
      BY <1>1, <2>1
    <3> QED
      BY <3>1
  <2>2. CASE Below # {}
    <3>1. Max(Below) \in Below /\ \A i \in Below : Max(Below) >= i
      BY <1>1, <2>2, LargestExists
    <3>2. \A i \in 1..n : i <= Max(Below) => s[i] <= key
      BY <1>1, <3>1 DEF Ascending
    <3>3. Max(Below) \in 0..n /\ \A i \in 1..n : s[i] <= key => i <= Max(Below)
      BY <1>1, <3>1
    <3> QED
      BY <3>2, <3>3
  <2> QED
    BY <2>1, <2>2
<1>3. Below = 1..k /\ k \in Nat
  BY <1>1, <1>2
<1>4. Cardinality(Below) = k
  <2>1. Cardinality(1..k) = IF 1 > k THEN 0 ELSE k - 1 + 1
    BY <1>3, FS_Interval
  <2>2. Cardinality(1..k) = k
    BY <1>3, <2>1
  <2> HIDE DEF Below
  <2> QED
    BY <1>3, <2>2
<1>5. Inserted(s, key) = InsertAt(s, k + 1, key)
  BY <1>4 DEF Inserted
<1> QED
  BY <1>1, <1>2, <1>5

(* What sorting keeps: the first k prices, in ascending order, each at its own
   place.                                                                    *)
Sorts(s, prices, k) ==
    /\ s \in Seq(Int) /\ Len(s) = k /\ Ascending(s)
    /\ \E pi \in [1..k -> 1..k] :
          /\ IsInjective(pi)
          /\ \A i \in 1..k : s[i] = prices[pi[i]]

(* Inserting the next price keeps that. *)
LEMMA InsertSorts ==
    ASSUME NEW prices \in Seq(Int), NEW k \in 1..Len(prices), NEW s,
           Sorts(s, prices, k - 1)
    PROVE  Sorts(Inserted(s, prices[k]), prices, k)
<1> DEFINE key == prices[k]
           m == k - 1
<1>1. key \in Int /\ m \in Nat /\ k = m + 1
  OBVIOUS
<1> HIDE DEF key
<1>2. s \in Seq(Int) /\ Len(s) = m /\ Ascending(s)
  BY DEF Sorts
<1>3. PICK pi \in [1..m -> 1..m] : /\ IsInjective(pi)
                                   /\ \A i \in 1..m : s[i] = prices[pi[i]]
  BY DEF Sorts
<1> HIDE DEF m
<1>4. PICK p \in 1..m+1 : /\ Inserted(s, key) = InsertAt(s, p, key)
                          /\ \A i \in 1..m : s[i] <= key <=> i < p
  BY <1>1, <1>2, PlaceOfKey
<1> DEFINE t == InsertAt(s, p, key)
<1>5. /\ t \in Seq(Int) /\ Len(t) = m + 1
      /\ \A i \in 1..m+1 : /\ i < p => (t[i] = s[i] /\ i \in 1..m)
                           /\ i = p => t[i] = key
                           /\ i > p => (t[i] = s[i - 1] /\ i - 1 \in 1..m)
  <2>1. p \in 1..Len(s)+1
    BY <1>2
  <2>2. /\ t \in Seq(Int) /\ Len(t) = m + 1
        /\ \A i \in 1..m+1 : t[i] = IF i < p THEN s[i] ELSE IF i = p THEN key ELSE s[i - 1]
    <3>1. s \in Seq(Int) /\ key \in Int
      BY <1>1, <1>2
    <3>2. /\ t \in Seq(Int) /\ Len(t) = Len(s) + 1
          /\ \A i \in 1..Len(s)+1 :
                t[i] = IF i < p THEN s[i] ELSE IF i = p THEN key ELSE s[i - 1]
      BY ONLY <2>1, <3>1, InsertShifts, ZenonT(60)
    <3> HIDE DEF t
    <3> QED
      BY <1>2, <3>2
  <2> HIDE DEF t
  <2>3. ASSUME NEW i \in 1..m+1
        PROVE  /\ i < p => (t[i] = s[i] /\ i \in 1..m)
               /\ i = p => t[i] = key
               /\ i > p => (t[i] = s[i - 1] /\ i - 1 \in 1..m)
    <3>1. /\ i < p => i \in 1..m
          /\ i > p => (i - 1 \in 1..m /\ ~(i < p) /\ i # p)
          /\ i = p => ~(i < p)
      BY <1>1
    <3> QED
      BY <2>2, <3>1
  <2> QED
    BY <2>2, <2>3
<1> HIDE DEF t
<1>6. Ascending(t)
  <2>1. /\ DOMAIN t = 1..m+1 /\ \A i \in 1..m+1 : t[i] \in Int
        /\ DOMAIN s = 1..m /\ \A i \in 1..m : s[i] \in Int
    BY <1>1, <1>2, <1>5
  <2>2. \A i, j \in 1..m : i <= j => s[i] <= s[j]
    BY <1>2, <2>1 DEF Ascending
  <2>3. ASSUME NEW i \in 1..m+1, NEW j \in 1..m+1, i < j
        PROVE  t[i] <= t[j]
    <3>1. CASE j < p
      <4>1. i \in 1..m /\ j \in 1..m /\ i < p
        BY <1>1, <2>3, <3>1
      <4>2. s[i] <= s[j]
        BY <2>2, <2>3, <4>1
      <4> QED
        BY <1>5, <3>1, <4>1, <4>2
    <3>2. CASE j = p
      <4>1. i < p
        BY <2>3, <3>2
      <4>2. s[i] <= key
        BY <1>4, <1>5, <4>1
      <4> QED
        BY <1>5, <3>2, <4>1, <4>2
    <3>3. CASE j > p /\ i = p
      <4>1. j - 1 \in 1..m /\ ~(j - 1 < p)
        BY <1>1, <3>3
      <4>2. ~(s[j - 1] <= key)
        BY <1>4, <4>1
      <4>3. key <= s[j - 1]
        BY <1>1, <2>1, <4>1, <4>2
      <4> QED
        BY <1>5, <3>3, <4>3
    <3>4. CASE j > p /\ i < p
      <4>1. j - 1 \in 1..m /\ i \in 1..m /\ i <= j - 1
        BY <1>1, <3>4
      <4>2. s[i] <= s[j - 1]
        BY <2>2, <4>1
      <4> QED
        BY <1>5, <3>4, <4>2
    <3>5. CASE j > p /\ i > p
      <4>1. j - 1 \in 1..m /\ i - 1 \in 1..m /\ i - 1 <= j - 1
        BY <1>1, <2>3, <3>5
      <4>2. s[i - 1] <= s[j - 1]
        BY <2>2, <4>1
      <4> QED
        BY <1>5, <3>5, <4>2
    <3> QED
      BY <1>1, <2>3, <3>1, <3>2, <3>3, <3>4, <3>5
  <2>4. ASSUME NEW i \in 1..m+1, NEW j \in 1..m+1, i <= j
        PROVE  t[i] <= t[j]
    BY <1>1, <2>1, <2>3, <2>4
  <2> QED
    BY <2>1, <2>4 DEF Ascending
<1> DEFINE rho == [i \in 1..m+1 |->
                      IF i < p THEN pi[i] ELSE IF i = p THEN m + 1 ELSE pi[i - 1]]
<1>7. rho \in [1..m+1 -> 1..m+1] /\ IsInjective(rho)
  <2>1. \A i \in 1..m : pi[i] \in 1..m
    BY <1>3
  <2>2. \A i, j \in 1..m : pi[i] = pi[j] => i = j
    BY <1>3 DEF IsInjective
  <2>3. ASSUME NEW i \in 1..m+1
        PROVE  /\ i < p => (i \in 1..m /\ rho[i] = pi[i] /\ rho[i] \in 1..m)
               /\ i = p => rho[i] = m + 1
               /\ i > p => (i - 1 \in 1..m /\ rho[i] = pi[i - 1] /\ rho[i] \in 1..m)
               /\ i < p \/ i = p \/ i > p
    <3>1. /\ i < p => i \in 1..m
          /\ i > p => (i - 1 \in 1..m /\ ~(i < p) /\ i # p)
          /\ i = p => ~(i < p)
          /\ i < p \/ i = p \/ i > p
      BY <1>1
    <3> QED
      BY <2>1, <3>1
  <2>4. rho \in [1..m+1 -> 1..m+1]
    <3>1. \A i \in 1..m+1 : rho[i] \in 1..m+1
      <4>1. m + 1 \in 1..m+1 /\ 1..m \subseteq 1..m+1
        BY <1>1
      <4> HIDE DEF rho
      <4> QED
        BY <2>3, <4>1
    <3> QED
      BY <3>1
  <2> HIDE DEF rho
  <2>5. ASSUME NEW i \in 1..m+1, NEW j \in 1..m+1, rho[i] = rho[j]
        PROVE  i = j
    <3>1. m + 1 \notin 1..m
      BY <1>1
    <3>2. CASE i = p
      BY <2>3, <2>5, <3>1, <3>2
    <3>3. CASE j = p
      BY <2>3, <2>5, <3>1, <3>3
    <3>4. CASE i < p /\ j < p
      BY <2>2, <2>3, <2>5, <3>4
    <3>5. CASE i > p /\ j > p
      <4>1. i - 1 = j - 1
        BY <2>2, <2>3, <2>5, <3>5
      <4> QED
        BY <1>1, <4>1
    <3>6. CASE i < p /\ j > p
      <4>1. i = j - 1
        BY <2>2, <2>3, <2>5, <3>6
      <4> QED
        BY <1>1, <3>6, <4>1
    <3>7. CASE i > p /\ j < p
      <4>1. j = i - 1
        BY <2>2, <2>3, <2>5, <3>7
      <4> QED
        BY <1>1, <3>7, <4>1
    <3> QED
      BY <2>3, <3>2, <3>3, <3>4, <3>5, <3>6, <3>7
  <2> QED
    BY <2>4, <2>5 DEF IsInjective
<1>8. \A i \in 1..m+1 : t[i] = prices[rho[i]]
  <2> SUFFICES ASSUME NEW i \in 1..m+1
               PROVE  t[i] = prices[rho[i]]
    OBVIOUS
  <2>1. CASE i < p
    BY <1>1, <1>3, <1>5, <2>1
  <2>2. CASE i = p
    BY <1>1, <1>5, <2>2 DEF key
  <2>3. CASE i > p
    <3>1. i - 1 \in 1..m /\ t[i] = s[i - 1]
      BY <1>5, <2>3
    <3>2. ~(i < p) /\ i # p
      BY <1>1, <2>3
    <3>3. rho[i] = pi[i - 1]
      BY <3>2
    <3> HIDE DEF rho
    <3> QED
      BY <1>3, <3>1, <3>3
  <2> QED
    BY <1>1, <2>1, <2>2, <2>3
<1> HIDE DEF rho
<1>9. Sorts(t, prices, m + 1)
  BY <1>5, <1>6, <1>7, <1>8 DEF Sorts
<1> QED
  BY <1>1, <1>4, <1>9 DEF t, key

(* Prices stay prices, sorted or not. *)
LEMMA InsertedTyped ==
    ASSUME NEW s \in Seq(Int), NEW key \in Int
    PROVE  Inserted(s, key) \in Seq(Int)
<1> DEFINE Below == {i \in DOMAIN s : s[i] <= key}
<1>1. /\ IsFiniteSet(1..Len(s)) /\ Cardinality(1..Len(s)) = Len(s)
      /\ Below \in SUBSET (1..Len(s))
  <2>1. Len(s) \in Nat
    OBVIOUS
  <2>2. Cardinality(1..Len(s)) = IF 1 > Len(s) THEN 0 ELSE Len(s) - 1 + 1
    BY <2>1, FS_Interval
  <2>3. Cardinality(1..Len(s)) = Len(s)
    BY <2>1, <2>2
  <2> QED
    BY <2>1, <2>3, FS_Interval
<1> HIDE DEF Below
<1>2. Cardinality(Below) \in 0..Len(s)
  <2>1. Cardinality(Below) \in 0..Cardinality(1..Len(s))
    BY <1>1, SubsetCardinality
  <2> QED
    BY <1>1, <2>1
<1>3. 1 + Cardinality(Below) \in 1..Len(s)+1
  BY <1>2
<1> QED
  BY <1>3, InsertShifts DEF Inserted, Below

(* The sort goes through the prices from their start. *)
LEMMA SortIsBuiltUp ==
    ASSUME NEW list \in Seq(Int)
    PROVE  \E h \in [0..Len(list) -> Seq(Int)] :
              /\ h[0] = <<>>
              /\ \A i \in 1..Len(list) : h[i] = Inserted(h[i - 1], list[i])
              /\ insertion_sort(list) = h[Len(list)]
<1> DEFINE n == Len(list)
           D == Seq(Int)
           F == [p \in (1..n) \X D |-> Inserted(p[2], list[p[1]])]
           Iter(g) == g = [s \in SUBSET (1..n) |->
                              IF s = {} THEN <<>>
                              ELSE Inserted(g[s \ {Max(s)}], list[Max(s)])]
           f == CHOOSE g : Iter(g)
<1>1. \A i \in 1..n, d \in D : Inserted(d, list[i]) \in D /\ F[<<i, d>>] = Inserted(d, list[i])
  <2>1. \A i \in 1..n : list[i] \in Int
    OBVIOUS
  <2>2. \A i \in 1..n, d \in D : Inserted(d, list[i]) \in D
    BY <2>1, InsertedTyped
  <2> QED
    BY <2>2
<1>2. n \in Nat /\ DOMAIN list = 1..n /\ LeftFold(n, D, <<>>, F)
  <2>1. n \in Nat /\ DOMAIN list = 1..n /\ <<>> \in D
    OBVIOUS
  <2> HIDE DEF n, D, F
  <2> QED
    BY <1>1, <2>1 DEF LeftFold
<1>3. insertion_sort(list) = f[1..n]
  BY <1>2 DEF insertion_sort, FoldLeft, MapThenFoldSet, Inserted
<1> HIDE DEF n, D, F
<1>4. Iter(f)
  <2>1. PICK g \in [SUBSET (1..n) -> D] :
            /\ Accumulates(g, n, D, <<>>, F)
            /\ \A s \in SUBSET (1..n) :
                  s # {} => Max(s) \in s /\ s \ {Max(s)} \in SUBSET (1..n)
    BY <1>2, FoldExists
  <2>2. Iter(g)
    BY <1>1, <2>1 DEF Accumulates
  <2> HIDE DEF Iter
  <2> QED
    BY <2>2
<1> HIDE DEF f
<1>5. Accumulates(f, n, D, <<>>, F)
  <2>1. \A s \in SUBSET (1..n) : s # {} => Max(s) \in 1..n
    BY <1>2, LargestExists
  <2> QED
    BY <1>1, <1>4, <2>1 DEF Accumulates
<1>6. PICK h : FoldPrefixes(h, n, D, <<>>, F) /\ h[n] = f[1..n]
  BY <1>2, <1>5, FoldHasPrefixes
<1>7. \A i \in 1..n : h[i - 1] \in D /\ h[i] = Inserted(h[i - 1], list[i])
  <2>1. \A i \in 1..n : i - 1 \in 0..n
    BY <1>2
  <2> QED
    BY <1>1, <1>6, <2>1 DEF FoldPrefixes
<1> QED
  BY <1>3, <1>6, <1>7 DEF FoldPrefixes, n, D

(* The sort is a sort. *)
LEMMA SortSorts ==
    ASSUME NEW prices \in Seq(Int)
    PROVE  Sorts(insertion_sort(prices), prices, Len(prices))
<1> DEFINE n == Len(prices)
<1>1. PICK h \in [0..n -> Seq(Int)] :
         /\ h[0] = <<>>
         /\ \A i \in 1..n : h[i] = Inserted(h[i - 1], prices[i])
         /\ insertion_sort(prices) = h[n]
  BY SortIsBuiltUp
<1> DEFINE T == {i \in 0..n : Sorts(h[i], prices, i)}
<1>2. 0 \in T
  <2>1. Sorts(<<>>, prices, 0)
    <3>1. <<>> \in [1..0 -> 1..0] /\ IsInjective(<<>>) /\ <<>> \in Seq(Int)
      BY DEF IsInjective
    <3> QED
      BY <3>1 DEF Sorts, Ascending
  <2> QED
    BY <1>1, <2>1
<1>3. ASSUME NEW i \in 1..n, i - 1 \in T
      PROVE  i \in T
  <2>1. i \in 0..n
    OBVIOUS
  <2>2. Sorts(h[i], prices, i)
    BY <1>1, <1>3, InsertSorts
  <2> QED
    BY <2>1, <2>2
<1>4. 0..n \subseteq T
  <2>1. n \in Nat
    OBVIOUS
  <2> HIDE DEF n, T
  <2> QED
    BY <1>2, <1>3, <2>1, IntervalInduction
<1>5. n \in 0..n
  OBVIOUS
<1> QED
  BY <1>1, <1>4, <1>5

(***************************************************************************)
(* The lower median.                                                       *)
(***************************************************************************)

(* Some ordering w of the answering feeds is the one of the sorted prices, and
   names each feed once.                                                     *)
LEMMA SortedFeeds ==
    ASSUME ReportsTyped, NEW list \in Seq(Feeds), IsInjective(list),
           NEW sorted, sorted = insertion_sort(PricesOf(query_sources(list)))
    PROVE  LET n == Len(sorted)
               A == Answering(list)
           IN  /\ n \in Nat /\ IsFiniteSet(A) /\ Cardinality(A) = n
               /\ sorted \in Seq(Int) /\ Ascending(sorted)
               /\ \E w \in [1..n -> A] :
                     /\ IsInjective(w)
                     /\ \A i \in 1..n : sorted[i] = feed[w[i]].price
<1> DEFINE valid == query_sources(list)
           n == Len(valid)
           A == Answering(list)
<1>1. valid \in Seq(Feeds) /\ IsInjective(valid) /\ FeedsOf(valid) = A
  BY QueryAsksEachOnce
<1> HIDE DEF valid, A
<1>2. n \in Nat /\ DOMAIN valid = 1..n
  BY <1>1
<1>3. \A f \in A : feed[f].price \in Int
  BY RouterAssumption DEF A, Answering, Usable, FeedsOf, ReportsTyped
<1>4. valid \in [1..n -> A] /\ \A f \in A : \E i \in 1..n : valid[i] = f
  BY <1>1, <1>2 DEF FeedsOf
<1> DEFINE prices == PricesOf(valid)
<1>5. /\ prices \in Seq(Int) /\ Len(prices) = n
      /\ \A i \in 1..n : prices[i] = feed[valid[i]].price
  BY <1>2, <1>3, <1>4 DEF PricesOf
<1> HIDE DEF prices, n
<1>6. /\ sorted \in Seq(Int) /\ Len(sorted) = n /\ Ascending(sorted)
      /\ \E pi \in [1..n -> 1..n] :
            /\ IsInjective(pi)
            /\ \A i \in 1..n : sorted[i] = prices[pi[i]]
  BY <1>5, SortSorts DEF Sorts, valid, prices
<1>7. PICK pi \in [1..n -> 1..n] :
            /\ IsInjective(pi)
            /\ \A i \in 1..n : sorted[i] = prices[pi[i]]
  BY <1>6
<1> DEFINE w == [i \in 1..n |-> valid[pi[i]]]
<1>8. /\ w \in [1..n -> A] /\ IsInjective(w)
      /\ \A i \in 1..n : sorted[i] = feed[w[i]].price
  <2>1. \A i \in 1..n : pi[i] \in 1..n /\ w[i] = valid[pi[i]]
    BY <1>7
  <2>2. w \in [1..n -> A]
    BY <1>4, <2>1
  <2> HIDE DEF w
  <2>3. ASSUME NEW i \in 1..n
        PROVE  sorted[i] = feed[w[i]].price
    <3>1. sorted[i] = prices[pi[i]] /\ pi[i] \in 1..n /\ w[i] = valid[pi[i]]
      BY <1>7, <2>1
    <3>2. prices[pi[i]] = feed[valid[pi[i]]].price
      BY <1>5, <3>1
    <3> QED
      BY <3>1, <3>2
  <2>4. IsInjective(w)
    BY <1>1, <1>2, <1>7, <2>1, <2>2 DEF IsInjective
  <2> QED
    BY <2>2, <2>3, <2>4
<1>9. IsFiniteSet(A) /\ Cardinality(A) = n
  <2>1. IsFiniteSet(1..n) /\ Cardinality(1..n) = IF 1 > n THEN 0 ELSE n - 1 + 1
    BY <1>2, FS_Interval
  <2>2. Cardinality(1..n) = n
    BY <1>2, <2>1
  <2>3. valid \in Bijection(1..n, A)
    BY <1>1, <1>2, <1>4 DEF Bijection, Injection, Surjection, IsInjective
  <2>4. ExistsBijection(1..n, A)
    BY <2>3 DEF ExistsBijection
  <2>5. IsFiniteSet(A) /\ Cardinality(A) = Cardinality(1..n)
    BY <2>1, <2>4, FS_Bijection
  <2> QED
    BY <2>2, <2>5
<1> HIDE DEF w
<1> QED
  BY <1>2, <1>6, <1>8, <1>9 DEF A

(* Half of the feeds and one more reach beyond the lower median on either side. *)
LEMMA MedianIsBracketed ==
    ASSUME NEW n \in Nat \ {0}, NEW A, NEW price, NEW sorted \in Seq(Int),
           Len(sorted) = n, Ascending(sorted), IsFiniteSet(A), Cardinality(A) = n,
           NEW w \in [1..n -> A], IsInjective(w), \A i \in 1..n : sorted[i] = price[w[i]],
           NEW H \in SUBSET A, 2 * Cardinality(H) > n
    PROVE  /\ 1 + median_idx(n) \in 1..n
           /\ \E f \in H : price[f] <= sorted[1 + median_idx(n)]
           /\ \E g \in H : sorted[1 + median_idx(n)] <= price[g]
<1> DEFINE m == 1 + median_idx(n)
           At == {i \in 1..n : w[i] \in H}
<1>1. m \in 1..n /\ 2 * (m - 1) <= n /\ 2 * (n - m) <= n
  BY DEF median_idx
<1>2. \A i \in 1..n : sorted[i] \in Int
  OBVIOUS
<1>3. \A k \in 0..n : IsFiniteSet(1..k) /\ Cardinality(1..k) = k
  <2> SUFFICES ASSUME NEW k \in 0..n
               PROVE  IsFiniteSet(1..k) /\ Cardinality(1..k) = k
    OBVIOUS
  <2>1. k \in Int /\ 1 \in Int
    OBVIOUS
  <2>2. IsFiniteSet(1..k) /\ Cardinality(1..k) = IF 1 > k THEN 0 ELSE k - 1 + 1
    BY <2>1, FS_Interval
  <2> QED
    BY <2>2
<1>4. Cardinality(At) = Cardinality(H) /\ IsFiniteSet(At)
  <2>1. w \in Surjection(1..n, A)
    <3>1. n \in 0..n /\ w \in Injection(1..n, A)
      BY DEF Injection
    <3>2. IsFiniteSet(1..n) /\ Cardinality(1..n) = n
      BY <1>3, <3>1
    <3> QED
      BY <3>1, <3>2, FS_Injection
  <2>2. [i \in At |-> w[i]] \in Bijection(At, H)
    <3>1. \A f \in H : \E i \in At : w[i] = f
      BY <2>1 DEF Surjection
    <3>2. \A i, j \in At : w[i] = w[j] => i = j
      BY DEF IsInjective
    <3> QED
      BY <3>1, <3>2 DEF Bijection, Injection, Surjection, IsInjective
  <2>3. ExistsBijection(At, H)
    BY <2>2 DEF ExistsBijection
  <2>4. IsFiniteSet(At)
    <3>1. IsFiniteSet(1..n)
      BY FS_Interval
    <3> QED
      BY <3>1, FS_Subset
  <2> HIDE DEF At
  <2> QED
    BY <2>3, <2>4, FS_Bijection
<1>5. \E i \in At : i <= m
  <2> SUFFICES ASSUME \A i \in At : i > m
               PROVE  FALSE
    <3>1. \A i \in At : i \in Int /\ m \in Int
      BY <1>1
    <3> HIDE DEF At, m
    <3> QED
      BY <3>1
  <2>1. At \in SUBSET (m+1..n)
    BY <1>1
  <2>2. IsFiniteSet(m+1..n) /\ Cardinality(m+1..n) = n - m
    <3>1. m + 1 \in Int /\ n \in Int
      BY <1>1
    <3>2. /\ IsFiniteSet(m+1..n)
          /\ Cardinality(m+1..n) = IF m + 1 > n THEN 0 ELSE n - (m + 1) + 1
      BY <3>1, FS_Interval
    <3> QED
      BY <1>1, <3>2
  <2>3. Cardinality(At) <= n - m /\ Cardinality(At) \in Nat
    BY <2>1, <2>2, FS_Subset, FS_CardinalityType
  <2> HIDE DEF At, m
  <2> QED
    BY <1>1, <1>4, <2>3
<1>6. \E i \in At : m <= i
  <2> SUFFICES ASSUME \A i \in At : i < m
               PROVE  FALSE
    <3>1. \A i \in At : i \in Int /\ m \in Int
      BY <1>1
    <3> HIDE DEF At, m
    <3> QED
      BY <3>1
  <2>1. At \in SUBSET (1..m-1)
    BY <1>1
  <2>2. IsFiniteSet(1..m-1) /\ Cardinality(1..m-1) = m - 1
    BY <1>1, <1>3
  <2>3. Cardinality(At) <= m - 1 /\ Cardinality(At) \in Nat
    BY <2>1, <2>2, FS_Subset, FS_CardinalityType
  <2> HIDE DEF At, m
  <2> QED
    BY <1>1, <1>4, <2>3
<1>7. \A i \in At : w[i] \in H /\ sorted[i] = price[w[i]] /\ i \in 1..n
  OBVIOUS
<1>8. \A i, j \in 1..n : i <= j => sorted[i] <= sorted[j]
  <2>1. DOMAIN sorted = 1..n
    OBVIOUS
  <2> QED
    BY <2>1 DEF Ascending
<1> HIDE DEF At, m
<1>9. \E f \in H : price[f] <= sorted[m]
  BY <1>1, <1>5, <1>7, <1>8
<1>10. \E g \in H : sorted[m] <= price[g]
  BY <1>1, <1>6, <1>7, <1>8
<1> QED
  BY <1>1, <1>9, <1>10 DEF m

(***************************************************************************)
(* The cache.                                                              *)
(***************************************************************************)

(* A miss stores an entry whose reports were all usable at that moment.      *)
LEMMA FetchMakesFreshEntry ==
    ASSUME RouterInv, FetchPrice
    PROVE  /\ cache'.last_update = now
           /\ config \in Configs
           /\ basis'.config = config
           /\ DOMAIN basis'.reports = Answering(sources)
           /\ \A f \in Answering(sources) :
                 /\ f \in FeedsOf(sources)
                 /\ basis'.reports[f] = feed[f]
                 /\ feed[f].last_update \in Nat
                 /\ feed[f].last_update <= now
                 /\ now - feed[f].last_update <= config.staleness_threshold
<1>1. config \in Configs
  BY DEF RouterInv, ThresholdsTyped, FetchPrice
<1>2. /\ cache'.last_update = now
      /\ basis'.config = config
      /\ basis'.reports = [s \in Answering(sources) |-> feed[s]]
  BY DEF FetchPrice, NewEntry
<1>3. ASSUME NEW f \in Answering(sources)
      PROVE  /\ f \in FeedsOf(sources)
             /\ feed[f].last_update \in Nat
             /\ feed[f].last_update <= now
             /\ now - feed[f].last_update <= config.staleness_threshold
  BY <1>3 DEF Answering, Usable, FeedsOf, RouterInv, ReportsTyped
<1> QED
  BY <1>1, <1>2, <1>3

(* Thresholds are numbers: what the arithmetic below needs of Configs.       *)
LEMMA ThresholdsAreNumbers ==
    ASSUME NEW c \in Configs
    PROVE  c.staleness_threshold \in Nat /\ c.cache_duration \in Nat
BY RouterAssumption

(* An empty router satisfies the invariant. *)
LEMMA RouterInitInv == RouterInit => RouterInv
<1> SUFFICES ASSUME RouterInit
             PROVE  RouterInv
  OBVIOUS
<1>1. SourcesDistinct
  <2>1. <<>> \in Seq(Feeds) /\ IsInjective(<<>>)
    BY DEF IsInjective
  <2> QED
    BY <2>1 DEF RouterInit, SourcesDistinct
<1>2. cache = None => QuorumOfDistinctFeeds /\ MajorityBracketsPrice
  BY DEF QuorumOfDistinctFeeds, MajorityBracketsPrice
<1>3. ThresholdsTyped /\ ReportsTyped
  BY DEF RouterInit, ThresholdsTyped, ReportsTyped
<1>4. EntryFromFreshReports /\ EntryOlderThanRemoval /\ ServedStillCached
  BY DEF RouterInit, EntryFromFreshReports, EntryOlderThanRemoval, ServedStillCached
<1>5. cache = None
  BY DEF RouterInit
<1> QED
  BY <1>1, <1>2, <1>3, <1>4, <1>5 DEF RouterInv

(* What a miss stores: enough different feeds, and the majority's price. *)
LEMMA FetchMakesMajorityEntry ==
    ASSUME RouterInv, FetchPrice
    PROVE  (QuorumOfDistinctFeeds /\ MajorityBracketsPrice)'
<1> DEFINE A == Answering(sources)
           sorted == insertion_sort(PricesOf(query_sources(sources)))
           n == Len(sorted)
           price == [f \in Feeds |-> feed[f].price]
<1>1. ReportsTyped /\ sources \in Seq(Feeds) /\ IsInjective(sources)
  BY DEF RouterInv, SourcesDistinct
<1>2. n > 0 /\ n >= config.min_required_sources
  BY DEF FetchPrice, CanFetch
<1>3. /\ cache'.price = sorted[1 + median_idx(n)]
      /\ basis'.config = config
      /\ basis'.reports = [s \in A |-> feed[s]]
  BY DEF FetchPrice, NewEntry, Median
<1>4. A \subseteq Feeds
  BY DEF Answering, FeedsOf
<1> HIDE DEF A, sorted, n
<1>5. /\ n \in Nat /\ IsFiniteSet(A) /\ Cardinality(A) = n
      /\ sorted \in Seq(Int) /\ Ascending(sorted)
      /\ \E w \in [1..n -> A] :
            /\ IsInjective(w)
            /\ \A i \in 1..n : sorted[i] = feed[w[i]].price
  BY <1>1, SortedFeeds DEF A, sorted, n
<1>6. PICK w \in [1..n -> A] :
            /\ IsInjective(w)
            /\ \A i \in 1..n : sorted[i] = price[w[i]]
  BY <1>4, <1>5
<1>7. DOMAIN basis'.reports = A /\ \A f \in A : basis'.reports[f].price = price[f]
  BY <1>3, <1>4
<1> HIDE DEF price
<1>8. QuorumOfDistinctFeeds'
  BY <1>2, <1>3, <1>5, <1>7 DEF QuorumOfDistinctFeeds
<1>9. ASSUME NEW H \in SUBSET A, 2 * Cardinality(H) > n
      PROVE  \E f, g \in H : /\ basis'.reports[f].price <= cache'.price
                             /\ cache'.price <= basis'.reports[g].price
  <2>1. n \in Nat \ {0} /\ Len(sorted) = n
    BY <1>2, <1>5 DEF n
  <2>2. /\ \E f \in H : price[f] <= sorted[1 + median_idx(n)]
        /\ \E g \in H : sorted[1 + median_idx(n)] <= price[g]
    BY <1>5, <1>6, <1>9, <2>1, MedianIsBracketed
  <2> QED
    BY <1>3, <1>7, <2>2
<1>10. MajorityBracketsPrice'
  BY <1>5, <1>7, <1>9 DEF MajorityBracketsPrice
<1> QED
  BY <1>8, <1>10

(* Only a miss changes the entry, only the admin the sources. *)
LEMMA EntryAndSourcesStep ==
    ASSUME RouterInv, [RouterNext]_routerVars
    PROVE  (SourcesDistinct /\ QuorumOfDistinctFeeds /\ MajorityBracketsPrice)'
<1>1. CASE FetchPrice
  <2>1. SourcesDistinct'
    BY <1>1 DEF FetchPrice, SourcesDistinct, RouterInv
  <2> QED
    BY <1>1, <2>1, FetchMakesMajorityEntry
<1>2. CASE UNCHANGED <<cache, basis>>
  <2>1. (QuorumOfDistinctFeeds /\ MajorityBracketsPrice)'
    BY <1>2 DEF RouterInv, QuorumOfDistinctFeeds, MajorityBracketsPrice
  <2>2. CASE UNCHANGED sources
    BY <2>1, <2>2 DEF RouterInv, SourcesDistinct
  <2>3. CASE \E list \in SourceLists : SetOracleSources(list)
    <3>1. PICK list \in SourceLists : SetOracleSources(list)
      BY <2>3
    <3>2. list \in Seq(Feeds)
      BY RouterAssumption
    <3>3. SourcesDistinct'
      BY <3>1, <3>2, DedupIsInjective DEF SetOracleSources, SourcesDistinct
    <3> QED
      BY <2>1, <3>3
  <2>4. UNCHANGED sources \/ \E list \in SourceLists : SetOracleSources(list)
    BY DEF RouterNext, Tick, SetPrice, ForeignReport, SetOracleConfig,
           GetCachedPrice, FetchPrice, router, routerVars, history
  <2> QED
    BY <2>2, <2>3, <2>4
<1>3. FetchPrice \/ UNCHANGED <<cache, basis>>
  BY DEF RouterNext, Tick, SetPrice, ForeignReport, SetOracleConfig, SetOracleSources,
         GetCachedPrice, router, routerVars, history
<1> QED
  BY <1>1, <1>2, <1>3

(* Every step preserves the invariant. *)
LEMMA RouterStepInv == RouterInv /\ [RouterNext]_routerVars => RouterInv'
<1> SUFFICES ASSUME RouterInv, [RouterNext]_routerVars
             PROVE  RouterInv'
  OBVIOUS
<1>0. (SourcesDistinct /\ QuorumOfDistinctFeeds /\ MajorityBracketsPrice)'
  BY EntryAndSourcesStep
<1> USE DEF RouterInv
<1>1. CASE Tick
  <2> USE DEF Tick, router
  <2>1. ThresholdsTyped' /\ ReportsTyped'
    BY <1>1 DEF ThresholdsTyped, ReportsTyped
  <2>2. EntryFromFreshReports'
    BY <1>1 DEF EntryFromFreshReports, ThresholdsTyped
  <2>3. EntryOlderThanRemoval' /\ ServedStillCached'
    BY <1>1 DEF EntryOlderThanRemoval, ServedStillCached, FeedsOf
  <2> QED
    BY <1>0, <2>1, <2>2, <2>3
<1>2. ASSUME NEW f \in OwnFeeds, NEW price \in RawPrices, SetPrice(f, price)
      PROVE  RouterInv'
  <2> USE DEF SetPrice, router, history
  <2>1. ReportsTyped'
    BY <1>2, RouterAssumption DEF ReportsTyped, ThresholdsTyped
  <2>2. ThresholdsTyped' /\ EntryFromFreshReports' /\ EntryOlderThanRemoval'
        /\ ServedStillCached'
    BY <1>2 DEF ThresholdsTyped, EntryFromFreshReports, EntryOlderThanRemoval,
                ServedStillCached, FeedsOf
  <2> QED
    BY <1>0, <2>1, <2>2
<1>3. ASSUME NEW f \in Feeds \ OwnFeeds, NEW report \in Reports \cup {None},
             ForeignReport(f, report)
      PROVE  RouterInv'
  <2> USE DEF ForeignReport, router, history
  <2>1. ReportsTyped'
    <3>1. report \in [price : RawPrices, last_update : Nat] \cup {None}
      BY RouterAssumption DEF Reports
    <3> QED
      BY <1>3, <3>1 DEF ReportsTyped
  <2>2. ThresholdsTyped' /\ EntryFromFreshReports' /\ EntryOlderThanRemoval'
        /\ ServedStillCached'
    BY <1>3 DEF ThresholdsTyped, EntryFromFreshReports, EntryOlderThanRemoval,
                ServedStillCached, FeedsOf
  <2> QED
    BY <1>0, <2>1, <2>2
<1>4. ASSUME NEW list \in SourceLists, SetOracleSources(list)
      PROVE  RouterInv'
  <2> USE DEF SetOracleSources
  <2>1. ThresholdsTyped' /\ ReportsTyped' /\ EntryFromFreshReports'
        /\ ServedStillCached'
    BY <1>4 DEF ThresholdsTyped, ReportsTyped, EntryFromFreshReports,
                ServedStillCached
  <2>2. /\ dropped' = [f \in Feeds |->
                          IF f \in FeedsOf(sources) \ FeedsOf(sources') THEN now
                          ELSE dropped[f]]
        /\ cache' = cache /\ basis' = basis /\ now \in Nat
    BY <1>4 DEF ThresholdsTyped
  <2>3. dropped' \in [Feeds -> Nat]
    BY <2>2 DEF EntryOlderThanRemoval
  <2>4. ASSUME cache # None,
               NEW f \in DOMAIN basis.reports \ FeedsOf(sources')
        PROVE  f \in Feeds /\ cache.last_update <= dropped'[f]
    <3>1. f \in Feeds
      BY <2>4 DEF EntryOlderThanRemoval, FeedsOf
    <3>2. CASE f \in FeedsOf(sources)
      BY <2>2, <2>4, <3>1, <3>2 DEF EntryFromFreshReports
    <3>3. CASE f \notin FeedsOf(sources)
      BY <2>2, <2>4, <3>1, <3>3 DEF EntryOlderThanRemoval
    <3> QED
      BY <3>2, <3>3, <3>1
  <2>5. EntryOlderThanRemoval'
    <3>1. FeedsOf(sources)' = FeedsOf(sources')
      BY DEF FeedsOf
    <3> QED
      BY <2>2, <2>3, <2>4, <3>1 DEF EntryOlderThanRemoval
  <2> QED
    BY <1>0, <2>1, <2>5
<1>5. ASSUME NEW c \in Configs, SetOracleConfig(c)
      PROVE  RouterInv'
  BY <1>0, <1>5 DEF SetOracleConfig, history, ThresholdsTyped, ReportsTyped,
              EntryFromFreshReports, EntryOlderThanRemoval, ServedStillCached,
              FeedsOf
<1>6. CASE GetCachedPrice
  BY <1>0, <1>6 DEF GetCachedPrice, CacheHit, router, ThresholdsTyped, ReportsTyped,
              EntryFromFreshReports, EntryOlderThanRemoval, ServedStillCached,
              FeedsOf
<1>7. CASE FetchPrice
  <2> USE DEF FetchPrice
  <2>1. /\ cache'.last_update = now
        /\ config \in Configs
        /\ basis'.config = config
        /\ DOMAIN basis'.reports = Answering(sources)
        /\ \A f \in Answering(sources) :
              /\ f \in FeedsOf(sources)
              /\ basis'.reports[f] = feed[f]
              /\ feed[f].last_update \in Nat
              /\ feed[f].last_update <= now
              /\ now - feed[f].last_update <= config.staleness_threshold
    BY <1>7, FetchMakesFreshEntry
  <2>2. ThresholdsTyped' /\ ReportsTyped'
    BY <1>7 DEF ThresholdsTyped, ReportsTyped
  <2>3. EntryFromFreshReports'
    BY <1>7, <2>1 DEF EntryFromFreshReports, ThresholdsTyped
  <2>4. EntryOlderThanRemoval'
    BY <1>7, <2>1 DEF EntryOlderThanRemoval, FeedsOf
  <2>5. ServedStillCached'
    <3>1. cache' # None
      BY <1>7 DEF NewEntry, None
    <3>2. now <= now + config.cache_duration
      BY <2>1, ThresholdsAreNumbers DEF ThresholdsTyped
    <3> QED
      BY <1>7, <2>1, <3>1, <3>2 DEF ServedStillCached
  <2> QED
    BY <1>0, <2>2, <2>3, <2>4, <2>5
<1>8. CASE UNCHANGED routerVars
  BY <1>0, <1>8 DEF routerVars, router, history, ThresholdsTyped, ReportsTyped,
              EntryFromFreshReports, EntryOlderThanRemoval, ServedStillCached,
              FeedsOf
<1> QED
  BY <1>1, <1>2, <1>3, <1>4, <1>5, <1>6, <1>7, <1>8 DEF RouterNext

(* The invariant holds throughout. *)
THEOREM RouterAlwaysInv == RouterSpec => []RouterInv
BY RouterInitInv, RouterStepInv, PTL DEF RouterSpec

(* Behind every cached price stand as many different feeds as were required. *)
THEOREM QuorumAlwaysDistinct == RouterSpec => []QuorumOfDistinctFeeds
<1>1. RouterInv => QuorumOfDistinctFeeds
  BY DEF RouterInv
<1> QED
  BY <1>1, RouterAlwaysInv, PTL

(* Whichever feeds lie, the answer lies between the prices of two feeds that do
   not, as long as those are more than half of the reporting ones.           *)
THEOREM MajorityAlwaysBracketsPrice == RouterSpec => []MajorityBracketsPrice
<1>1. RouterInv => MajorityBracketsPrice
  BY DEF RouterInv
<1> QED
  BY <1>1, RouterAlwaysInv, PTL

(* No answer rests on reports older than the staleness threshold at the fetch
   plus the cache duration at the answer, nor on reports from the future.    *)
THEOREM AnswersAlwaysRecent == RouterSpec => []AnswersAreRecent
<1>1. RouterInv => AnswersAreRecent
  <2> SUFFICES ASSUME RouterInv, served # None, NEW f \in DOMAIN basis.reports
               PROVE  LET age == now - basis.reports[f].last_update
                      IN  /\ age >= 0
                          /\ age <= basis.config.staleness_threshold
                                      + served.cache_duration
    BY DEF AnswersAreRecent
  <2>1. /\ now \in Nat /\ served \in Configs
        /\ now <= cache.last_update + served.cache_duration
    BY DEF RouterInv, ThresholdsTyped, ServedStillCached
  <2>2. /\ cache.last_update \in Nat /\ cache.last_update <= now
        /\ basis.config \in Configs
        /\ basis.reports[f].last_update \in Nat
        /\ basis.reports[f].last_update <= cache.last_update
        /\ cache.last_update - basis.reports[f].last_update
             <= basis.config.staleness_threshold
    BY DEF RouterInv, ServedStillCached, EntryFromFreshReports
  <2>3. /\ served.cache_duration \in Nat
        /\ basis.config.staleness_threshold \in Nat
    BY <2>1, <2>2, ThresholdsAreNumbers
  <2> QED
    BY <2>1, <2>2, <2>3
<1> QED
  BY <1>1, RouterAlwaysInv, PTL

(* A removed feed stands behind no answer later than a cache duration after its
   removal.                                                                  *)
THEOREM RemovedFeedAlwaysForgotten == RouterSpec => []RemovedFeedForgotten
<1>1. RouterInv => RemovedFeedForgotten
  <2> SUFFICES ASSUME RouterInv, served # None,
                      NEW f \in DOMAIN basis.reports \ FeedsOf(sources)
               PROVE  now <= dropped[f] + served.cache_duration
    BY DEF RemovedFeedForgotten
  <2>1. /\ now \in Nat /\ served \in Configs /\ cache # None
        /\ now <= cache.last_update + served.cache_duration
    BY DEF RouterInv, ThresholdsTyped, ServedStillCached
  <2>2. cache.last_update \in Nat
    BY <2>1 DEF RouterInv, EntryFromFreshReports
  <2>3. dropped[f] \in Nat /\ cache.last_update <= dropped[f]
    BY <2>1 DEF RouterInv, EntryOlderThanRemoval
  <2>4. served.cache_duration \in Nat
    BY <2>1, ThresholdsAreNumbers
  <2> QED
    BY <2>1, <2>2, <2>3, <2>4
<1> QED
  BY <1>1, RouterAlwaysInv, PTL

(* Under unchanged thresholds all calls of one second get one price. *)
THEOREM OnePriceEverySecond == RouterSpec => OnePriceASecond
<1>1. RouterInv /\ [RouterNext]_routerVars
        => [(served # None /\ served' = served /\ now' = now)
              => cache'.price = cache.price]_routerVars
  <2> SUFFICES ASSUME RouterInv, RouterNext, served # None, served' = served
               PROVE  cache'.price = cache.price
    OBVIOUS
  <2>1. cache # None /\ now <= cache.last_update + served.cache_duration
    BY DEF RouterInv, ServedStillCached
  <2>2. ~FetchPrice
    BY <2>1 DEF FetchPrice, CacheHit
  <2>3. cache' = cache
    BY <2>2 DEF RouterNext, Tick, SetPrice, ForeignReport, SetOracleSources,
                SetOracleConfig, GetCachedPrice, router, history
  <2> QED
    BY <2>3
<1> QED
  BY <1>1, RouterAlwaysInv, PTL DEF RouterSpec, OnePriceASecond

(***************************************************************************)
(* The publishers.                                                         *)
(***************************************************************************)

LEMMA NextTickerTyped ==
  ASSUME loop.at \in DOMAIN Tickers
  PROVE  /\ NextTicker \in [at : DOMAIN Tickers, step : {"poll", "sent", "included", "sleep"}, price : Int]
         /\ NextTicker.step \in {"poll", "sleep"}
BY PublisherAssumption DEF NextTicker

LEMMA FirstTickerTyped ==
  [at |-> 1, step |-> "poll", price |-> 0]
    \in [at : DOMAIN Tickers, step : {"poll", "sent", "included", "sleep"}, price : Int]
BY PublisherAssumption

LEMMA NoReportTyped == NoReport \in Report /\ NoReport.price = 0
BY PublisherAssumption DEF NoReport, Report

(* A record without a price is out of nobody's reach.                       *)
LEMMA WithinReachOfNone == \A a : absDeltaBps(a, 0) <= maxDeltaBpsPerTick
BY PublisherAssumption DEF absDeltaBps

(* Time leaves the prices alone, and no report but a new one is of age 0.   *)
LEMMA OlderTyped ==
  ASSUME NEW r \in Report
  PROVE  /\ Older(r) \in Report /\ Older(r).price = r.price /\ Older(r).age # 0
BY PublisherAssumption DEF Older, Report

LEMMA GivenUp ==
  ASSUME PublisherTypeOK, network' = {[tx EXCEPT !.late = TRUE] : tx \in network}
  PROVE  /\ network' \subseteq [ticker : TickerSet, price : Int, late : BOOLEAN]
         /\ \A tx \in network' : \E old \in network : tx.ticker = old.ticker /\ tx.price = old.price
<1>1. ASSUME NEW tx \in network
      PROVE  /\ [tx EXCEPT !.late = TRUE] \in [ticker : TickerSet, price : Int, late : BOOLEAN]
             /\ [tx EXCEPT !.late = TRUE].ticker = tx.ticker
             /\ [tx EXCEPT !.late = TRUE].price = tx.price
  BY DEF PublisherTypeOK
<1> QED
  BY <1>1

LEMMA PublisherInitInv == PublisherInit => PublisherInv
BY FirstTickerTyped, NoReportTyped
   DEF PublisherInit, PublisherInv, PublisherTypeOK, NothingPendingAtRecord, PendingWithinReach

(* A print is sent only within reach of the last recorded push.             *)
LEMMA DecideKeepsInv ==
  ASSUME PublisherInv, loop.step = "poll", NEW b \in Books, Decide(b),
         UNCHANGED <<book, oracle, lastPush>>
  PROVE  PublisherInv'
<1> USE DEF PublisherInv
<1> DEFINE prev == lastPush[AtTicker]
           next == scaleUsd(b)
           sent == UsableBook(b) /\ InReach(prev, next) /\ ~Throttled(prev) /\ shouldPush(prev, next)
<1>1. loop.at \in DOMAIN Tickers /\ AtTicker \in TickerSet
  BY DEF PublisherTypeOK, AtTicker, TickerSet
<1>2. next \in Int
  <2>1. b.bid \in Int /\ b.ask \in Int
    BY PublisherAssumption
  <2> QED
    BY <2>1 DEF scaleUsd
<1>3. CASE sent
  <2> DEFINE tx == [ticker |-> AtTicker, price |-> next, late |-> FALSE]
  <2>1. loop' = [loop EXCEPT !.step = "sent", !.price = next] /\ network' = network \cup {tx}
    BY <1>3 DEF Decide
  <2>2. absDeltaBps(next, prev.price) <= maxDeltaBpsPerTick
    BY <1>3, NoReportTyped, WithinReachOfNone DEF InReach
  <2> HIDE DEF next
  <2>3. PublisherTypeOK'
    <3>1. tx \in [ticker : TickerSet, price : Int, late : BOOLEAN]
      BY <1>1, <1>2
    <3>2. [loop EXCEPT !.step = "sent", !.price = next]
            \in [at : DOMAIN Tickers, step : {"poll", "sent", "included", "sleep"}, price : Int]
      BY <1>2 DEF PublisherTypeOK
    <3> QED
      BY <2>1, <3>1, <3>2 DEF PublisherTypeOK
  <2>4. NothingPendingAtRecord'
    BY <2>1 DEF NothingPendingAtRecord, PublisherTypeOK
  <2>5. PendingWithinReach'
    BY <2>1, <2>2 DEF PendingWithinReach
  <2> QED
    BY <2>3, <2>4, <2>5
<1>4. CASE ~sent
  <2>1. loop' = NextTicker /\ UNCHANGED network
    BY <1>4 DEF Decide
  <2> QED
    BY <1>1, <2>1, NextTickerTyped
       DEF PublisherTypeOK, NothingPendingAtRecord, PendingWithinReach
<1> QED
  BY <1>3, <1>4

LEMMA PublisherStepInv == PublisherInv /\ [PublisherNext]_vars => PublisherInv'
<1> SUFFICES ASSUME PublisherInv, [PublisherNext]_vars
             PROVE  PublisherInv'
  OBVIOUS
<1> USE DEF PublisherInv
<1>0. loop.at \in DOMAIN Tickers /\ AtTicker \in TickerSet
  BY DEF PublisherTypeOK, AtTicker, TickerSet
<1>1. ASSUME NEW t \in TickerSet, BookMoves(t)
      PROVE  PublisherInv'
  BY <1>1 DEF BookMoves, PublisherTypeOK, NothingPendingAtRecord, PendingWithinReach
<1>2. ASSUME NEW tx \in network, Include(tx)
      PROVE  PublisherInv'
  <2>1. [price |-> tx.price, age |-> 0] \in Report
    BY DEF PublisherTypeOK, Report
  <2>2. PublisherTypeOK'
    BY <1>2, <2>1 DEF Include, PublisherTypeOK
  <2> QED
    BY <1>2, <2>2 DEF Include, NothingPendingAtRecord, PendingWithinReach
<1>3. ASSUME NEW tx \in network, Lose(tx)
      PROVE  PublisherInv'
  BY <1>3 DEF Lose, PublisherTypeOK, NothingPendingAtRecord, PendingWithinReach
<1>4. CASE TimePasses
  <2>1. \A t \in TickerSet : lastPush'[t] = Older(lastPush[t]) /\ oracle'[t] = Older(oracle[t])
    BY <1>4 DEF TimePasses
  <2>2. PublisherTypeOK'
    BY <1>4, OlderTyped DEF TimePasses, PublisherTypeOK
  <2>3. NothingPendingAtRecord'
    BY <1>4 DEF TimePasses, NothingPendingAtRecord, PublisherTypeOK
  <2>4. PendingWithinReach'
    BY <1>4, <2>1, OlderTyped DEF TimePasses, PendingWithinReach, PublisherTypeOK
  <2> QED
    BY <2>2, <2>3, <2>4
<1>5. CASE FetchFails
  BY <1>0, <1>5, NextTickerTyped
     DEF FetchFails, PublisherTypeOK, NothingPendingAtRecord, PendingWithinReach
<1>6. CASE Poll
  <2>1. book[AtTicker] \in Books
    BY <1>0, PublisherAssumption DEF PublisherTypeOK
  <2> QED
    BY <1>6, <2>1, DecideKeepsInv DEF Poll
<1>7. CASE RoguePrint
  BY <1>7, DecideKeepsInv DEF RoguePrint
<1>8. CASE Confirm
  <2>1. network' = {}
    BY <1>8 DEF Confirm, NothingPendingAtRecord
  <2>2. [price |-> loop.price, age |-> 0] \in Report
    BY DEF PublisherTypeOK, Report
  <2>3. PublisherTypeOK'
    BY <1>0, <1>8, <2>2, NextTickerTyped DEF Confirm, PublisherTypeOK
  <2> QED
    BY <2>1, <2>3 DEF NothingPendingAtRecord, PendingWithinReach
<1>9. CASE SubmitFails
  <2>1. PublisherTypeOK'
    BY <1>0, <1>9, GivenUp, NextTickerTyped DEF SubmitFails, PublisherTypeOK
  <2>2. NothingPendingAtRecord'
    BY <1>0, <1>9, NextTickerTyped DEF SubmitFails, NothingPendingAtRecord
  <2>3. PendingWithinReach'
    BY <1>9, GivenUp DEF SubmitFails, PendingWithinReach
  <2> QED
    BY <2>1, <2>2, <2>3
<1>10. CASE Restart
  <2>1. PublisherTypeOK'
    BY <1>10, GivenUp, FirstTickerTyped, NoReportTyped DEF Restart, PublisherTypeOK
  <2>2. NothingPendingAtRecord'
    BY <1>10 DEF Restart, NothingPendingAtRecord
  <2>3. PendingWithinReach'
    BY <1>10, <2>1, NoReportTyped, WithinReachOfNone DEF Restart, PendingWithinReach, PublisherTypeOK
  <2> QED
    BY <2>1, <2>2, <2>3
<1>11. CASE UNCHANGED vars
  BY <1>11 DEF vars, PublisherTypeOK, NothingPendingAtRecord, PendingWithinReach
<1> QED
  BY <1>1, <1>2, <1>3, <1>4, <1>5, <1>6, <1>7, <1>8, <1>9, <1>10, <1>11 DEF PublisherNext

(* The inductive invariant of the publisher.                               *)
THEOREM PublisherAlwaysInv == PublisherSpec => []PublisherInv
BY PublisherInitInv, PublisherStepInv, PTL DEF PublisherSpec

(* No price lands in the oracle contract that is an outlier to the last    *)
(* push the loop has recorded for the ticker, though it may land after the *)
(* loop has given it up or gone on to other tickers.  What the contract    *)
(* held before is another matter: a push whose answer was lost is there    *)
(* without being recorded, and nothing is recorded after a restart         *)
(* (loop.ts:103-123).                                                      *)
THEOREM AlwaysLandsWithinReach == PublisherSpec => LandsWithinReach
<1> DEFINE Landing == \A t \in TickerSet :
              oracle'[t] # oracle[t] /\ oracle'[t].age = 0
                => absDeltaBps(oracle'[t].price, lastPush[t].price) <= maxDeltaBpsPerTick
<1>1. ASSUME PublisherInv, PublisherNext
      PROVE  Landing
  <2> USE DEF PublisherInv
  <2>1. ASSUME NEW tx \in network, Include(tx)
        PROVE  Landing
    <3> SUFFICES ASSUME NEW t \in TickerSet, oracle'[t] # oracle[t]
                 PROVE  absDeltaBps(oracle'[t].price, lastPush[t].price) <= maxDeltaBpsPerTick
      OBVIOUS
    <3>1. t = tx.ticker /\ oracle'[t].price = tx.price
      BY <1>1, <2>1 DEF Include, PublisherTypeOK
    <3> QED
      BY <1>1, <3>1 DEF PendingWithinReach
  <2>2. CASE TimePasses
    <3>1. \A t \in TickerSet : oracle'[t].age # 0
      BY <1>1, <2>2, OlderTyped DEF TimePasses, PublisherTypeOK
    <3> QED
      BY <3>1
  <2>3. CASE UNCHANGED oracle
    BY <2>3
  <2> QED
    BY <1>1, <2>1, <2>2, <2>3
       DEF PublisherNext, BookMoves, Lose, FetchFails, Poll, RoguePrint, Confirm, SubmitFails, Restart
<1>2. PublisherInv /\ [PublisherNext]_vars => [Landing]_vars
  BY <1>1
<1>3. [][Landing]_vars => LandsWithinReach
  BY PTL DEF LandsWithinReach
<1> QED
  BY PublisherAlwaysInv, <1>2, <1>3, PTL DEF PublisherSpec

=============================================================================
