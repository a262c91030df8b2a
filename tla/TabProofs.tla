------------------------------- MODULE TabProofs -------------------------------
(***************************************************************************)
(* Which toasts are the last word, for all accounts, streams, faults and   *)
(* orders of answers; and what the windows show, for all windows and       *)
(* lengths of the history.                                                 *)
(***************************************************************************)
EXTENDS Browser, Induction

LEMMA TabInitInv == TabInit => TabInv
<1> SUFFICES ASSUME TabInit PROVE TabInv
  OBVIOUS
<1>1. shown \in Accounts \cup {NoAccount}
  <2>1. (CHOOSE a \in Accounts : TRUE) \in Accounts
    BY TabAssumption
  <2> QED
    BY <2>1 DEF TabInit
<1>2. tx = NoTx
  BY DEF TabInit
<1> QED
  BY <1>1, <1>2 DEF TabInv, TabTypeOK, SentBeforeFate, OverBeforeToast, ToastsAreFinal, NoTx

(* What neither touches the transaction nor shows an unknown account.      *)
LEMMA ElsewhereKeepsInv ==
  ASSUME TabInv, tx' = tx, shown' \in Accounts \cup {NoAccount}
  PROVE  TabInv'
BY DEF TabInv, TabTypeOK, SentBeforeFate, OverBeforeToast, ToastsAreFinal

LEMMA WalletKeepsInv ==
  ASSUME TabInv, WalletStep
  PROVE  TabInv'
<1>1. tx' = tx
  BY DEF WalletStep, Switch, Probe, Hide, Reveal, Connect, Cancel, RequestLogon, LogOff, ShowAccount
<1>2. shown' = shown \/ shown' \in Accounts \cup {NoAccount}
  BY DEF WalletStep, Switch, Probe, Hide, Reveal, Connect, Cancel, RequestLogon, LogOff, ShowAccount
<1> QED
  BY <1>1, <1>2, ElsewhereKeepsInv DEF TabInv, TabTypeOK

(* The errors the parsers can make of a simulation and of a failed call.    *)
LEMMA ErrorsFound ==
  /\ parseSimError = {"reverted", "host"}
  /\ parseGetError = {"reverted", "host", "rejected"}
BY DEF parseSimError, parseGetError, ElseTry, parseContractError,
       extractContractErrorFromTxMeta, inferInvokeHostFunctionCode

LEMMA TraderKeepsInv ==
  ASSUME TabInv, TraderStep
  PROVE  TabInv'
<1> USE DEF TabInv
<1>0. shown' \in Accounts \cup {NoAccount}
  BY DEF TraderStep, Build, Sign, Send, Include, Mirrored, Poll, GiveUp, walletVars, TabTypeOK
<1> USE DEF TabTypeOK, SentBeforeFate, OverBeforeToast, ToastsAreFinal, Toasted
<1>1. CASE Build
  BY <1>0, <1>1, ErrorsFound DEF Build
<1>2. CASE Sign
  BY <1>0, <1>2 DEF Sign
<1>3. CASE Send
  BY <1>0, <1>3 DEF Send, parseSendError
<1>4. CASE Include
  BY <1>0, <1>4 DEF Include
<1>5. CASE Mirrored
  BY <1>0, <1>5 DEF Mirrored
<1>6. CASE Poll
  BY <1>0, <1>6, ErrorsFound DEF Poll
<1>7. CASE GiveUp
  BY <1>0, <1>7 DEF GiveUp
<1> QED
  BY <1>1, <1>2, <1>3, <1>4, <1>5, <1>6, <1>7 DEF TraderStep

(* The inductive invariant of the tab's transaction.                       *)
THEOREM TabAlwaysInv == TabSpec => []TabInv
<1>1. ASSUME TabInv, [TabNext]_tabVars
      PROVE  TabInv'
  <2>1. CASE Alone(StreamsNext) \/ UNCHANGED tabVars
    BY <1>1, <2>1, ElsewhereKeepsInv DEF Alone, tabVars, walletVars, TabInv, TabTypeOK
  <2> QED
    BY <1>1, <2>1, WalletKeepsInv, TraderKeepsInv DEF TabNext
<1> QED
  BY TabInitInv, <1>1, PTL DEF TabSpec

(* A toast that says confirmed, reverted, host failure or rejected is the  *)
(* last word on the transaction, in whatever order the ledger, the polls   *)
(* and the timeout come, whatever the windows and the wallet do meanwhile. *)
(* Not so "rejected" with the code DUPLICATE, which the network answers of *)
(* a transaction it has already and may still apply (sender.ts:40-108,     *)
(* toast.ts:44-78).                                                        *)
THEOREM ToastsAlwaysFinal == BrowserSpec => []ToastsAreFinal
<1>1. BrowserInit => TabInit
  BY DEF BrowserInit
<1>2. [BrowserNext]_browserVars => [TabNext]_tabVars
  BY DEF BrowserNext, browserVars
<1>3. BrowserSpec => TabSpec
  BY <1>1, <1>2, PTL DEF BrowserSpec, TabSpec
<1>4. TabInv => ToastsAreFinal
  BY DEF TabInv
<1> QED
  BY <1>3, <1>4, TabAlwaysInv, PTL

(***************************************************************************)
(* The lists the window manager filters.                                   *)
(***************************************************************************)

(* What appending does. *)
LEMMA Appending ==
  ASSUME NEW T, NEW s \in Seq(T), NEW x \in T
  PROVE  /\ Append(s, x) \in Seq(T) /\ Len(Append(s, x)) = Len(s) + 1
         /\ \A i \in 1..Len(s) : Append(s, x)[i] = s[i]
         /\ Append(s, x)[Len(s) + 1] = x
         /\ Len(s) \in Nat
OBVIOUS

LEMMA ToSetAppend ==
  ASSUME NEW T, NEW s \in Seq(T), NEW x \in T
  PROVE  /\ ToSet(Append(s, x)) = ToSet(s) \cup {x}
         /\ IsInjective(s) /\ x \notin ToSet(s) => IsInjective(Append(s, x))
         /\ Append(s, x) # <<>> /\ Last(Append(s, x)) = x
<1> DEFINE t == Append(s, x)
           n == Len(s)
<1>1. /\ t \in Seq(T) /\ Len(t) = n + 1 /\ t[n + 1] = x /\ n \in Nat
      /\ \A i \in 1..n : t[i] = s[i]
      /\ DOMAIN s = 1..n /\ DOMAIN t = 1..(n + 1)
  BY Appending
<1> HIDE DEF t, n
<1>2. ToSet(t) = ToSet(s) \cup {x}
  <2>1. \A i \in 1..(n + 1) : i \in 1..n \/ i = n + 1
    BY <1>1
  <2>2. \A i \in 1..n : i \in 1..(n + 1)
    BY <1>1
  <2>3. n + 1 \in 1..(n + 1)
    BY <1>1
  <2> QED
    BY <1>1, <2>1, <2>2, <2>3 DEF ToSet
<1>3. ASSUME IsInjective(s), x \notin ToSet(s), NEW i \in 1..(n + 1), NEW j \in 1..(n + 1), t[i] = t[j]
      PROVE  i = j
  <2>1. \A k \in 1..(n + 1) : k \in 1..n \/ k = n + 1
    BY <1>1
  <2>2. \A k \in 1..n : s[k] # x
    BY <1>1, <1>3 DEF ToSet
  <2> QED
    BY <1>1, <1>3, <2>1, <2>2 DEF IsInjective
<1>4. t # <<>> /\ Last(t) = x
  BY <1>1 DEF Last
<1> QED
  BY <1>1, <1>2, <1>3, <1>4 DEF t, IsInjective

(* The filter goes through the list from its start. *)
LEMMA OnlyIsBuiltUp ==
  ASSUME NEW T, NEW s \in Seq(T), NEW S
  PROVE  \E h \in [0..Len(s) -> Seq(T)] :
            /\ h[0] = <<>>
            /\ \A i \in 1..Len(s) : h[i] = Kept(h[i - 1], s[i], S)
            /\ Only(s, S) = h[Len(s)]
<1> DEFINE n == Len(s)
           D == Seq(T)
           F == [p \in (1..n) \X D |-> Kept(p[2], s[p[1]], S)]
           Iter(g) == g = [u \in SUBSET (1..n) |->
                              IF u = {} THEN <<>> ELSE Kept(g[u \ {Max(u)}], s[Max(u)], S)]
           f == CHOOSE g : Iter(g)
<1>1. \A i \in 1..n, d \in D : Kept(d, s[i], S) \in D /\ F[<<i, d>>] = Kept(d, s[i], S)
  BY DEF Kept
<1>2. n \in Nat /\ DOMAIN s = 1..n /\ LeftFold(n, D, <<>>, F)
  <2>1. n \in Nat /\ DOMAIN s = 1..n /\ <<>> \in D
    OBVIOUS
  <2> HIDE DEF n, D, F
  <2> QED
    BY <1>1, <2>1 DEF LeftFold
<1>3. Only(s, S) = f[1..n]
  BY <1>2 DEF Only, FoldLeft, MapThenFoldSet, Kept
<1> HIDE DEF n, D, F
<1>4. Iter(f)
  <2>1. PICK g \in [SUBSET (1..n) -> D] :
            /\ Accumulates(g, n, D, <<>>, F)
            /\ \A u \in SUBSET (1..n) :
                  u # {} => Max(u) \in u /\ u \ {Max(u)} \in SUBSET (1..n)
    BY <1>2, FoldExists
  <2>2. Iter(g)
    BY <1>1, <2>1 DEF Accumulates
  <2> HIDE DEF Iter
  <2> QED
    BY <2>2
<1> HIDE DEF f
<1>5. Accumulates(f, n, D, <<>>, F)
  <2>1. \A u \in SUBSET (1..n) : u # {} => Max(u) \in 1..n
    BY <1>2, LargestExists
  <2> QED
    BY <1>1, <1>4, <2>1 DEF Accumulates
<1>6. PICK h : FoldPrefixes(h, n, D, <<>>, F) /\ h[n] = f[1..n]
  BY <1>2, <1>5, FoldHasPrefixes
<1>7. \A i \in 1..n : h[i - 1] \in D /\ h[i] = Kept(h[i - 1], s[i], S)
  <2>1. \A i \in 1..n : i - 1 \in 0..n
    BY <1>2
  <2> QED
    BY <1>1, <1>6, <2>1 DEF FoldPrefixes
<1> QED
  BY <1>3, <1>6, <1>7 DEF FoldPrefixes, n, D

(* Whatever is built up that way is what the filter gives. *)
LEMMA OnlyIs ==
  ASSUME NEW T, NEW s \in Seq(T), NEW S, NEW g, g[0] = <<>>,
         \A i \in 1..Len(s) : g[i] = Kept(g[i - 1], s[i], S)
  PROVE  Only(s, S) = g[Len(s)]
<1>1. PICK h : /\ h[0] = <<>>
               /\ \A i \in 1..Len(s) : h[i] = Kept(h[i - 1], s[i], S)
               /\ Only(s, S) = h[Len(s)]
  BY OnlyIsBuiltUp
<1> DEFINE n == Len(s)
           X == {i \in 0..n : g[i] = h[i]}
<1>2. n \in Nat
  OBVIOUS
<1>3. 0 \in X
  BY <1>1, <1>2
<1>4. ASSUME NEW i \in 1..n, i - 1 \in X
      PROVE  i \in X
  BY <1>1, <1>2, <1>4
<1>5. 0..n \subseteq X
  <2> HIDE DEF X, n
  <2> QED
    BY <1>2, <1>3, <1>4, IntervalInduction
<1> QED
  BY <1>1, <1>2, <1>5

(* It gives the members of S, each as often as the list has it or less. *)
LEMMA OnlyKeeps ==
  ASSUME NEW T, NEW s \in Seq(T), NEW S
  PROVE  /\ Only(s, S) \in Seq(T) /\ Only(s, S) \in Seq(T \cap S)
         /\ ToSet(Only(s, S)) = ToSet(s) \cap S
         /\ IsInjective(s) => IsInjective(Only(s, S))
<1> DEFINE R == T \cap S
           n == Len(s)
<1>1. PICK h \in [0..n -> Seq(T)] :
               /\ h[0] = <<>>
               /\ \A i \in 1..n : h[i] = Kept(h[i - 1], s[i], S)
               /\ Only(s, S) = h[n]
  BY OnlyIsBuiltUp
<1> DEFINE Up(i) == {s[k] : k \in 1..i}
           P(i) == /\ h[i] \in Seq(R) /\ ToSet(h[i]) = Up(i) \cap S
                   /\ IsInjective(s) => IsInjective(h[i])
           X == {i \in 0..n : P(i)}
<1>2. n \in Nat /\ DOMAIN s = 1..n /\ \A i \in 1..n : s[i] \in T
  OBVIOUS
<1> HIDE DEF n
<1>3. 0 \in X
  <2>1. <<>> \in Seq(R) /\ ToSet(<<>>) = {} /\ IsInjective(<<>>)
    BY DEF ToSet, IsInjective
  <2>2. Up(0) = {} /\ 0 \in 0..n
    BY <1>2
  <2> QED
    BY <1>1, <2>1, <2>2
<1>4. ASSUME NEW i \in 1..n, i - 1 \in X
      PROVE  i \in X
  <2>1. i \in 0..n /\ i - 1 \in 0..n /\ P(i - 1) /\ h[i] = Kept(h[i - 1], s[i], S)
    <3> HIDE DEF P
    <3>1. P(i - 1)
      BY <1>4
    <3> QED
      BY <1>1, <1>2, <3>1
  <2>2. Up(i) = Up(i - 1) \cup {s[i]}
    <3>1. \A k : k \in 1..i <=> (k \in 1..(i - 1) \/ k = i)
      BY <1>2
    <3> QED
      BY <3>1
  <2>3. CASE s[i] \in S
    <3>1. h[i] = Append(h[i - 1], s[i]) /\ s[i] \in R
      BY <1>2, <2>1, <2>3 DEF Kept
    <3>2. IsInjective(s) => s[i] \notin Up(i - 1)
      <4>1. \A k \in 1..(i - 1) : k \in 1..n /\ k # i
        BY <1>2
      <4> QED
        BY <1>2, <4>1 DEF IsInjective
    <3> HIDE DEF Up, R
    <3>3. h[i] \in Seq(R) /\ ToSet(h[i]) = ToSet(h[i - 1]) \cup {s[i]}
      BY <2>1, <3>1, Appending, ToSetAppend
    <3>4. IsInjective(s) => IsInjective(h[i])
      BY <2>1, <3>1, <3>2, ToSetAppend
    <3> QED
      BY <2>1, <2>2, <2>3, <3>3, <3>4
  <2>4. CASE s[i] \notin S
    <3>1. h[i] = h[i - 1]
      BY <2>1, <2>4 DEF Kept
    <3> HIDE DEF Up, R
    <3> QED
      BY <2>1, <2>2, <2>4, <3>1
  <2> QED
    BY <2>3, <2>4
<1>5. 0..n \subseteq X
  <2> HIDE DEF X
  <2> QED
    BY <1>2, <1>3, <1>4, IntervalInduction
<1>6. P(n)
  BY <1>2, <1>5
<1>7. Up(n) = ToSet(s)
  BY <1>2 DEF ToSet
<1> QED
  BY <1>1, <1>2, <1>6, <1>7

(* It only matters which entries of the list are members. *)
LEMMA OnlySame ==
  ASSUME NEW T, NEW s \in Seq(T), NEW S, NEW S2, ToSet(s) \cap S = ToSet(s) \cap S2
  PROVE  Only(s, S) = Only(s, S2)
<1>1. PICK h : /\ h[0] = <<>>
               /\ \A i \in 1..Len(s) : h[i] = Kept(h[i - 1], s[i], S2)
               /\ Only(s, S2) = h[Len(s)]
  BY OnlyIsBuiltUp
<1>2. \A i \in 1..Len(s) : s[i] \in S <=> s[i] \in S2
  BY DEF ToSet
<1>3. \A i \in 1..Len(s) : h[i] = Kept(h[i - 1], s[i], S)
  BY <1>1, <1>2 DEF Kept
<1> QED
  BY <1>1, <1>3, OnlyIs

LEMMA OnlyAll ==
  ASSUME NEW T, NEW s \in Seq(T), ToSet(s) \subseteq T
  PROVE  Only(s, T) = s
<1> DEFINE n == Len(s)
           g == [i \in 0..n |-> SubSeq(s, 1, i)]
<1>1. n \in Nat /\ g[0] = <<>> /\ g[n] = s
  OBVIOUS
<1>2. ASSUME NEW i \in 1..n
      PROVE  g[i] = Kept(g[i - 1], s[i], T)
  <2>1. s[i] \in T /\ i \in 0..n /\ i - 1 \in 0..n
    BY <1>1
  <2>2. SubSeq(s, 1, i) = Append(SubSeq(s, 1, i - 1), s[i])
    BY <1>1
  <2> QED
    BY <2>1, <2>2 DEF Kept
<1> HIDE DEF g
<1>3. Only(s, T) = g[n]
  BY <1>1, <1>2, OnlyIs
<1> QED
  BY <1>1, <1>3

LEMMA OnlyAppend ==
  ASSUME NEW T, NEW s \in Seq(T), NEW x \in T, NEW S
  PROVE  Only(Append(s, x), S) = Kept(Only(s, S), x, S)
<1> DEFINE t == Append(s, x)
           n == Len(s)
<1>1. t \in Seq(T) /\ Len(t) = n + 1 /\ t[n + 1] = x /\ n \in Nat /\ \A i \in 1..n : t[i] = s[i]
  BY Appending
<1> HIDE DEF t
<1>2. PICK h : /\ h[0] = <<>>
               /\ \A i \in 1..Len(t) : h[i] = Kept(h[i - 1], t[i], S)
               /\ Only(t, S) = h[Len(t)]
  BY <1>1, OnlyIsBuiltUp
<1>3. \A i \in 1..n : h[i] = Kept(h[i - 1], s[i], S)
  BY <1>1, <1>2
<1>4. Only(s, S) = h[n]
  BY <1>2, <1>3, OnlyIs
<1>5. h[n + 1] = Kept(h[n], x, S)
  <2>1. n + 1 \in 1..Len(t) /\ (n + 1) - 1 = n
    BY <1>1
  <2> QED
    BY <1>1, <1>2, <2>1
<1> QED
  BY <1>1, <1>2, <1>4, <1>5 DEF t

(***************************************************************************)
(* What the operations make of the history and of what is on top.          *)
(***************************************************************************)

LEMMA ParsedKeeps ==
  ASSUME NEW w \in Seq(Windows \cup {Junk})
  PROVE  /\ Parsed(w) \in Seq(Windows)
         /\ IsInjective(w) => IsInjective(Parsed(w))
<1> DEFINE T == Windows \cup {Junk}
<1>1. T \cap Windows = Windows
  OBVIOUS
<1> HIDE DEF T
<1>2. w \in Seq(T)
  BY DEF T
<1>3. Only(w, Windows) \in Seq(T \cap Windows) /\ (IsInjective(w) => IsInjective(Only(w, Windows)))
  BY <1>2, OnlyKeeps, Zenon
<1> QED
  BY <1>1, <1>3 DEF Parsed

LEMMA ParsedWindows ==
  ASSUME NEW w \in Seq(Windows)
  PROVE  Parsed(w) = w /\ w \in Seq(Windows \cup {Junk}) /\ ToSet(w) \subseteq Windows
<1>1. ToSet(w) \subseteq Windows
  BY DEF ToSet
<1>2. Only(w, Windows) = w
  BY <1>1, OnlyAll
<1> QED
  BY <1>1, <1>2 DEF Parsed

LEMMA RaisedKeeps ==
  ASSUME DesktopTypeOK, NEW id \in ToSet(ids)
  PROVE  /\ id \in Windows /\ Without(id) \in Seq(Windows)
         /\ Raised(id) \in Seq(Windows) /\ IsInjective(Raised(id))
         /\ ToSet(Raised(id)) = ToSet(ids)
<1>1. ids \in Seq(Windows) /\ IsInjective(ids) /\ id \in Windows
  BY DEF DesktopTypeOK, ToSet
<1> DEFINE S == ToSet(ids) \ {id}
           front == Only(ids, S)
<1>2. front \in Seq(Windows) /\ ToSet(front) = ToSet(ids) \cap S /\ IsInjective(front)
  BY <1>1, OnlyKeeps
<1>3. id \notin ToSet(front) /\ ToSet(front) \cup {id} = ToSet(ids)
  BY <1>2
<1> HIDE DEF front
<1>4. Append(front, id) \in Seq(Windows)
  BY <1>1, <1>2, Appending
<1>5. IsInjective(Append(front, id)) /\ ToSet(Append(front, id)) = ToSet(front) \cup {id}
  BY <1>1, <1>2, <1>3, ToSetAppend
<1> QED
  BY <1>1, <1>2, <1>3, <1>4, <1>5 DEF Raised, Without, front

LEMMA WithoutKeeps ==
  ASSUME DesktopTypeOK, NEW id \in ToSet(ids)
  PROVE  /\ id \in Windows /\ Without(id) \in Seq(Windows) /\ IsInjective(Without(id))
         /\ Difference(ids, Without(id)) = {id}
<1>1. ids \in Seq(Windows) /\ IsInjective(ids) /\ id \in Windows
  BY DEF DesktopTypeOK, ToSet
<1> DEFINE S == ToSet(ids) \ {id}
           front == Only(ids, S)
<1>2. front \in Seq(Windows) /\ ToSet(front) = ToSet(ids) \cap S /\ IsInjective(front)
  BY <1>1, OnlyKeeps
<1>3. (ToSet(ids) \ ToSet(front)) \cup (ToSet(front) \ ToSet(ids)) = {id}
  BY <1>2
<1> QED
  BY <1>1, <1>2, <1>3 DEF Without, Difference

(* A window that is not minimized and last in a link is on top. *)
LEMMA LastIsOnTop ==
  ASSUME NEW front \in Seq(Windows), NEW id \in Windows, NEW marks, ~marks[id].minimized
  PROVE  OnTop(Append(front, id), marks, id)
<1> DEFINE S == {x \in Windows : ~marks[x].minimized}
           seen == Only(front, S)
<1>1. Parsed(Append(front, id)) = Append(front, id)
  BY Appending, ParsedWindows
<1>2. id \in S
  OBVIOUS
<1> HIDE DEF S
<1>3. Only(Append(front, id), S) = Append(seen, id)
  BY <1>2, OnlyAppend DEF Kept
<1>4. seen \in Seq(Windows)
  BY OnlyKeeps
<1> HIDE DEF seen
<1>5. Append(seen, id) # <<>> /\ Last(Append(seen, id)) = id
  BY <1>4, ToSetAppend
<1> QED
  BY <1>1, <1>3, <1>5 DEF OnTop, S

(* The history is sound: what the type invariant and BackUndoesOneWindow say of it. *)
HistoryOK ==
  /\ entries \in Seq(Seq(Windows \cup {Junk})) /\ at \in 1..Len(entries)
  /\ BackUndoesOneWindow

LEMMA HistoryStays ==
  ASSUME HistoryOK, UNCHANGED <<entries, at>>, overtaken => overtaken'
  PROVE  HistoryOK'
BY DEF HistoryOK, BackUndoesOneWindow

LEMMA NavigateKeeps ==
  ASSUME DesktopTypeOK, HistoryOK, NEW next \in Seq(Windows), IsInjective(next),
         NEW id \in Windows, Difference(ids, next) = {id}, Navigate(next), Navigated
  PROVE  HistoryOK' /\ entries'[at'] = next
<1>1. CASE next = entries[at]
  <2>1. UNCHANGED <<entries, at>> /\ (overtaken => overtaken')
    BY <1>1 DEF Navigate, Navigated
  <2> QED
    BY <1>1, <2>1, HistoryStays
<1>2. CASE next # entries[at]
  <2> DEFINE T == Seq(Windows \cup {Junk})
             back == SubSeq(entries, 1, at)
             es == Append(back, next)
  <2>1. /\ entries \in Seq(T) /\ at \in 1..Len(entries) /\ next \in T /\ Parsed(next) = next
        /\ Len(entries) \in Nat
    BY ParsedWindows DEF HistoryOK
  <2>2. entries' = es /\ at' = at + 1
    BY <1>2 DEF Navigate
  <2> HIDE DEF T
  <2>3. back \in Seq(T) /\ Len(back) = at /\ \A i \in 1..at : back[i] = entries[i]
    BY <2>1
  <2> HIDE DEF back
  <2>4. /\ es \in Seq(T) /\ Len(es) = at + 1 /\ es[at + 1] = next
        /\ \A i \in 1..at : es[i] = entries[i]
    BY <2>1, <2>3, Appending
  <2> HIDE DEF es
  <2>5. \A i \in DOMAIN es : IsInjective(es[i])
    <3>1. \A i \in 1..(at + 1) : i = at + 1 \/ (i \in 1..at /\ i \in 1..Len(entries))
      BY <2>1
    <3>2. DOMAIN es = 1..(at + 1) /\ DOMAIN entries = 1..Len(entries)
      BY <2>1, <2>4
    <3> QED
      BY <2>4, <3>1, <3>2 DEF HistoryOK, BackUndoesOneWindow
  <2>6. ASSUME ~overtaken', NEW i \in 1..(Len(es) - 1)
        PROVE  \E x \in Windows : Difference(Parsed(es[i]), Parsed(es[i + 1])) = {x}
    <3>1. ~overtaken /\ Parsed(entries[at]) = ids
      BY <2>6 DEF Navigated, Fresh
    <3>2. CASE i = at
      <4>1. es[i] = entries[at] /\ es[i + 1] = next
        BY <2>1, <2>4, <3>2
      <4> QED
        BY <2>1, <3>1, <4>1
    <3>3. CASE i # at
      <4>1. i \in 1..at /\ i + 1 \in 1..at /\ i \in 1..(Len(entries) - 1)
        BY <2>1, <2>4, <3>3
      <4>2. es[i] = entries[i] /\ es[i + 1] = entries[i + 1]
        BY <2>4, <4>1
      <4> QED
        BY <3>1, <4>1, <4>2 DEF HistoryOK, BackUndoesOneWindow
    <3> QED
      BY <3>2, <3>3
  <2>7. at' \in 1..Len(es) /\ es[at'] = next
    BY <2>1, <2>2, <2>4
  <2> QED
    BY <2>2, <2>4, <2>5, <2>6, <2>7 DEF HistoryOK, BackUndoesOneWindow, T
<1> QED
  BY <1>1, <1>2

(* A focus changes no set of windows. *)
LEMMA RaiseKeeps ==
  ASSUME DesktopTypeOK, HistoryOK, NEW id \in ToSet(ids), Raise(id), Navigated
  PROVE  HistoryOK'
<1>1. CASE Last(ids) = id
  <2>1. UNCHANGED <<entries, at>> /\ (overtaken => overtaken')
    BY <1>1 DEF Raise, Navigated
  <2> QED
    BY <2>1, HistoryStays
<1>2. CASE Last(ids) # id
  <2> DEFINE T == Seq(Windows \cup {Junk})
             next == Raised(id)
             es == [entries EXCEPT ![at] = next]
  <2>1. /\ next \in T /\ Parsed(next) = next /\ IsInjective(next) /\ ToSet(next) = ToSet(ids)
    BY RaisedKeeps, ParsedWindows
  <2>2. entries' = es /\ at' = at
    BY <1>2 DEF Raise, Replace
  <2> HIDE DEF T, next
  <2>3. entries \in Seq(T) /\ at \in 1..Len(entries) /\ Len(entries) \in Nat
    BY DEF HistoryOK, T
  <2>4. /\ es \in Seq(T) /\ Len(es) = Len(entries) /\ DOMAIN es = DOMAIN entries
        /\ \A i \in 1..Len(entries) : es[i] = IF i = at THEN next ELSE entries[i]
    BY <2>1, <2>3
  <2> HIDE DEF es
  <2>5. \A i \in DOMAIN es : IsInjective(es[i])
    <3>1. DOMAIN entries = 1..Len(entries)
      BY <2>3
    <3> QED
      BY <2>1, <2>4, <3>1 DEF HistoryOK, BackUndoesOneWindow
  <2>6. ASSUME ~overtaken', NEW i \in 1..(Len(es) - 1)
        PROVE  \E x \in Windows : Difference(Parsed(es[i]), Parsed(es[i + 1])) = {x}
    <3>1. ~overtaken /\ Parsed(entries[at]) = ids
      BY <2>6 DEF Navigated, Fresh
    <3>2. \A k \in 1..Len(entries) : ToSet(Parsed(es[k])) = ToSet(Parsed(entries[k]))
      BY <2>1, <2>4, <3>1
    <3>3. i \in 1..Len(entries) /\ i + 1 \in 1..Len(entries) /\ i \in 1..(Len(entries) - 1)
      BY <2>3, <2>4
    <3>4. Difference(Parsed(es[i]), Parsed(es[i + 1]))
            = Difference(Parsed(entries[i]), Parsed(entries[i + 1]))
      BY <3>2, <3>3 DEF Difference
    <3> QED
      BY <3>1, <3>3, <3>4 DEF HistoryOK, BackUndoesOneWindow
  <2> QED
    BY <2>2, <2>3, <2>4, <2>5, <2>6 DEF HistoryOK, BackUndoesOneWindow, T
<1> QED
  BY <1>1, <1>2

(* What was raised, and is not minimized, is on top of the link. *)
LEMMA RaiseShows ==
  ASSUME DesktopTypeOK, Fresh, NEW id \in ToSet(ids), Raise(id), NEW marks, ~marks[id].minimized
  PROVE  OnTop(entries'[at'], marks, id)
<1>1. CASE Last(ids) = id
  <2> DEFINE n == Len(ids)
             front == SubSeq(ids, 1, n - 1)
  <2>1. ids \in Seq(Windows) /\ id \in Windows /\ n \in Nat /\ n # 0
    BY DEF DesktopTypeOK, ToSet
  <2>2. front \in Seq(Windows) /\ ids = Append(front, ids[n])
    BY <2>1
  <2>3. ids = Append(front, id)
    BY <1>1, <2>2 DEF Last
  <2> HIDE DEF front
  <2>4. OnTop(ids, marks, id)
    BY <2>1, <2>2, <2>3, LastIsOnTop
  <2>5. Parsed(ids) = ids
    BY <2>1, ParsedWindows
  <2>6. Parsed(entries'[at']) = ids
    BY <1>1 DEF Raise, Fresh
  <2> QED
    BY <2>4, <2>5, <2>6 DEF OnTop
<1>2. CASE Last(ids) # id
  <2>1. entries'[at'] = Append(Without(id), id)
    BY <1>2 DEF Raise, Replace, Raised, DesktopTypeOK
  <2>2. Without(id) \in Seq(Windows) /\ id \in Windows
    BY RaisedKeeps
  <2> HIDE DEF Without
  <2> QED
    BY <2>1, <2>2, LastIsOnTop
<1> QED
  BY <1>1, <1>2

(***************************************************************************)
(* What the user does.                                                     *)
(***************************************************************************)

(* A focus, by whatever event, and whatever it does to the maximized flag. *)
LEMMA FocusInv ==
  ASSUME DesktopInv, NEW id \in ToSet(ids), Raise(id), Asks(id), Navigated, UNCHANGED ids,
         flags' \in [Windows -> [minimized : BOOLEAN, maximized : BOOLEAN]],
         ~flags'[id].minimized
  PROVE  DesktopInv'
<1>1. HistoryOK'
  BY RaiseKeeps DEF DesktopInv, DesktopTypeOK, HistoryOK
<1>2. AskedOnTop'
  <2> SUFFICES ASSUME asked' # None
               PROVE  OnTop(entries'[at'], flags', asked')
    BY DEF AskedOnTop
  <2>1. Fresh /\ asked' = id
    BY DEF Asks
  <2> QED
    BY <2>1, RaiseShows DEF DesktopInv
<1> QED
  BY <1>1, <1>2 DEF DesktopInv, DesktopTypeOK, HistoryOK

LEMMA OpenInv ==
  ASSUME DesktopInv, NEW id \in Windows, open(id), Asks(id), Navigated, UNCHANGED ids
  PROVE  DesktopInv'
<1>1. /\ Restored(id) \in [Windows -> [minimized : BOOLEAN, maximized : BOOLEAN]]
      /\ ~Restored(id)[id].minimized
  BY DEF Restored, DesktopInv, DesktopTypeOK
<1>2. CASE id \in ToSet(ids)
  BY <1>1, <1>2, FocusInv DEF open, focus
<1>3. CASE id \notin ToSet(ids)
  <2> DEFINE next == Append(ids, id)
  <2>1. ids \in Seq(Windows) /\ IsInjective(ids)
    BY DEF DesktopInv, DesktopTypeOK
  <2>2. Navigate(next) /\ flags' = Restored(id)
    BY <1>3 DEF open
  <2>3. next \in Seq(Windows) /\ IsInjective(next) /\ ToSet(next) = ToSet(ids) \cup {id}
    BY <1>3, <2>1, Appending, ToSetAppend
  <2> HIDE DEF next
  <2>4. Difference(ids, next) = {id}
    BY <1>3, <2>3 DEF Difference
  <2>5. HistoryOK' /\ entries'[at'] = next
    BY <2>2, <2>3, <2>4, NavigateKeeps DEF DesktopInv, DesktopTypeOK, HistoryOK
  <2>6. OnTop(next, Restored(id), id)
    BY <1>1, <2>1, LastIsOnTop DEF next
  <2>7. AskedOnTop'
    <3> SUFFICES ASSUME asked' # None
                 PROVE  OnTop(entries'[at'], flags', asked')
      BY DEF AskedOnTop
    <3>1. asked' = id
      BY DEF Asks
    <3> QED
      BY <2>2, <2>5, <2>6, <3>1
  <2> QED
    BY <1>1, <2>1, <2>2, <2>5, <2>7 DEF DesktopInv, DesktopTypeOK, HistoryOK
<1> QED
  BY <1>2, <1>3

(* A step that asks for no window and leaves the links alone. *)
LEMMA QuietInv ==
  ASSUME DesktopInv, UNCHANGED <<entries, overtaken>>, at' \in 1..Len(entries),
         ids' \in Seq(Windows), IsInjective(ids'),
         flags' \in [Windows -> [minimized : BOOLEAN, maximized : BOOLEAN]], asked' = None
  PROVE  DesktopInv'
<1>1. BackUndoesOneWindow'
  BY DEF DesktopInv, BackUndoesOneWindow
<1>2. AskedOnTop'
  BY DEF AskedOnTop
<1> QED
  BY <1>1, <1>2 DEF DesktopInv, DesktopTypeOK

LEMMA CloseInv ==
  ASSUME DesktopInv, NEW id, Close(id)
  PROVE  DesktopInv'
<1>1. id \in ToSet(ids)
  BY DEF Close, Shown
<1>2. /\ id \in Windows /\ Without(id) \in Seq(Windows) /\ IsInjective(Without(id))
      /\ Difference(ids, Without(id)) = {id}
  BY <1>1, WithoutKeeps DEF DesktopInv
<1>3. Navigate(Without(id)) /\ Navigated /\ ids' = ids /\ asked' = None
  BY DEF Close, close
<1> HIDE DEF Without
<1>4. HistoryOK'
  BY <1>2, <1>3, NavigateKeeps DEF DesktopInv, DesktopTypeOK, HistoryOK
<1>5. flags' \in [Windows -> [minimized : BOOLEAN, maximized : BOOLEAN]]
  BY <1>2 DEF Close, close, NoFlags, DesktopInv, DesktopTypeOK
<1>6. AskedOnTop'
  BY <1>3 DEF AskedOnTop
<1> QED
  BY <1>3, <1>4, <1>5, <1>6 DEF DesktopInv, DesktopTypeOK, HistoryOK

(* What the components call focused is on top of the link they have rendered. *)
LEMMA FocusedIsOnTop ==
  ASSUME DesktopTypeOK, Fresh
  PROVE  /\ \A id : OnTop(entries[at], flags, id) => focusedId = id
         /\ \A id \in Shown : focusedId = id => OnTop(entries[at], flags, id)
<1> DEFINE S == {x \in Windows : ~flags[x].minimized}
           seen == Only(ids, S)
<1>1. ids \in Seq(Windows) /\ Parsed(entries[at]) = ids /\ ToSet(ids) \subseteq Windows
  BY DEF DesktopTypeOK, Fresh, ToSet
<1>2. Only(ids, Shown) = seen
  <2>1. ToSet(ids) \cap Shown = ToSet(ids) \cap S
    BY <1>1 DEF Shown
  <2> HIDE DEF S
  <2> QED
    BY <1>1, <2>1, OnlySame
<1>3. \A id \in Shown : seen # <<>>
  <2>1. ToSet(seen) = ToSet(ids) \cap S
    <3> HIDE DEF S
    <3> QED
      BY <1>1, OnlyKeeps
  <2>2. \A id \in Shown : id \in ToSet(seen)
    BY <1>1, <2>1 DEF Shown
  <2>3. ToSet(<<>>) = {}
    BY DEF ToSet
  <2> HIDE DEF seen
  <2> QED
    BY <2>2, <2>3
<1>4. \A id : OnTop(entries[at], flags, id) <=> (seen # <<>> /\ Last(seen) = id)
  BY <1>1 DEF OnTop
<1>5. focusedId = IF seen = <<>> THEN None ELSE Last(seen)
  BY <1>2 DEF focusedId
<1> HIDE DEF seen, Shown, focusedId, OnTop
<1> QED
  BY <1>3, <1>4, <1>5

LEMMA PressInv ==
  ASSUME DesktopInv, NEW id, Press(id)
  PROVE  DesktopInv'
<1>1. id \in ToSet(ids) /\ id \in Windows /\ id \in Shown
  BY DEF Press, Shown, DesktopInv, DesktopTypeOK, ToSet
<1>2. CASE focusedId = id
  <2>1. UNCHANGED <<entries, at, flags, ids>> /\ Asks(id) /\ Navigated
    BY <1>2 DEF Press
  <2>2. HistoryOK'
    BY <2>1, HistoryStays DEF Navigated, DesktopInv, DesktopTypeOK, HistoryOK
  <2>3. AskedOnTop'
    <3> SUFFICES ASSUME asked' # None
                 PROVE  OnTop(entries'[at'], flags', asked')
      BY DEF AskedOnTop
    <3>1. Fresh /\ asked' = id
      BY <2>1 DEF Asks
    <3>2. OnTop(entries[at], flags, id)
      BY <1>1, <1>2, <3>1, FocusedIsOnTop DEF DesktopInv
    <3> QED
      BY <2>1, <3>1, <3>2
  <2> QED
    BY <2>1, <2>2, <2>3 DEF DesktopInv, DesktopTypeOK, HistoryOK
<1>3. CASE focusedId # id
  <2>1. focus(id) /\ Asks(id) /\ Navigated /\ ids' = ids
    BY <1>3 DEF Press
  <2>2. /\ Restored(id) \in [Windows -> [minimized : BOOLEAN, maximized : BOOLEAN]]
        /\ ~Restored(id)[id].minimized
    BY <1>1 DEF Restored, DesktopInv, DesktopTypeOK
  <2> QED
    BY <1>1, <2>1, <2>2, FocusInv DEF focus
<1> QED
  BY <1>2, <1>3

LEMMA MaximizeInv ==
  ASSUME DesktopInv, NEW id, Maximize(id)
  PROVE  DesktopInv'
<1>1. id \in ToSet(ids) /\ id \in Windows
  BY DEF Maximize, Shown, DesktopInv, DesktopTypeOK, ToSet
<1>2. Raise(id) /\ Asks(id) /\ Navigated /\ ids' = ids
  BY DEF Maximize, toggleMaximize
<1>3. /\ flags' \in [Windows -> [minimized : BOOLEAN, maximized : BOOLEAN]]
      /\ ~flags'[id].minimized
  BY <1>1 DEF Maximize, toggleMaximize, DesktopInv, DesktopTypeOK
<1> QED
  BY <1>1, <1>2, <1>3, FocusInv

LEMMA MinimizedInv ==
  ASSUME DesktopInv, NEW id \in ToSet(ids), minimize(id), asked' = None,
         UNCHANGED <<ids, overtaken>>
  PROVE  DesktopInv'
<1>1. id \in Windows
  BY DEF DesktopInv, DesktopTypeOK, ToSet
<1>2. flags' \in [Windows -> [minimized : BOOLEAN, maximized : BOOLEAN]]
  BY <1>1 DEF minimize, DesktopInv, DesktopTypeOK
<1> QED
  BY <1>2, QuietInv DEF minimize, DesktopInv, DesktopTypeOK

LEMMA ActivateInv ==
  ASSUME DesktopInv, NEW id, Activate(id)
  PROVE  DesktopInv'
<1>1. id \in ToSet(ids) /\ id \in Windows
  BY DEF Activate, DesktopInv, DesktopTypeOK, ToSet
<1>2. CASE focusedId = id
  BY <1>1, <1>2, MinimizedInv DEF Activate
<1>3. CASE focusedId # id
  <2>1. focus(id) /\ Asks(id) /\ Navigated /\ ids' = ids
    BY <1>3 DEF Activate
  <2>2. /\ Restored(id) \in [Windows -> [minimized : BOOLEAN, maximized : BOOLEAN]]
        /\ ~Restored(id)[id].minimized
    BY <1>1 DEF Restored, DesktopInv, DesktopTypeOK
  <2> QED
    BY <1>1, <2>1, <2>2, FocusInv DEF focus
<1> QED
  BY <1>2, <1>3

LEMMA CurrentParsed ==
  ASSUME DesktopInv
  PROVE  Parsed(entries[at]) \in Seq(Windows) /\ IsInjective(Parsed(entries[at]))
<1>1. entries[at] \in Seq(Windows \cup {Junk}) /\ at \in DOMAIN entries
  BY DEF DesktopInv, DesktopTypeOK
<1>2. IsInjective(entries[at])
  BY <1>1 DEF DesktopInv, BackUndoesOneWindow
<1> QED
  BY <1>1, <1>2, ParsedKeeps

LEMMA ShortLists ==
  ASSUME NEW T, NEW x \in T, NEW y \in T
  PROVE  <<y>> \in Seq(T) /\ <<x, y>> \in Seq(T)
OBVIOUS

LEMMA DesktopInitInv == DesktopInit => DesktopInv
<1> SUFFICES ASSUME DesktopInit
             PROVE  DesktopInv
  OBVIOUS
<1> DEFINE T == Windows \cup {Junk}
<1>1. PICK w \in Seq(T) : entries = <<w>> /\ ids = Parsed(w) /\ IsInjective(w)
  <2>1. PICK w : /\ entries = <<w>> /\ ids = Parsed(w)
                 /\ w \in {<<>>} \cup {<<id>> : id \in Windows} \cup {<<Junk, id>> : id \in Windows}
    BY DEF DesktopInit
  <2>2. w \in Seq(T)
    <3>1. CASE w = <<>>
      BY <3>1
    <3>2. ASSUME NEW id \in Windows, w = <<id>> \/ w = <<Junk, id>>
          PROVE  w \in Seq(T)
      <4>1. Junk \in T /\ id \in T
        BY DEF Junk
      <4>2. <<id>> \in Seq(T) /\ <<Junk, id>> \in Seq(T)
        BY <4>1, ShortLists
      <4> QED
        BY <3>2, <4>2, Zenon
    <3> HIDE DEF T
    <3> QED
      BY <2>1, <3>1, <3>2
  <2>3. IsInjective(w)
    BY <2>1, DesktopAssumption DEF IsInjective, Junk, Windows
  <2> QED
    BY <2>1, <2>2, <2>3
<1>2. Parsed(w) \in Seq(Windows) /\ IsInjective(Parsed(w))
  BY <1>1, ParsedKeeps
<1> HIDE DEF T
<1>3. entries \in Seq(Seq(T)) /\ Len(entries) = 1 /\ DOMAIN entries = {1} /\ entries[1] = w
  BY <1>1
<1>4. DesktopTypeOK
  BY <1>1, <1>2, <1>3 DEF DesktopInit, DesktopTypeOK, NoFlags, T
<1>5. BackUndoesOneWindow
  BY <1>1, <1>3 DEF BackUndoesOneWindow
<1>6. AskedOnTop
  BY DEF DesktopInit, AskedOnTop
<1> QED
  BY <1>4, <1>5, <1>6 DEF DesktopInv

LEMMA DesktopStepInv ==
  ASSUME DesktopInv, DesktopNext
  PROVE  DesktopInv'
<1>1. ASSUME NEW id \in Windows, Launch(id) \/ MenuLaunch(id)
      PROVE  DesktopInv'
  BY <1>1, OpenInv DEF Launch, MenuLaunch
<1>2. ASSUME NEW id \in Windows, Minimize(id)
      PROVE  DesktopInv'
  BY <1>2, MinimizedInv DEF Minimize, Shown
<1>3. CASE Menu
  BY <1>3, QuietInv DEF Menu, DesktopInv, DesktopTypeOK
<1>4. CASE Travel
  <2>1. at' \in 1..Len(entries)
    BY <1>4 DEF Travel, DesktopInv, DesktopTypeOK
  <2> QED
    BY <1>4, <2>1, QuietInv DEF Travel, DesktopInv, DesktopTypeOK
<1>5. CASE Reload
  <2>1. flags' \in [Windows -> [minimized : BOOLEAN, maximized : BOOLEAN]]
    BY <1>5 DEF Reload, NoFlags
  <2>2. ids' \in Seq(Windows) /\ IsInjective(ids')
    BY <1>5, CurrentParsed DEF Reload
  <2>3. UNCHANGED <<entries, overtaken>> /\ at' \in 1..Len(entries) /\ asked' = None
    BY <1>5 DEF Reload, DesktopInv, DesktopTypeOK
  <2> QED
    BY <2>1, <2>2, <2>3, QuietInv
<1>6. CASE Render
  <2>1. ids' \in Seq(Windows) /\ IsInjective(ids')
    BY <1>6, CurrentParsed DEF Render
  <2>2. UNCHANGED <<entries, at, flags, asked, overtaken>>
    BY <1>6 DEF Render
  <2>3. BackUndoesOneWindow' /\ AskedOnTop'
    BY <2>2 DEF DesktopInv, BackUndoesOneWindow, AskedOnTop
  <2> QED
    BY <2>1, <2>2, <2>3 DEF DesktopInv, DesktopTypeOK
<1> QED
  BY <1>1, <1>2, <1>3, <1>4, <1>5, <1>6, PressInv, MaximizeInv, CloseInv, ActivateInv
     DEF DesktopNext

LEMMA DesktopIdle ==
  ASSUME DesktopInv, UNCHANGED desktopVars
  PROVE  DesktopInv'
BY DEF desktopVars, DesktopInv, DesktopTypeOK, AskedOnTop, BackUndoesOneWindow

(***************************************************************************)
(* The windows in all behaviours of a browser.                             *)
(***************************************************************************)

(* The inductive invariant of the windows.  The asked window is on top of  *)
(* the link, whether the components have rendered the link or not.         *)
THEOREM DesktopAlwaysInv == BrowserSpec => []DesktopInv
<1>1. BrowserInit => DesktopInv
  BY DesktopInitInv DEF BrowserInit
<1>2. ASSUME DesktopInv, [BrowserNext]_browserVars
      PROVE  DesktopInv'
  <2>1. CASE DesktopNext
    BY <1>2, <2>1, DesktopStepInv
  <2>2. CASE UNCHANGED desktopVars
    BY <1>2, <2>2, DesktopIdle
  <2> QED
    BY <1>2, <2>1, <2>2 DEF BrowserNext, browserVars
<1> QED
  BY <1>1, <1>2, PTL DEF BrowserSpec

(* The window that an event asked to see is on top once the navigation is  *)
(* rendered, however the history was walked and whatever was minimized or  *)
(* closed before (wm.tsx:92-118, 160-176).                                 *)
THEOREM AskedWindowAlwaysShows == BrowserSpec => []AskedWindowShows
<1>1. DesktopInv => AskedWindowShows
  BY FocusedIsOnTop DEF DesktopInv, AskedOnTop, AskedWindowShows
<1> QED
  BY <1>1, DesktopAlwaysInv, PTL

(* No link has a window twice, and as long as no event acted on windows    *)
(* that had changed, each entry of the history differs from the one before *)
(* it by the opening or the closing of one window (wm.tsx:97-100).         *)
THEOREM BackAlwaysUndoesOneWindow == BrowserSpec => []BackUndoesOneWindow
<1>1. DesktopInv => BackUndoesOneWindow
  BY DEF DesktopInv
<1> QED
  BY <1>1, DesktopAlwaysInv, PTL
=============================================================================
