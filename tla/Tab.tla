--------------------------------- MODULE Tab ---------------------------------
(***************************************************************************)
(* A browser tab (packages/frontend): over the queries of Streams, the     *)
(* trader who submits a transaction from it (contracts/useTxMutation.ts,   *)
(* contracts/sender.ts) and the wallet whose account it follows            *)
(* (wallet/WalletProvider.tsx, desktop/Logon.tsx).  The trader acts in     *)
(* tabs that show one of the queries about the account; accounts log on    *)
(* and off, and the wallet switches between them, in the one that shows    *)
(* the balance.                                                            *)
(***************************************************************************)
EXTENDS Streams

CONSTANTS
  Accounts,
  NoAccount,
  MaxSwitches,  \* bound: changes of the wallet's account
  MaxHides      \* bound: times the tab is hidden

ASSUME TabAssumption ==
  NoAccount \notin Accounts /\ Accounts # {} /\ MaxSwitches \in Nat /\ MaxHides \in Nat

VARIABLES
  wallet,    \* the wallet's account, NoAccount when it is locked; whether the
             \* trader has chosen this wallet; the bounded events so far
  shown,     \* the account the tab takes for connected
  probes,    \* accounts that refreshes in flight have read
  logon,     \* a refresh has come back; the logon dialog was cancelled
  visible,
  tx         \* the transaction: phase, who it is for, its fate, the toast

walletVars == <<wallet, shown, probes, logon, visible>>
tabVars == <<streamVars, walletVars, tx>>

AccountFeeds == {"positions", "walletBalance"}

-----------------------------------------------------------------------------
(* The wallet (WalletProvider.tsx, freighter.ts) and the logon dialog      *)

\* What getFreighterStatus reads.
WalletAccount == IF wallet.chosen THEN wallet.account ELSE NoAccount

\* The wallet is switched to another account, locked or unlocked.
Switch ==
  /\ feed = "walletBalance" /\ wallet.switches < MaxSwitches
  /\ \E a \in (Accounts \cup {NoAccount}) \ {wallet.account} :
       wallet' = [wallet EXCEPT !.account = a, !.switches = @ + 1]
  /\ UNCHANGED <<streamVars, shown, probes, logon, visible, tx>>

\* refresh, by the timer or the focus.
Probe ==
  /\ feed = "walletBalance" /\ visible
  /\ probes' = probes \cup {WalletAccount}
  /\ UNCHANGED <<streamVars, wallet, shown, logon, visible, tx>>

\* onVisibility: the timer stops and starts; a tab that comes back refreshes.
Hide ==
  /\ feed = "walletBalance" /\ visible /\ wallet.hides < MaxHides
  /\ visible' = FALSE
  /\ wallet' = [wallet EXCEPT !.hides = @ + 1]
  /\ UNCHANGED <<streamVars, shown, probes, logon, tx>>

Reveal ==
  /\ ~visible
  /\ visible' = TRUE /\ probes' = probes \cup {WalletAccount}
  /\ UNCHANGED <<streamVars, wallet, shown, logon, tx>>

\* Faulty: sameStatus takes every answer for the status shown, so that no
\* refresh shows anything.
KindOnly_ShowAccount(a) ==
  /\ a \in probes
  /\ probes' = probes \ {a}
  /\ UNCHANGED <<streamVars, wallet, shown, logon, visible, tx>>

\* A refresh comes back, in whatever order: when its account is another one,
\* every query about the account is another query, or none.
ShowAccount(a) ==
  /\ a \in probes
  /\ probes' = probes \ {a}
  /\ shown' = a /\ logon' = [logon EXCEPT !.ready = TRUE]
  /\ IF a = shown THEN UNCHANGED <<cache, fetch, news>>
     ELSE /\ cache' = Unloaded
          /\ fetch' = IF a = NoAccount THEN Disabled ELSE Asked
          /\ news'  = IF a = NoAccount THEN "missed" ELSE "heard"
  /\ UNCHANGED <<feed, db, listening, stream, queue, wire, spent, wallet, visible, tx>>

\* The dialog covers the desktop until an account is shown or it is cancelled.
LogonShows == logon.ready /\ shown = NoAccount /\ ~logon.dismissed

\* OK: the trader chooses a wallet in the kit's modal.
Connect ==
  /\ LogonShows /\ wallet.switches < MaxSwitches
  /\ \E a \in Accounts :
       /\ wallet' = [wallet EXCEPT !.account = a, !.chosen = TRUE, !.switches = @ + 1]
       /\ probes' = probes \cup {a}
  /\ UNCHANGED <<streamVars, shown, logon, visible, tx>>

\* Cancel, and the requests for the dialog from the menu and the forms.
Cancel ==
  /\ LogonShows
  /\ logon' = [logon EXCEPT !.dismissed = TRUE]
  /\ UNCHANGED <<streamVars, wallet, shown, probes, visible, tx>>

RequestLogon ==
  /\ shown = NoAccount /\ logon.dismissed
  /\ logon' = [logon EXCEPT !.dismissed = FALSE]
  /\ UNCHANGED <<streamVars, wallet, shown, probes, visible, tx>>

\* Log Off: the choice is forgotten, and the dialog is requested.
LogOff ==
  /\ feed = "walletBalance" /\ shown # NoAccount /\ wallet.switches < MaxSwitches
  /\ wallet' = [wallet EXCEPT !.chosen = FALSE, !.switches = @ + 1]
  /\ probes' = probes \cup {NoAccount}
  /\ logon' = [logon EXCEPT !.dismissed = FALSE]
  /\ UNCHANGED <<streamVars, shown, visible, tx>>

-----------------------------------------------------------------------------
(* A transaction (useTxMutation, signAndSendWithWallet)                    *)

NoTx == [phase |-> "idle", for |-> "", fate |-> "none", mirrored |-> FALSE, toast |-> "none"]

Toasted(kind) == tx' = [tx EXCEPT !.phase = "over", !.toast = kind]

\* What the parsers find in an error: the code of a contract, named or not, or
\* that the host trapped; "" when it is not there.
parseContractError            == {"reverted", ""}
extractContractErrorFromTxMeta == {"reverted", ""}
inferInvokeHostFunctionCode   == {"host", ""}

ElseTry(found, next) == IF "" \in found THEN (found \ {""}) \cup next ELSE found

\* What the toasts say: that a contract reverted, that the host failed, or that
\* the network rejected the transaction, with the code of the answer.
parseSimError  == ElseTry(parseContractError, {"host"})
parseSendError(status) == IF status = "DUPLICATE" THEN "rejected as duplicate" ELSE "rejected"
parseGetError  ==
  ElseTry(extractContractErrorFromTxMeta, ElseTry(inferInvokeHostFunctionCode, {"rejected"}))

\* The binding builds and simulates; what the simulation refuses is not sent.
Build ==
  /\ feed \in AccountFeeds /\ shown # NoAccount /\ tx.phase = "idle"
  /\ \/ tx' = [tx EXCEPT !.phase = "built", !.for = shown]
     \/ \E kind \in parseSimError :
          tx' = [tx EXCEPT !.phase = "over", !.for = shown, !.toast = kind]
  /\ UNCHANGED <<streamVars, walletVars>>

\* The wallet signs with the account it is on, if it can; or the trader declines.
Sign ==
  /\ tx.phase = "built"
  /\ \/ /\ WalletAccount # NoAccount
        /\ tx' = [tx EXCEPT !.phase = IF WalletAccount = tx.for THEN "signed" ELSE "missigned"]
     \/ Toasted("failed")
  /\ UNCHANGED <<streamVars, walletVars>>

\* sendTransaction: accepted, refused, or the reply is lost and thrown as a
\* plain error whether or not the network has it.  An answer that the network
\* has the transaction already is an error like a refusal.
Send ==
  /\ tx.phase \in {"signed", "missigned"}
  /\ \/ \E status \in {"ERROR", "TRY_AGAIN_LATER"} : Toasted(parseSendError(status))
     \/ Toasted("failed")
     \/ /\ tx.phase = "signed"
        /\ \/ tx' = [tx EXCEPT !.phase = "sent", !.fate = "pending"]
           \/ \E toast \in {"failed", parseSendError("DUPLICATE")} :
                tx' = [tx EXCEPT !.phase = "over", !.toast = toast, !.fate = "pending"]
  /\ UNCHANGED <<streamVars, walletVars>>

\* The ledger applies the transaction, which changes the balance at once, or
\* it fails, or its time runs out.
Include ==
  /\ tx.fate = "pending"
  /\ \/ /\ tx' = [tx EXCEPT !.fate = "success"]
        /\ IF feed = "walletBalance" THEN Change ELSE UNCHANGED streamVars
     \/ tx' \in {[tx EXCEPT !.fate = "failure"], [tx EXCEPT !.fate = "expired"]}
        /\ UNCHANGED streamVars
  /\ UNCHANGED walletVars

\* The indexer commits the transaction's events.
Mirrored ==
  /\ feed = "positions" /\ tx.fate = "success" /\ ~tx.mirrored
  /\ tx' = [tx EXCEPT !.mirrored = TRUE]
  /\ Change
  /\ UNCHANGED walletVars

\* Faulty: a transaction that is not found has failed.
Hasty_Poll ==
  /\ tx.phase = "sent"
  /\ IF tx.fate = "success" THEN Toasted("confirmed") /\ Invalidate
                            ELSE Toasted("rejected") /\ UNCHANGED fetch
  /\ UNCHANGED <<feed, db, listening, stream, queue, wire, cache, news, spent, walletVars>>

\* getTransaction, every second and a half: the hook invalidates what a
\* success changes.  A transaction not found is asked for again.
Poll ==
  /\ tx.phase = "sent"
  /\ \/ tx.fate = "success" /\ Toasted("confirmed") /\ Invalidate
     \/ /\ tx.fate = "failure" /\ UNCHANGED fetch
        /\ \E kind \in parseGetError : Toasted(kind)
  /\ UNCHANGED <<feed, db, listening, stream, queue, wire, cache, news, spent, walletVars>>

\* Thirty seconds are over, or getTransaction throws.
GiveUp ==
  /\ tx.phase = "sent"
  /\ Toasted("timeout") \/ Toasted("failed")
  /\ UNCHANGED <<streamVars, walletVars>>

-----------------------------------------------------------------------------
(* The specification                                                       *)

\* The page opens and the wallet is asked for its account; a behaviour that
\* follows another query starts when the tab has shown it.  One account is as
\* good as another.
TabInit ==
  /\ StreamsInit
  /\ \E chosen \in BOOLEAN :
       /\ wallet = [account |-> CHOOSE a \in Accounts : TRUE, chosen |-> chosen,
                    switches |-> 0, hides |-> 0]
       /\ IF feed = "walletBalance"
          THEN shown = NoAccount /\ probes = {WalletAccount}
          ELSE chosen /\ shown = wallet.account /\ probes = {}
  /\ logon = [ready |-> feed # "walletBalance", dismissed |-> FALSE]
  /\ visible = TRUE /\ tx = NoTx

TraderStep == Build \/ Sign \/ Send \/ Include \/ Mirrored \/ Poll \/ GiveUp
WalletStep ==
  \/ Switch \/ Probe \/ Hide \/ Reveal \/ Connect \/ Cancel \/ RequestLogon \/ LogOff
  \/ \E a \in Accounts \cup {NoAccount} : ShowAccount(a)

Alone(A) == A /\ UNCHANGED <<walletVars, tx>>

TabNext == Alone(StreamsNext) \/ TraderStep \/ WalletStep

\* The event loops of the API and of the tab run, requests are answered, the
\* EventSource and the broadcaster keep trying to connect, the timers of a
\* visible tab tick, and the indexer catches up.
TabFairness ==
  /\ WF_tabVars(Alone(Reconnect)) /\ WF_tabVars(Alone(OpenStream))
  /\ WF_tabVars(Alone(Project)) /\ WF_tabVars(Alone(Deliver))
  /\ WF_tabVars(Alone(Answer)) /\ WF_tabVars(Alone(Settle)) /\ WF_tabVars(Alone(Refetch))
  /\ WF_tabVars(Probe) /\ \A a \in Accounts \cup {NoAccount} : WF_tabVars(ShowAccount(a))
  /\ WF_tabVars(Poll) /\ WF_tabVars(GiveUp) /\ WF_tabVars(Mirrored)

TabSpec == TabInit /\ [][TabNext]_tabVars /\ TabFairness

-----------------------------------------------------------------------------
(* Properties                                                              *)

\* A toast that says confirmed, reverted, host failure or rejected is the last
\* word on the transaction, but for "rejected" with the code DUPLICATE: the
\* network has that transaction and may still apply it, as it may one that was
\* only given up on.  (sender.ts:40-108, toast.ts:44-78)
ToastsAreFinal ==
  /\ tx.toast = "confirmed" => tx.fate = "success"
  /\ tx.toast \in {"reverted", "host", "rejected"} => tx.fate \in {"none", "failure"}

\* A visible tab ends up with the account the wallet is on, and with none once
\* the trader has logged off, although its refreshes overlap and may come back
\* in any order.  (WalletProvider.tsx:40-98)
AccountCatchesUp == <>[](visible => shown = WalletAccount)

-----------------------------------------------------------------------------
(* What makes ToastsAreFinal inductive (TabProofs)                         *)

TabTypeOK ==
  /\ shown \in Accounts \cup {NoAccount}
  /\ tx \in [phase : {"idle", "built", "signed", "missigned", "sent", "over"},
             for : Accounts \cup {""}, fate : {"none", "pending", "success", "failure", "expired"},
             mirrored : BOOLEAN,
             toast : {"none", "confirmed", "reverted", "host", "rejected", "rejected as duplicate",
                      "timeout", "failed"}]

\* Nothing is on the ledger that was not sent, and nothing is said too early.
SentBeforeFate   == tx.phase \in {"idle", "built", "signed", "missigned"} => tx.fate = "none"
OverBeforeToast  == tx.phase # "over" => tx.toast = "none"

TabInv == TabTypeOK /\ SentBeforeFate /\ OverBeforeToast /\ ToastsAreFinal
=============================================================================
