----------------------------- MODULE WalletViews -----------------------------
(***************************************************************************)
(* What the two apps show of a listed wallet, and the address discovery it *)
(* comes from: the wallet list, the screens built on useWalletDetailFlow,  *)
(* the receive screen, and the mobile address list. Every screen starts a  *)
(* discovery of its own; each may end after the screen has gone, after the *)
(* stored receive address has changed, or with lookups that failed.        *)
(*                                                                         *)
(* An address is its index in the wallet's chain. An answer is one step:   *)
(* lookups that failed, or came before a payment, are the addresses "used" *)
(* has and "seen" has not. Balances and lists are told apart by the wallet *)
(* they were computed for. Wallets come and go in WalletLifecycle.         *)
(***************************************************************************)
EXTENDS Naturals, FiniteSets

CONSTANTS
  Wallets,
  GAP_LIMIT,
  History,  \* the addresses that had transactions when the app was opened
  Payable,  \* bound: the addresses payments come to, as <<wallet, index>>
  MaxAsked, \* bound on the loads in flight when the user starts one more
  None      \* null

ASSUME ViewsAssumption ==
  /\ GAP_LIMIT \in Nat \ {0}
  /\ IsFiniteSet(Payable) /\ Payable \subseteq Wallets \X Nat
  /\ History \in [Wallets -> SUBSET Nat]
  /\ \A w \in Wallets : {w} \X History[w] \subseteq Payable
  /\ MaxAsked \in Nat
  /\ None \notin Wallets \cup Nat

VARIABLES
  platform,    \* the app that runs: "mobile" or "desktop"
  used,        \* the indices that have transactions
  next,        \* nextReceiveAddress of the wallet's entry
  balance,     \* lastKnownBalance: the wallet whose addresses it sums, or None
  active,      \* activeWalletId
  list,        \* mobile: the list is mounted; walletBalanceRefreshState
  detail,      \* the screen on useWalletDetailFlow, and its state
  receive,     \* the receive screen, and its state; sound is history: nothing that
               \* it was told of the chain is missing or out of date
  addressList, \* mobile: the address list, and its state
  loads        \* discoveries in flight, with what their closures captured

entries == <<next, balance, active>>
viewVars == <<platform, used, entries, list, detail, receive, addressList, loads>>

-----------------------------------------------------------------------------
(* Discovery *)

\* How many addresses discoverWithDeriver derives: up to the first GAP_LIMIT
\* in a row that have no transactions.
Scanned(seen) ==
  CHOOSE n \in GAP_LIMIT .. GAP_LIMIT * (Cardinality(seen) + 1) :
    /\ seen \cap (n - GAP_LIMIT) .. (n - 1) = {}
    /\ \A m \in GAP_LIMIT .. (n - 1) : seen \cap (m - GAP_LIMIT) .. (m - 1) # {}

receiveAddress(seen) ==
  CHOOSE i \in 0 .. Cardinality(seen) : i \notin seen /\ \A j \in 0 .. (i - 1) : j \in seen

resolveMaintainedReceiveAddress(seen, stored) ==
  IF stored # None /\ stored < Scanned(seen) /\ stored \notin seen
  THEN stored ELSE receiveAddress(seen)

\* Seeded fault: the next address is derived, whether it was scanned or not.
AnotherUnbounded(seen, shown) ==
  IF shown # None THEN shown + 1 ELSE receiveAddress(seen) + 1

\* The address after the one shown, or after the first unused; the last at most.
anotherAddress(seen, shown) ==
  LET from == IF shown # None /\ shown < Scanned(seen) THEN shown ELSE receiveAddress(seen)
  IN  IF from + 1 < Scanned(seen) THEN from + 1 ELSE Scanned(seen) - 1

Load(by, w, captured) ==
  [by |-> by, wallet |-> w, captured |-> captured, live |-> TRUE, current |-> TRUE]

NoDetail == [wallet |-> None, page |-> "wallet", derived |-> None, discovering |-> FALSE]
NoReceive == [wallet |-> None, shown |-> None, loading |-> FALSE,
              generating |-> FALSE, sound |-> FALSE]
NoAddressList == [open |-> FALSE, derived |-> None, refreshing |-> FALSE]

\* A cancelled run of the list, of the receive screen or of the address list changes
\* nothing when it ends; the others still store an address.
Cancelled(ls, whose) ==
  { IF l.by \in whose THEN [l EXCEPT !.live = FALSE] ELSE l :
      l \in { k \in ls : ~(k.by \in whose /\ k.by \in {"list", "receive", "addresses"}) } }

ReceiveLoads == {"receive", "another"}
Screens == ReceiveLoads \cup {"detail", "list", "addresses"}

ViewsInit ==
  /\ platform \in {"mobile", "desktop"}
  /\ used = History
  /\ next = [w \in Wallets |-> None]
  /\ balance = [w \in Wallets |-> None]
  /\ active = None
  /\ list = [mounted |-> FALSE, refreshing |-> {}]
  /\ detail = NoDetail /\ receive = NoReceive /\ addressList = NoAddressList
  /\ loads = {}

-----------------------------------------------------------------------------
(* The store, and the effects that follow it *)

\* Seeded fault: the receive screen's load does not depend on the stored address.
RunsForDetail(by, changed, screen, w) == by = "detail" /\ changed /\ screen.wallet = w

\* nextReceiveAddress is a dependency of both screens' loads.
RunsFor(by, changed, screen, w) == changed /\ screen.wallet = w

\* A step that leaves the screens d and r and the loads ls, and stores i as w's
\* receive address: where it is new the mounted screens of w load again, and
\* the receive screen shows it.
Commit(w, i, d, r, ls) ==
  LET changed == next[w] # i
      again == RunsFor("detail", changed, d, w)
      anew == RunsFor("receive", changed, r, w)
      rest == IF anew THEN Cancelled(ls, {"receive"}) ELSE ls
  IN  /\ next' = [next EXCEPT ![w] = i]
      /\ detail' = [d EXCEPT !.discovering = @ \/ again]
      /\ receive' = [r EXCEPT !.shown = IF changed /\ r.wallet = w THEN i ELSE @,
                              !.loading = @ \/ anew]
      /\ loads' = rest \cup (IF again THEN {Load("detail", w, i)} ELSE {})
                       \cup (IF anew THEN {Load("receive", w, i)} ELSE {})

\* Somebody pays an address: what the receive screen knew of it is old.
Pay ==
  /\ \E p \in Payable :
       /\ p[2] \notin used[p[1]]
       /\ used' = [used EXCEPT ![p[1]] = @ \cup {p[2]}]
       /\ receive' = [receive EXCEPT !.sound = @ /\ receive.wallet # p[1]]
  /\ UNCHANGED <<platform, entries, list, detail, addressList, loads>>

-----------------------------------------------------------------------------
(* Screens come and go *)

MayAsk == Cardinality(loads) < MaxAsked

\* Mobile: the list is mounted, at start and when the app is unlocked, and
\* refreshes every wallet.
OpenList ==
  /\ platform = "mobile" /\ ~list.mounted
  /\ list' = [mounted |-> TRUE, refreshing |-> Wallets]
  /\ loads' = loads \cup { Load("list", w, None) : w \in Wallets }
  /\ UNCHANGED <<platform, used, entries, detail, receive, addressList>>

\* Mobile: the app locks, and every screen is unmounted. The spinners of the list
\* are in the store: they stay.
LockApp ==
  /\ list.mounted
  /\ list' = [list EXCEPT !.mounted = FALSE]
  /\ detail' = NoDetail /\ receive' = NoReceive /\ addressList' = NoAddressList
  /\ loads' = Cancelled(loads, Screens)
  /\ UNCHANGED <<platform, used, entries>>

\* A fresh instance of the screen: its first load.
Mounted(w, page) ==
  [NoDetail EXCEPT !.wallet = w, !.page = page, !.discovering = TRUE]

\* The screen of w is opened, as the instance that is there already or as a new one;
\* its effect makes the wallet a the active one.
Opened(w, kept, a) ==
  /\ MayAsk
  /\ detail.wallet # w \/ detail.page # "wallet"
  /\ active' = a
  /\ detail' = IF kept THEN [detail EXCEPT !.wallet = w, !.discovering = TRUE]
               ELSE Mounted(w, "wallet")
  /\ receive' = NoReceive
  /\ loads' = Cancelled(loads, IF kept THEN ReceiveLoads ELSE ReceiveLoads \cup {"detail"})
              \cup {Load("detail", w, next[w])}
  /\ UNCHANGED <<platform, used, next, balance, list, addressList>>

\* Seeded fault: the mobile screen is kept for the next wallet, as the desktop's is.
OpenWalletKept(w) ==
  /\ platform = "mobile" => list.mounted /\ receive.wallet = None /\ ~addressList.open
  /\ Opened(w, TRUE, w)

\* Seeded fault: the effect on the wallet's id is gone.
OpenWalletInactive(w) ==
  /\ platform = "mobile" => list.mounted /\ detail.wallet = None
  /\ Opened(w, detail.wallet # None /\ detail.page = "wallet", active)

\* Mobile: from the list. Desktop: from the list or the sidebar; the route's element
\* has no key, so that from one wallet's screen to another's the instance stays,
\* with its state and the loads it waits for.
OpenWallet(w) ==
  /\ platform = "mobile" => list.mounted /\ detail.wallet = None
  /\ Opened(w, detail.wallet # None /\ detail.page = "wallet", w)

\* Desktop: the transactions or the addresses, screens of their own on the same flow.
OpenPage ==
  /\ MayAsk
  /\ platform = "desktop" /\ detail.wallet # None /\ detail.page = "wallet"
  /\ detail' = Mounted(detail.wallet, "page")
  /\ loads' = Cancelled(loads, {"detail"}) \cup {Load("detail", detail.wallet, next[detail.wallet])}
  /\ UNCHANGED <<platform, used, entries, list, receive, addressList>>

\* Mobile: over the wallet's screen, which goes on; its button waits for isDiscovering.
\* Desktop: in its place.
OpenReceive ==
  /\ MayAsk
  /\ detail.wallet # None /\ detail.page = "wallet"
  /\ receive.wallet = None /\ ~addressList.open
  /\ platform = "mobile" => ~detail.discovering
  /\ LET w == detail.wallet
     IN  /\ receive' = [NoReceive EXCEPT !.wallet = w, !.shown = next[w],
                                        !.loading = TRUE, !.sound = TRUE]
         /\ detail' = IF platform = "mobile" THEN detail ELSE NoDetail
         /\ loads' = (IF platform = "mobile" THEN loads ELSE Cancelled(loads, {"detail"}))
                     \cup {Load("receive", w, next[w])}
  /\ UNCHANGED <<platform, used, entries, list, addressList>>

\* goBack of the receive screen and of the address list (mobile).
GoBack ==
  /\ platform = "mobile"
  /\ receive.wallet # None \/ addressList.open
  /\ receive' = NoReceive /\ addressList' = NoAddressList
  /\ loads' = Cancelled(loads, ReceiveLoads \cup {"addresses"})
  /\ UNCHANGED <<platform, used, entries, list, detail>>

\* Mobile: back to the list. Desktop: to /wallets, from anywhere.
ToWallets ==
  /\ IF platform = "mobile" THEN detail.wallet # None /\ receive.wallet = None /\ ~addressList.open
     ELSE detail.wallet # None \/ receive.wallet # None
  /\ detail' = NoDetail /\ receive' = NoReceive
  /\ loads' = Cancelled(loads, {"detail"} \cup ReceiveLoads)
  /\ UNCHANGED <<platform, used, entries, list, addressList>>

\* Mobile: the pull-to-refresh of the wallet's screen. (isRefreshing, a second spinner
\* beside isDiscovering, is left out.)
refresh ==
  /\ MayAsk
  /\ platform = "mobile" /\ detail.wallet # None
  /\ receive.wallet = None /\ ~addressList.open
  /\ detail' = [detail EXCEPT !.discovering = TRUE]
  /\ loads' = loads \cup {Load("detail", detail.wallet, next[detail.wallet])}
  /\ UNCHANGED <<platform, used, entries, list, receive, addressList>>

\* Mobile: more than one address has been used; the list is given those on the screen.
openAddressList ==
  /\ platform = "mobile" /\ detail.derived # None
  /\ Cardinality(used[detail.derived]) > 1
  /\ receive.wallet = None /\ ~addressList.open
  /\ addressList' = [NoAddressList EXCEPT !.open = TRUE, !.derived = detail.derived]
  /\ UNCHANGED <<platform, used, entries, list, detail, receive, loads>>

\* The address list discovers the active wallet anew.
handleRefresh ==
  /\ MayAsk
  /\ addressList.open /\ ~addressList.refreshing
  /\ addressList' = [addressList EXCEPT !.refreshing = TRUE]
  /\ loads' = loads \cup {Load("addresses", active, None)}
  /\ UNCHANGED <<platform, used, entries, list, detail, receive>>

\* The receive screen: the load it waits for is out of date from now on.
generateAnotherAddress ==
  /\ MayAsk
  /\ receive.wallet # None /\ ~receive.generating
  /\ receive' = [receive EXCEPT !.generating = TRUE]
  /\ loads' = { IF l.by = "receive" THEN [l EXCEPT !.current = FALSE] ELSE l : l \in loads }
              \cup {Load("another", receive.wallet, receive.shown)}
  /\ UNCHANGED <<platform, used, entries, list, detail, addressList>>

\* The balance of the addresses on the wallet's screen arrives, and is stored for
\* the wallet of the screen.
persistBalance ==
  /\ detail.page = "wallet" /\ detail.derived # None
  /\ balance[detail.wallet] # detail.derived
  /\ balance' = [balance EXCEPT ![detail.wallet] = detail.derived]
  /\ UNCHANGED <<platform, used, next, active, list, detail, receive, addressList, loads>>

-----------------------------------------------------------------------------
(* Discoveries end: with what was seen, or with no wallet type or no credentials *)

\* loadWalletState ends. The state is set without a check that it is still awaited.
DetailEnds(l, derived, i) ==
  /\ LET d == IF l.live
              THEN [detail EXCEPT !.derived = derived, !.discovering = FALSE]
              ELSE detail
     IN  Commit(l.wallet, i, d, receive, loads \ {l})
  /\ UNCHANGED <<balance, list, addressList>>

DetailLoaded(l, seen) ==
  /\ l.by = "detail"
  /\ LET i == resolveMaintainedReceiveAddress(seen, l.captured)
     IN  DetailEnds(l, l.wallet, IF i = l.captured THEN next[l.wallet] ELSE i)

DetailFailed(l) == l.by = "detail" /\ DetailEnds(l, None, next[l.wallet])

\* Only the current run sets and stores the address; every one clears the spinner.
ReceiveLoaded(l, seen) ==
  /\ l.by = "receive"
  /\ LET i == resolveMaintainedReceiveAddress(seen, l.captured)
         whole == seen = used[l.wallet]
         r == [receive EXCEPT !.loading = FALSE, !.sound = whole /\ (@ \/ l.current)]
     IN  IF l.current
         THEN Commit(l.wallet, i, detail, [r EXCEPT !.shown = i], loads \ {l})
         ELSE Commit(l.wallet, next[l.wallet], detail, r, loads \ {l})
  /\ UNCHANGED <<balance, list, addressList>>

ReceiveFailed(l) ==
  /\ l.by = "receive"
  /\ receive' = [receive EXCEPT !.loading = FALSE, !.shown = None, !.sound = FALSE]
  /\ loads' = loads \ {l}
  /\ UNCHANGED <<next, balance, list, detail, addressList>>

\* The address is set and stored, whatever has happened since it was asked for.
AnotherLoaded(l, seen) ==
  /\ l.by = "another"
  /\ LET i == anotherAddress(seen, l.captured)
         r == IF l.live
              THEN [receive EXCEPT !.generating = FALSE, !.shown = i,
                                   !.sound = @ /\ seen = used[l.wallet]]
              ELSE receive
     IN  Commit(l.wallet, i, detail, r, loads \ {l})
  /\ UNCHANGED <<balance, list, addressList>>

AnotherFailed(l) ==
  /\ l.by = "another"
  /\ receive' = IF l.live THEN [receive EXCEPT !.generating = FALSE, !.sound = FALSE]
                ELSE receive
  /\ loads' = loads \ {l}
  /\ UNCHANGED <<next, balance, list, detail, addressList>>

\* refreshWalletBalances: the balance, when every address answered.
ListEnds(l) ==
  /\ l.by = "list"
  /\ balance' \in {balance, [balance EXCEPT ![l.wallet] = l.wallet]}
  /\ list' = [list EXCEPT !.refreshing = @ \ {l.wallet}]
  /\ loads' = loads \ {l}
  /\ UNCHANGED <<next, detail, receive, addressList>>

AddressesEnd(l) ==
  /\ l.by = "addresses"
  /\ \E derived \in {addressList.derived, l.wallet} :
       addressList' = [addressList EXCEPT !.derived = derived, !.refreshing = FALSE]
  /\ loads' = loads \ {l}
  /\ UNCHANGED <<next, balance, list, detail, receive>>

Failed(l) == DetailFailed(l) \/ ReceiveFailed(l) \/ AnotherFailed(l)

Loaded(l, seen) == DetailLoaded(l, seen) \/ ReceiveLoaded(l, seen) \/ AnotherLoaded(l, seen)

Ends(l) ==
  /\ \/ \E seen \in SUBSET used[l.wallet] : Loaded(l, seen)
     \/ Failed(l)
     \/ ListEnds(l)
     \/ AddressesEnd(l)
  /\ UNCHANGED <<platform, used, active>>

ViewsNext ==
  \/ Pay
  \/ OpenList \/ LockApp
  \/ \E w \in Wallets : OpenWallet(w)
  \/ OpenPage \/ OpenReceive \/ GoBack \/ ToWallets
  \/ refresh \/ openAddressList \/ handleRefresh \/ generateAnotherAddress
  \/ persistBalance
  \/ \E l \in loads : Ends(l)

ViewsSpec == ViewsInit /\ [][ViewsNext]_viewVars

-----------------------------------------------------------------------------
(* Properties *)

Indices == 0 .. GAP_LIMIT * (Cardinality(Payable) + 1)

ViewsTypeOK ==
  /\ platform \in {"mobile", "desktop"}
  /\ \A w \in Wallets : {w} \X used[w] \subseteq Payable
  /\ next \in [Wallets -> Indices \cup {None}]
  /\ balance \in [Wallets -> Wallets \cup {None}]
  /\ active \in Wallets \cup {None}
  /\ list.mounted \in BOOLEAN /\ list.refreshing \subseteq Wallets
  /\ detail \in [wallet : Wallets \cup {None}, page : {"wallet", "page"},
                 derived : Wallets \cup {None}, discovering : BOOLEAN]
  /\ receive \in [wallet : Wallets \cup {None}, shown : Indices \cup {None},
                  loading : BOOLEAN, generating : BOOLEAN, sound : BOOLEAN]
  /\ addressList \in [open : BOOLEAN, derived : Wallets \cup {None}, refreshing : BOOLEAN]
  /\ \A l \in loads :
       /\ l.by \in Screens
       /\ l.wallet \in Wallets /\ l.captured \in Indices \cup {None}
       /\ l.live \in BOOLEAN /\ l.current \in BOOLEAN

\* Whatever lookups failed and whoever stored it last, the address a wallet
\* hands out is one that a discovery of the wallet reaches when every lookup
\* succeeds: what is paid to it is found again, after a restore as well.
StoredIsFound == \A w \in Wallets : next[w] # None => next[w] < Scanned(used[w])

\* The receive screen says that its address "has not been used before". Another
\* address it asks for may have been; but once its loads have ended, each of them
\* having seen the chain as it is, the address it is left with has not.
SettledIsUnused ==
  /\ receive.sound /\ receive.shown # None
  /\ ~\E l \in loads : l.live /\ l.by \in ReceiveLoads
  => receive.shown \notin used[receive.wallet]

\* On mobile every wallet has its own instance of its screen: no answer that comes
\* late puts one wallet's addresses on another's screen or its balance in its entry.
ShownIsOwn ==
  platform = "mobile" =>
    /\ \A w \in Wallets : balance[w] \in {None, w}
    /\ detail.derived \in {None, detail.wallet}
    /\ addressList.derived \in {None, detail.wallet}
=============================================================================
