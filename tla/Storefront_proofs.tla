------------------------- MODULE Storefront_proofs -------------------------
(***************************************************************************)
(* Proofs about what the shop shows: the wish list (Wishlist), listings    *)
(* (Listing), the tree of categories (CategoryTree), the staff's page of   *)
(* brands and collections (CatalogDesk) and the slides of the home page    *)
(* (HeroSlides); for any number of tabs, products, clicks, pages, editors, *)
(* windows, slides and faults.                                             *)
(***************************************************************************)
EXTENDS MCStorefront, Accounts_proofs, SumTheorems, SequenceTheorems

-----------------------------------------------------------------------------
(* The wishlist.                                                           *)

Updates == [by : Int, product : Products, gesture : Nat, request : Requests]

WishTyped ==
    /\ WishTypeOK /\ gestures \in Nat
    /\ merged \in [Products -> Nat] /\ lost \in [Products -> Int]
    /\ counting \in SUBSET Updates /\ IsFiniteSet(counting)
    /\ \A c \in counting : c.gesture <= gestures

(* A request that will count is about one product, and no update in flight   *)
(* is of its gesture.                                                       *)
WillCount(r) == Runs(r, "add", "find") \/ Runs(r, "add", "write") \/ Runs(r, "remove", "write")
CountsOnce ==
    \A r \in Requests : WillCount(r) =>
        /\ \E p \in Products : request[r].of = {p}
        /\ \A c \in counting : c.request = r => c.gesture < gestures

(* A tab without a user shows the browser's list or is about to. *)
GuestsSee == ~late => \A t \in Tabs : ~tab[t].user /\ ~tab[t].notified => tab[t].slugs = local

(* A merge knows the browser's list; what it left out or wrote is in the     *)
(* account for as long as it is wanted.                                      *)
MergeKnows ==
    ~guestRaced => \A r \in SigningIn :
        /\ local \subseteq request[r].of
        /\ request[r].at = "write" => wanted \cap request[r].found \subseteq Account
        /\ request[r].at = "answer" => wanted \cap request[r].of \subseteq Account

(* A tab signs in once, while it has no user. *)
SignsInOnce ==
    \A r \in Requests : request[r].kind = "signIn" =>
        /\ ~tab[request[r].tab].user
        /\ \A q \in Requests : request[q].kind = "signIn" /\ request[q].tab = request[r].tab => q = r

(* A signed-in tab shows the account's list, or an answer will come. *)
Tells == {"list", "add", "remove"}
HeartsFollow ==
    ~crossed => \A t \in Tabs : tab[t].user =>
        \/ tab[t].slugs = Account
        \/ \E r \in Requests : request[r].kind \in Tells /\ request[r].tab = t

AccountInv == CountsOnce /\ CounterFollows /\ OneRowEach
BrowserInv == GuestsSee /\ MergeKnows /\ SignsInOnce /\ HeartsFollow /\ SavedIsKept /\ GuestListIsOwn
WishInv == WishTyped /\ AccountInv /\ BrowserInv

(* Every part of the invariant is about these. *)
LEMMA WishAgrees == WishInv => WishlistAgrees
<1> SUFFICES ASSUME WishInv PROVE HeartsAreSaved
  BY DEF WishInv, AccountInv, BrowserInv, WishlistAgrees
<1>1. ASSUME NEW t \in Tabs, tab[t].user, InFlightOf(t) = {}, ~crossed
      PROVE  tab[t].slugs = Account
  <2>1. ASSUME NEW r \in Requests, request[r].kind \in Tells, request[r].tab = t PROVE FALSE
    <3>1. r \in InFlightOf(t)
      BY <2>1 DEF InFlightOf, Tells
    <3> QED BY <3>1, <1>1
  <2> QED BY <1>1, <2>1 DEF WishInv, BrowserInv, HeartsFollow
<1> QED BY <1>1 DEF HeartsAreSaved

LEMMA NoRequestIs == NoRequest \in Request /\ NoRequest.kind = "none"
<1>1. SomeTab \in Tabs
  BY WishlistAssumption DEF SomeTab
<1> QED BY <1>1 DEF NoRequest, Request, RequestKinds, Stages

LEMMA WishStarts == WishInit => WishInv
<1> SUFFICES ASSUME WishInit PROVE WishInv
  OBVIOUS
<1>1. WishTyped
  <2>1. request \in [Requests -> Request]
    BY NoRequestIs DEF WishInit
  <2>2. tab \in [Tabs -> TabView]
    BY DEF WishInit, TabView
  <2>3. WishTypeOK
    <3>1. wishRows \in [Products -> Nat] /\ counter \in [Products -> Int]
      BY DEF WishInit
    <3>2. local \subseteq Products /\ hasToken \in BOOLEAN /\ wanted \subseteq Products
      BY DEF WishInit
    <3> QED BY ONLY <2>1, <2>2, <3>1, <3>2 DEF WishTypeOK
  <2> QED BY <2>3, FS_EmptySet DEF WishInit, WishTyped
<1>2. \A r \in Requests : request[r].kind = "none"
  BY NoRequestIs DEF WishInit
<1>3. Account = {} /\ SigningIn = {}
  BY <1>2 DEF WishInit, Account, SigningIn
<1>4. CounterFollows
  <2> SUFFICES ASSUME NEW p \in Products
               PROVE  counter[p] + BeingCounted(p) + lost[p] = wishRows[p] - merged[p]
    BY DEF CounterFollows
  <2>1. {c \in counting : c.product = p} = {}
    BY DEF WishInit
  <2>2. BeingCounted(p) = 0
    BY <2>1, SumEmpty DEF BeingCounted
  <2> QED BY <2>2 DEF WishInit
<1>5. CountsOnce /\ SignsInOnce
  BY <1>2 DEF CountsOnce, SignsInOnce, WillCount, Runs
<1>6. OneRowEach /\ GuestsSee /\ MergeKnows /\ HeartsFollow /\ SavedIsKept /\ GuestListIsOwn
  BY <1>3 DEF WishInit, OneRowEach, GuestsSee, MergeKnows, HeartsFollow, SavedIsKept, GuestListIsOwn
<1> QED BY <1>1, <1>4, <1>5, <1>6 DEF WishInv, AccountInv, BrowserInv

(* The account's side does not see what the browser does. *)
LEMMA AccountKeeps ==
    ASSUME WishTyped, AccountInv, UNCHANGED <<accountParts, merged, lost, doubled>>,
           gestures \in Nat, gestures' \in Nat, gestures <= gestures',
           \A r \in Requests : WillCount(r)' =>
               \/ WillCount(r) /\ request'[r].of = request[r].of
               \/ gestures < gestures' /\ \E p \in Products : request'[r].of = {p}
    PROVE  AccountInv'
<1>1. CounterFollows'
  <2>1. \A p \in Products : BeingCounted(p)' = BeingCounted(p)
    BY DEF BeingCounted, accountParts
  <2> QED BY <2>1 DEF CounterFollows, AccountInv, accountParts
<1>2. OneRowEach'
  BY DEF OneRowEach, AccountInv, accountParts
<1>3. CountsOnce'
  <2> SUFFICES ASSUME NEW r \in Requests, WillCount(r)'
               PROVE  /\ \E p \in Products : request'[r].of = {p}
                      /\ \A c \in counting : c.request = r => c.gesture < gestures'
    BY DEF CountsOnce, accountParts
  <2>0. \A c \in counting : c.gesture \in Nat /\ c.gesture <= gestures
    BY DEF WishTyped, Updates
  <2>1. CASE WillCount(r) /\ request'[r].of = request[r].of
    <3>1. /\ \E p \in Products : request[r].of = {p}
          /\ \A c \in counting : c.request = r => c.gesture < gestures
      BY <2>1 DEF AccountInv, CountsOnce
    <3> QED BY <2>1, <3>1, <2>0
  <2>2. CASE gestures < gestures' /\ \E p \in Products : request'[r].of = {p}
    BY <2>2, <2>0
  <2> QED BY <2>1, <2>2
<1> QED BY <1>1, <1>2, <1>3 DEF AccountInv

(* One request is put in the place of another. *)
LEMMA RequestBecomes ==
    ASSUME WishTyped, NEW r \in Requests, NEW d \in Request, request' = [request EXCEPT ![r] = d]
    PROVE  /\ request' \in [Requests -> Request]
           /\ \A q \in Requests : request'[q] = IF q = r THEN d ELSE request[q]
BY DEF WishTyped, WishTypeOK

-----------------------------------------------------------------------------
(* What a tab does *)

LEMMA GuestToggleKeeps ==
    ASSUME WishInv, NEW t \in Tabs, NEW p \in Products, GuestToggle(t, p)
    PROVE  WishInv'
<1> PICK next \in SUBSET Products :
      next = IF p \in tab[t].slugs THEN tab[t].slugs \ {p} ELSE tab[t].slugs \cup {p}
  BY DEF WishInv, WishTyped, WishTypeOK, TabView
<1>1. /\ ~tab[t].user /\ gestures' = gestures + 1 /\ local' = next
      /\ tab' = [u \in Tabs |-> IF u = t THEN [tab[t] EXCEPT !.slugs = next]
                                ELSE [tab[u] EXCEPT !.notified = TRUE]]
      /\ wanted' = IF p \in next THEN wanted \cup {p} ELSE wanted \ {p}
      /\ guestSaved' = IF p \in next THEN guestSaved \cup {p} ELSE guestSaved \ {p}
      /\ guestRaced' = (guestRaced \/ tab[t].notified \/ SigningIn # {})
      /\ UNCHANGED <<wishRows, counter, counting, hasToken, request, losses, merged, lost, crossed, late,
                     doubled>>
  BY DEF GuestToggle, Gesture, accountParts
<1>2. tab' \in [Tabs -> TabView]
  <2>1. \A u \in Tabs : tab[u] \in TabView
    BY DEF WishInv, WishTyped, WishTypeOK
  <2>2. \A u \in Tabs : [tab[t] EXCEPT !.slugs = next] \in TabView
                        /\ [tab[u] EXCEPT !.notified = TRUE] \in TabView
    BY <2>1 DEF TabView
  <2> QED BY <1>1, <2>2
<1>3. \A u \in Tabs :
        /\ tab'[u].user = tab[u].user
        /\ u # t => tab'[u].notified /\ tab'[u].slugs = tab[u].slugs
        /\ u = t => tab'[u].slugs = next /\ tab'[u].notified = tab[u].notified
  BY <1>1 DEF WishInv, WishTyped, WishTypeOK, TabView
<1>4. Account' = Account /\ SigningIn' = SigningIn
  BY <1>1 DEF Account, SigningIn
<1>5. WishTyped'
  <2>1. WishTypeOK'
    BY <1>1, <1>2 DEF WishInv, WishTyped, WishTypeOK
  <2>2. \A c \in counting : c.gesture \in Nat
    BY DEF WishInv, WishTyped, Updates
  <2>3. Updates' = Updates
    BY DEF Updates
  <2> QED BY <1>1, <2>1, <2>2, <2>3 DEF WishInv, WishTyped
<1>6. AccountInv'
  <2>1. UNCHANGED <<accountParts, merged, lost, doubled>> /\ gestures \in Nat /\ gestures' \in Nat
        /\ gestures <= gestures'
    BY <1>1 DEF WishInv, WishTyped, accountParts
  <2>2. \A r \in Requests : WillCount(r)' => WillCount(r) /\ request'[r].of = request[r].of
    BY <1>1 DEF WillCount, Runs
  <2> QED BY <2>1, <2>2, AccountKeeps DEF WishInv
<1>7. GuestsSee'
  BY <1>1, <1>3 DEF GuestsSee
<1>8. ~guestRaced' /\ ~late => tab[t].slugs = local /\ SigningIn = {}
  BY <1>1 DEF WishInv, BrowserInv, GuestsSee
<1>9. MergeKnows'
  <2>1. ~guestRaced' => SigningIn = {}
    BY <1>1
  <2> QED BY <2>1, <1>4 DEF MergeKnows
<1>10. SignsInOnce'
  BY <1>1, <1>3 DEF WishInv, WishTyped, WishTypeOK, Request, BrowserInv, SignsInOnce
<1>11. HeartsFollow'
  BY <1>1, <1>3, <1>4 DEF WishInv, BrowserInv, HeartsFollow
<1>12. SavedIsKept' /\ GuestListIsOwn'
  <2>1. SUFFICES ASSUME ~guestRaced', ~late
                 PROVE  wanted' \subseteq local' \cup Account /\ local' \subseteq guestSaved'
    BY <1>1, <1>4 DEF SavedIsKept, GuestListIsOwn
  <2>2. wanted \subseteq local \cup Account /\ local \subseteq guestSaved
    BY <1>1, <2>1 DEF WishInv, BrowserInv, SavedIsKept, GuestListIsOwn
  <2> QED BY <1>1, <1>8, <2>1, <2>2
<1> QED BY <1>5, <1>6, <1>7, <1>9, <1>10, <1>11, <1>12 DEF WishInv, BrowserInv

(* The browser's list, the account and what is wanted of it stay, and so do  *)
(* the requests but for one that is sent.                                   *)
LEMMA WishSendKeeps ==
    ASSUME WishInv, NEW t \in Tabs, NEW kind \in RequestKinds, NEW stage \in Stages,
           NEW of \in SUBSET Products, Sends(t, kind, stage, of), gestures' = gestures + 1,
           UNCHANGED <<accountParts, merged, lost, doubled>>,
           tab' \in [Tabs -> TabView], hasToken' \in BOOLEAN, UNCHANGED <<local, wanted>>,
           kind \in {"add", "remove"} => \E p \in Products : of = {p}
    PROVE  WishTyped' /\ AccountInv'
<1>1. PICK r \in Requests :
        /\ request[r].kind = "none"
        /\ request' = [request EXCEPT ![r] = [kind |-> kind, at |-> stage, tab |-> t, of |-> of,
                                              found |-> {}]]
  BY DEF Sends
<1> PICK d \in Request : d = [kind |-> kind, at |-> stage, tab |-> t, of |-> of, found |-> {}]
  BY DEF Request
<1>2. /\ request' \in [Requests -> Request]
      /\ \A q \in Requests : request'[q] = IF q = r THEN d ELSE request[q]
  BY <1>1, RequestBecomes DEF WishInv
<1>3. WishTyped'
  BY <1>2 DEF WishInv, WishTyped, WishTypeOK, Updates, accountParts
<1>4. AccountInv'
  <2>1. gestures \in Nat /\ gestures' \in Nat /\ gestures < gestures' /\ gestures <= gestures'
    BY DEF WishInv, WishTyped
  <2>2. \A q \in Requests : WillCount(q)' =>
          \/ WillCount(q) /\ request'[q].of = request[q].of
          \/ gestures < gestures' /\ \E p \in Products : request'[q].of = {p}
    BY <1>2, <2>1 DEF WillCount, Runs
  <2> QED BY <2>1, <2>2, AccountKeeps DEF WishInv
<1> QED BY <1>3, <1>4

LEMMA SentIs ==
    ASSUME WishTyped, NEW t \in Tabs, NEW kind \in RequestKinds, NEW stage \in Stages,
           NEW of \in SUBSET Products, Sends(t, kind, stage, of)
    PROVE  \E r \in Requests :
             /\ request[r].kind = "none"
             /\ request'[r].kind = kind /\ request'[r].at = stage
             /\ request'[r].tab = t /\ request'[r].of = of
             /\ \A q \in Requests \ {r} : request'[q] = request[q]
<1>1. PICK r \in Requests :
        /\ request[r].kind = "none"
        /\ request' = [request EXCEPT ![r] = [kind |-> kind, at |-> stage, tab |-> t, of |-> of,
                                              found |-> {}]]
  BY DEF Sends
<1> PICK d \in Request : d = [kind |-> kind, at |-> stage, tab |-> t, of |-> of, found |-> {}]
  BY DEF Request
<1>2. \A q \in Requests : request'[q] = IF q = r THEN d ELSE request[q]
  BY <1>1, RequestBecomes
<1> QED BY <1>1, <1>2

LEMMA SignInKeeps ==
    ASSUME WishInv, NEW t \in Tabs, SignIn(t)
    PROVE  WishInv'
<1> PICK stage \in Stages : stage = IF local = {} THEN "me" ELSE "find"
  BY DEF Stages
<1>0. local \in SUBSET Products /\ "signIn" \in RequestKinds
  BY DEF WishInv, WishTyped, WishTypeOK, RequestKinds
<1>1. /\ ~tab[t].user /\ gestures' = gestures + 1 /\ hasToken' = TRUE
      /\ \A r \in InFlightOf(t) : request[r].kind # "signIn"
      /\ Sends(t, "signIn", stage, local)
      /\ UNCHANGED <<accountParts, local, tab, losses, wanted, guestSaved, merged, lost, guestRaced, crossed,
                     late, doubled>>
  BY DEF SignIn, Gesture, wishHistory
<1>2. WishTyped' /\ AccountInv'
  <2>1. tab' \in [Tabs -> TabView] /\ hasToken' \in BOOLEAN
    BY <1>1 DEF WishInv, WishTyped, WishTypeOK
  <2> QED BY <2>1, <1>0, <1>1, WishSendKeeps
<1>3. PICK r \in Requests :
        /\ request[r].kind = "none"
        /\ request'[r].kind = "signIn" /\ request'[r].at = stage
        /\ request'[r].tab = t /\ request'[r].of = local
        /\ \A q \in Requests \ {r} : request'[q] = request[q]
  BY <1>0, <1>1, SentIs DEF WishInv
<1>4. Account' = Account
  BY <1>1 DEF Account, accountParts
<1>5. GuestsSee' /\ SavedIsKept' /\ GuestListIsOwn'
  BY <1>1, <1>4 DEF WishInv, BrowserInv, GuestsSee, SavedIsKept, GuestListIsOwn
<1>6. MergeKnows'
  <2>1. SUFFICES ASSUME ~guestRaced, NEW q \in Requests, request'[q].kind = "signIn", request'[q].at # "me"
                 PROVE  /\ local \subseteq request'[q].of
                        /\ request'[q].at = "write" => wanted \cap request'[q].found \subseteq Account
                        /\ request'[q].at = "answer" => wanted \cap request'[q].of \subseteq Account
    BY <1>1, <1>4 DEF MergeKnows, SigningIn
  <2>2. CASE q = r
    BY <2>2, <1>3
  <2>3. CASE q # r
    BY <2>1, <2>3, <1>3 DEF WishInv, BrowserInv, MergeKnows, SigningIn
  <2> QED BY <2>2, <2>3
<1>7. SignsInOnce'
  <2>1. \A q \in Requests : request[q].kind = "signIn" => request[q].tab # t
    BY <1>1 DEF InFlightOf
  <2> QED BY <2>1, <1>1, <1>3 DEF WishInv, BrowserInv, SignsInOnce
<1>8. HeartsFollow'
  <2>1. \A q \in Requests : request[q].kind \in Tells => request'[q] = request[q]
    BY <1>3 DEF Tells
  <2> QED BY <2>1, <1>1, <1>4 DEF WishInv, BrowserInv, HeartsFollow
<1> QED BY <1>2, <1>5, <1>6, <1>7, <1>8 DEF WishInv, BrowserInv

(* A request that is no sign-in is sent, from a tab that shows what it did.  *)
LEMMA AskKeeps ==
    ASSUME WishInv, NEW t \in Tabs, NEW kind \in RequestKinds \ {"signIn"}, NEW stage \in Stages,
           NEW of \in SUBSET Products, Sends(t, kind, stage, of), gestures' = gestures + 1,
           UNCHANGED <<accountParts, local, hasToken, losses, wishHistory>>,
           tab' \in [Tabs -> TabView],
           \A u \in Tabs : u # t => tab'[u] = tab[u],
           \/ tab'[t] = tab[t]
           \/ /\ InFlightOf(t) = {}
              /\ tab'[t].user => kind \in Tells
              /\ ~tab'[t].user => tab'[t].slugs = local,
           kind \in {"add", "remove"} => \E p \in Products : of = {p}
    PROVE  WishInv'
<1>1. UNCHANGED <<accountParts, local, losses, wanted, guestSaved, merged, lost, guestRaced, crossed, late,
                  doubled>>
  BY DEF wishHistory
<1>2. WishTyped' /\ AccountInv'
  <2>1. hasToken' \in BOOLEAN
    BY DEF WishInv, WishTyped, WishTypeOK
  <2> QED BY <2>1, <1>1, WishSendKeeps
<1>3. PICK r \in Requests :
        /\ request[r].kind = "none"
        /\ request'[r].kind = kind /\ request'[r].at = stage
        /\ request'[r].tab = t /\ request'[r].of = of
        /\ \A q \in Requests \ {r} : request'[q] = request[q]
  BY SentIs DEF WishInv
<1>4. Account' = Account
  BY <1>1 DEF Account, accountParts
<1>5. SavedIsKept' /\ GuestListIsOwn'
  BY <1>1, <1>4 DEF WishInv, BrowserInv, SavedIsKept, GuestListIsOwn
<1>6. GuestsSee'
  BY <1>1 DEF WishInv, BrowserInv, GuestsSee
<1>7. SigningIn' = SigningIn /\ \A q \in SigningIn : request'[q] = request[q]
  BY <1>3 DEF SigningIn
<1>8. MergeKnows'
  BY <1>1, <1>4, <1>7 DEF WishInv, BrowserInv, MergeKnows
<1>9. \A q \in Requests : request[q].kind # "none" /\ tab'[t] # tab[t] => request[q].tab # t
  BY DEF InFlightOf
<1>10. SignsInOnce'
  <2>1. SUFFICES ASSUME NEW q \in Requests, request'[q].kind = "signIn"
                 PROVE  /\ ~tab'[request'[q].tab].user
                        /\ \A s \in Requests : request'[s].kind = "signIn" /\ request'[s].tab = request'[q].tab => s = q
    BY DEF SignsInOnce
  <2>2. q # r /\ request'[q] = request[q] /\ request[q].tab \in Tabs
    BY <1>3, <2>1 DEF WishInv, WishTyped, WishTypeOK, Request
  <2>3. ~tab[request[q].tab].user
        /\ \A s \in Requests : request[s].kind = "signIn" /\ request[s].tab = request[q].tab => s = q
    BY <2>1, <2>2 DEF WishInv, BrowserInv, SignsInOnce
  <2>4. ~tab'[request[q].tab].user
    BY <2>1, <2>2, <2>3, <1>9
  <2>5. \A s \in Requests : request'[s].kind = "signIn" => request'[s] = request[s]
    BY <1>3
  <2> QED BY <2>2, <2>3, <2>4, <2>5
<1>11. HeartsFollow'
  <2>1. SUFFICES ASSUME ~crossed, NEW u \in Tabs, tab'[u].user
                 PROVE  \/ tab'[u].slugs = Account
                        \/ \E q \in Requests : request'[q].kind \in Tells /\ request'[q].tab = u
    BY <1>1, <1>4 DEF HeartsFollow
  <2>2. \A q \in Requests : request[q].kind \in Tells => request'[q] = request[q]
    BY <1>3 DEF Tells
  <2>3. CASE tab'[u] = tab[u]
    <3>1. \/ tab[u].slugs = Account
          \/ \E q \in Requests : request[q].kind \in Tells /\ request[q].tab = u
      BY <2>1, <2>3 DEF WishInv, BrowserInv, HeartsFollow
    <3> QED BY <3>1, <2>2, <2>3
  <2>4. CASE tab'[u] # tab[u]
    <3>1. u = t /\ kind \in Tells
      BY <2>1, <2>4
    <3> QED BY <3>1, <1>3
  <2> QED BY <2>3, <2>4
<1> QED BY <1>2, <1>5, <1>6, <1>8, <1>10, <1>11 DEF WishInv, BrowserInv

LEMMA UserAsks ==
    ASSUME WishInv, NEW t \in Tabs,
           SignOut(t) \/ \E p \in Products : UserToggle(t, p)
    PROVE  WishInv'
<1>0. tab \in [Tabs -> TabView]
  BY DEF WishInv, WishTyped, WishTypeOK
<1>t. tab' = tab => /\ tab' \in [Tabs -> TabView] /\ tab'[t] = tab[t]
                    /\ \A u \in Tabs : u # t => tab'[u] = tab[u]
  BY <1>0
<1>1. CASE SignOut(t)
  <2>1. /\ gestures' = gestures + 1 /\ Sends(t, "logout", "answer", {})
        /\ UNCHANGED <<accountParts, local, hasToken, losses, wishHistory>> /\ tab' = tab
    BY <1>1 DEF SignOut, Gesture, browserParts
  <2>2. "logout" \in RequestKinds \ {"signIn"} /\ "answer" \in Stages /\ {} \in SUBSET Products
        /\ "logout" \notin {"add", "remove"}
    BY DEF RequestKinds, Stages
  <2> QED BY <1>t, <2>1, <2>2, AskKeeps
<1>2. ASSUME NEW p \in Products, UserToggle(t, p) PROVE WishInv'
  <2>1. /\ gestures' = gestures + 1
        /\ Sends(t, "remove", "write", {p}) \/ Sends(t, "add", "find", {p})
        /\ UNCHANGED <<accountParts, local, hasToken, losses, wishHistory>> /\ tab' = tab
    BY <1>2 DEF UserToggle, Gesture, browserParts
  <2>2. {"add", "remove"} \subseteq RequestKinds \ {"signIn"} /\ {"write", "find"} \subseteq Stages
        /\ {p} \in SUBSET Products
    BY DEF RequestKinds, Stages
  <2>3. CASE Sends(t, "remove", "write", {p})
    BY <1>t, <2>1, <2>2, <2>3, AskKeeps
  <2>4. CASE Sends(t, "add", "find", {p})
    BY <1>t, <2>1, <2>2, <2>4, AskKeeps
  <2> QED BY <2>1, <2>3, <2>4
<1> QED BY <1>1, <1>2

(* Tabs change and no request does: a storage event, and the page of a       *)
(* guest that is loaded again.                                              *)
LEMMA TabsChange ==
    ASSUME WishInv, NEW t \in Tabs, gestures' \in Nat, gestures <= gestures',
           UNCHANGED <<accountParts, local, hasToken, request, losses, wishHistory>>,
           tab' \in [Tabs -> TabView],
           \A u \in Tabs : u # t => tab'[u] = tab[u],
           \/ tab'[t].user = tab[t].user /\ (tab[t].user => tab'[t].slugs = tab[t].slugs)
           \/ ~tab'[t].user /\ InFlightOf(t) = {},
           ~tab'[t].user => tab'[t].slugs = local
    PROVE  WishInv'
<1>1. UNCHANGED <<accountParts, local, losses, wanted, guestSaved, merged, lost, guestRaced, crossed, late,
                  doubled, request>>
  BY DEF wishHistory
<1>2. WishTyped'
  BY <1>1 DEF WishInv, WishTyped, WishTypeOK, accountParts, Updates
<1>3. AccountInv'
  <2>1. \A r \in Requests : WillCount(r)' => WillCount(r) /\ request'[r].of = request[r].of
    BY <1>1 DEF WillCount, Runs
  <2>2. gestures \in Nat
    BY DEF WishInv, WishTyped
  <2> QED BY <1>1, <2>1, <2>2, AccountKeeps DEF WishInv
<1>4. Account' = Account /\ SigningIn' = SigningIn
  BY <1>1 DEF Account, SigningIn, accountParts
<1>5. GuestsSee' /\ SavedIsKept' /\ GuestListIsOwn' /\ MergeKnows'
  BY <1>1, <1>4 DEF WishInv, BrowserInv, GuestsSee, SavedIsKept, GuestListIsOwn, MergeKnows
<1>6. \A u \in Tabs : tab'[u].user => tab[u].user /\ tab'[u].slugs = tab[u].slugs
  OBVIOUS
<1>7. SignsInOnce'
  BY <1>1, <1>6 DEF WishInv, WishTyped, WishTypeOK, Request, BrowserInv, SignsInOnce
<1>8. HeartsFollow'
  BY <1>1, <1>4, <1>6 DEF WishInv, BrowserInv, HeartsFollow
<1> QED BY <1>2, <1>3, <1>5, <1>7, <1>8 DEF WishInv, BrowserInv

LEMMA StorageEventKeeps ==
    ASSUME WishInv, NEW t \in Tabs, StorageEvent(t)
    PROVE  WishInv'
<1>0. \A u \in Tabs : tab[u] \in TabView
  BY DEF WishInv, WishTyped, WishTypeOK
<1> PICK v \in TabView :
      v = [tab[t] EXCEPT !.notified = FALSE, !.slugs = IF tab[t].user THEN tab[t].slugs ELSE local]
  BY <1>0 DEF TabView, WishInv, WishTyped, WishTypeOK
<1>1. /\ tab' = [tab EXCEPT ![t] = v]
      /\ UNCHANGED <<accountParts, local, hasToken, request, losses, wishHistory>> /\ gestures' = gestures
  BY <1>0 DEF StorageEvent, wishBounds, TabView, WishInv, WishTyped, WishTypeOK
<1>2. v.user = tab[t].user /\ (tab[t].user => v.slugs = tab[t].slugs) /\ (~tab[t].user => v.slugs = local)
  BY <1>0 DEF TabView
<1>3. tab' \in [Tabs -> TabView] /\ \A u \in Tabs : tab'[u] = IF u = t THEN v ELSE tab[u]
  BY <1>1 DEF WishInv, WishTyped, WishTypeOK
<1> QED BY <1>1, <1>2, <1>3, TabsChange DEF WishInv, WishTyped

LEMMA ReloadKeeps ==
    ASSUME WishInv, NEW t \in Tabs, Reload(t)
    PROVE  WishInv'
<1> PICK v \in TabView : v = [user |-> hasToken, slugs |-> IF hasToken THEN {} ELSE local,
                              shown |-> {}, notified |-> FALSE]
  BY DEF TabView, WishInv, WishTyped, WishTypeOK
<1>1. /\ InFlightOf(t) = {} /\ gestures' = gestures + 1 /\ tab' = [tab EXCEPT ![t] = v]
      /\ IF hasToken THEN Sends(t, "list", "read", {}) ELSE UNCHANGED request
      /\ UNCHANGED <<accountParts, local, hasToken, losses, wishHistory>>
  BY DEF Reload, Gesture
<1>2. tab' \in [Tabs -> TabView] /\ \A u \in Tabs : tab'[u] = IF u = t THEN v ELSE tab[u]
  BY <1>1 DEF WishInv, WishTyped, WishTypeOK
<1>3. CASE hasToken
  <2>1. "list" \in RequestKinds \ {"signIn"} /\ "read" \in Stages /\ {} \in SUBSET Products
        /\ "list" \in Tells /\ "list" \notin {"add", "remove"}
    BY DEF RequestKinds, Stages, Tells
  <2> QED BY <1>1, <1>2, <1>3, <2>1, AskKeeps
<1>4. CASE ~hasToken
  <2>1. gestures' \in Nat /\ gestures <= gestures'
    BY <1>1 DEF WishInv, WishTyped
  <2> QED BY <1>1, <1>2, <1>4, <2>1, TabsChange
<1> QED BY <1>3, <1>4

-----------------------------------------------------------------------------
(* What a request does *)

Counting(d) ==
    (d.kind = "add" /\ d.at \in {"find", "write"}) \/ (d.kind = "remove" /\ d.at = "write")

(* A request goes on or ends, and neither the account nor the browser        *)
(* changes; what the account has may be wanted again.                       *)
LEMMA RequestMoves ==
    ASSUME WishInv, NEW r \in Requests, NEW d \in Request, request' = [request EXCEPT ![r] = d],
           UNCHANGED <<accountParts, browserParts, gestures, guestSaved, merged, lost, guestRaced, late, doubled>>,
           wanted' \in SUBSET Products, wanted \subseteq wanted', wanted' \ wanted \subseteq Account,
           crossed => crossed',
           d.kind = "signIn" =>
             /\ request[r].kind = "signIn" /\ d.tab = request[r].tab
             /\ d.at # "me" => /\ request[r].at # "me" /\ d.of = request[r].of
                               /\ d.at = "write" => d.found \subseteq Account
                               /\ d.at = "answer" => d.of \subseteq Account,
           Counting(d) => Counting(request[r]) /\ d.of = request[r].of,
           \/ d.kind \in Tells /\ d.tab = request[r].tab
           \/ request[r].kind \notin Tells
           \/ crossed'
    PROVE  WishInv'
<1>1. UNCHANGED <<wishRows, counter, counting, local, hasToken, tab>>
  BY DEF accountParts, browserParts
<1>2. /\ request' \in [Requests -> Request]
      /\ \A q \in Requests : request'[q] = IF q = r THEN d ELSE request[q]
  BY RequestBecomes DEF WishInv
<1>3. WishTyped'
  <2>1. WishTypeOK'
    BY <1>1, <1>2 DEF WishInv, WishTyped, WishTypeOK
  <2>2. Updates' = Updates
    BY DEF Updates
  <2> QED BY <1>1, <2>1, <2>2 DEF WishInv, WishTyped
<1>4. AccountInv'
  <2>1. \A q \in Requests : WillCount(q)' => WillCount(q) /\ request'[q].of = request[q].of
    BY <1>2 DEF WillCount, Runs, Counting
  <2>2. gestures \in Nat /\ gestures' \in Nat /\ gestures <= gestures'
    BY DEF WishInv, WishTyped
  <2> QED BY <2>1, <2>2, AccountKeeps DEF WishInv
<1>5. Account' = Account
  BY <1>1 DEF Account
<1>6. GuestsSee' /\ SavedIsKept' /\ GuestListIsOwn'
  BY <1>1, <1>5 DEF WishInv, BrowserInv, GuestsSee, SavedIsKept, GuestListIsOwn
<1>7. MergeKnows'
  <2>1. SUFFICES ASSUME ~guestRaced, NEW q \in Requests, request'[q].kind = "signIn", request'[q].at # "me"
                 PROVE  /\ local \subseteq request'[q].of
                        /\ request'[q].at = "write" => wanted' \cap request'[q].found \subseteq Account
                        /\ request'[q].at = "answer" => wanted' \cap request'[q].of \subseteq Account
    BY <1>1, <1>5 DEF MergeKnows, SigningIn
  <2>2. CASE q = r
    <3>1. request[r].kind = "signIn" /\ request[r].at # "me" /\ d.of = request[r].of
      BY <1>2, <2>1, <2>2
    <3>2. local \subseteq request[r].of
      BY <3>1, <2>1 DEF WishInv, BrowserInv, MergeKnows, SigningIn
    <3> QED BY <1>2, <2>1, <2>2, <3>1, <3>2
  <2>3. CASE q # r
    <3>1. request'[q] = request[q] /\ q \in SigningIn
      BY <1>2, <2>1, <2>3 DEF SigningIn
    <3>2. /\ local \subseteq request[q].of
          /\ request[q].at = "write" => wanted \cap request[q].found \subseteq Account
          /\ request[q].at = "answer" => wanted \cap request[q].of \subseteq Account
      BY <3>1, <2>1 DEF WishInv, BrowserInv, MergeKnows
    <3> QED BY <3>1, <3>2
  <2> QED BY <2>2, <2>3
<1>8. SignsInOnce'
  <2>1. \A q \in Requests : request'[q].kind = "signIn" =>
          request[q].kind = "signIn" /\ request'[q].tab = request[q].tab
    BY <1>2
  <2> QED BY <2>1, <1>1 DEF WishInv, BrowserInv, SignsInOnce
<1>9. HeartsFollow'
  <2>1. SUFFICES ASSUME ~crossed', NEW u \in Tabs, tab[u].user
                 PROVE  \/ tab[u].slugs = Account
                        \/ \E q \in Requests : request'[q].kind \in Tells /\ request'[q].tab = u
    BY <1>1, <1>5 DEF HeartsFollow
  <2>2. \/ tab[u].slugs = Account
        \/ \E q \in Requests : request[q].kind \in Tells /\ request[q].tab = u
    BY <2>1 DEF WishInv, BrowserInv, HeartsFollow
  <2>3. ASSUME NEW q \in Requests, request[q].kind \in Tells, request[q].tab = u
        PROVE  request'[q].kind \in Tells /\ request'[q].tab = u
    BY <2>1, <2>3, <1>2
  <2> QED BY <2>2, <2>3
<1> QED BY <1>3, <1>4, <1>6, <1>7, <1>8, <1>9 DEF WishInv, BrowserInv

(* A request at another stage. *)
LEMMA StageIs ==
    ASSUME WishTyped, NEW r \in Requests, NEW stage \in Stages, Goes(r, stage)
    PROVE  \E d \in Request :
             /\ request' = [request EXCEPT ![r] = d]
             /\ d.kind = request[r].kind /\ d.tab = request[r].tab /\ d.of = request[r].of
             /\ d.found = request[r].found /\ d.at = stage
<1>1. request[r] \in Request /\ request \in [Requests -> Request]
  BY DEF WishTyped, WishTypeOK
<1> DEFINE d == [request[r] EXCEPT !.at = stage]
<1>2. d \in Request /\ d.kind = request[r].kind /\ d.tab = request[r].tab /\ d.of = request[r].of
      /\ d.found = request[r].found /\ d.at = stage
  BY <1>1 DEF Request
<1>3. request' = [request EXCEPT ![r] = d]
  BY <1>1 DEF Goes
<1> QED BY <1>2, <1>3

LEMMA ReadingMoves ==
    ASSUME WishInv, NEW r \in Requests, FindAdded(r) \/ FindMerged(r) \/ ReadList(r)
    PROVE  WishInv'
<1>0. request[r] \in Request /\ request \in [Requests -> Request] /\ Account \in SUBSET Products /\ wanted \in SUBSET Products
      /\ {"find", "write", "read", "answer", "me"} \subseteq Stages
  BY DEF WishInv, WishTyped, WishTypeOK, Account, Stages
<1>1. CASE FindAdded(r)
  <2> PICK stage \in Stages : stage = IF request[r].of \subseteq Account THEN "read" ELSE "write"
    BY <1>0
  <2> PICK found \in SUBSET Products : found = Account \cap request[r].of
    BY <1>0
  <2>1. /\ request[r].kind = "add" /\ request[r].at = "find"
        /\ request' = [request EXCEPT ![r].found = found, ![r].at = stage]
        /\ wanted' = wanted \cup (request[r].of \cap Account)
        /\ UNCHANGED <<accountParts, browserParts, gestures, guestSaved, merged, lost, guestRaced, late,
                       doubled, crossed>>
    BY <1>1 DEF FindAdded, Runs, wishBounds
  <2> PICK d \in Request : d = [request[r] EXCEPT !.found = found, !.at = stage]
    BY <1>0 DEF Request
  <2>2. /\ request' = [request EXCEPT ![r] = d]
        /\ d.kind = request[r].kind /\ d.tab = request[r].tab /\ d.of = request[r].of
        /\ d.found = found /\ d.at = stage
    BY <1>0, <2>1 DEF Request
  <2>3. d.kind \in Tells /\ d.kind # "signIn" /\ Counting(request[r])
    BY <2>1, <2>2 DEF Tells, Counting
  <2> QED BY <1>0, <2>1, <2>2, <2>3, RequestMoves
<1>2. CASE FindMerged(r)
  <2> PICK stage \in Stages : stage = IF request[r].of \subseteq Account THEN "answer" ELSE "write"
    BY <1>0
  <2> PICK found \in SUBSET Products : found = Account \cap request[r].of
    BY <1>0
  <2>1. /\ request[r].kind = "signIn" /\ request[r].at = "find"
        /\ request' = [request EXCEPT ![r].found = found, ![r].at = stage]
        /\ UNCHANGED <<accountParts, browserParts, gestures, guestSaved, merged, lost, guestRaced, late,
                       doubled, crossed, wanted>>
    BY <1>2 DEF FindMerged, Runs, wishBounds, wishHistory
  <2> PICK d \in Request : d = [request[r] EXCEPT !.found = found, !.at = stage]
    BY <1>0 DEF Request
  <2>2. /\ request' = [request EXCEPT ![r] = d]
        /\ d.kind = request[r].kind /\ d.tab = request[r].tab /\ d.of = request[r].of
        /\ d.found = found /\ d.at = stage
    BY <1>0, <2>1 DEF Request
  <2>3. request[r].kind \notin Tells /\ ~Counting(d)
    BY <2>1, <2>2 DEF Tells, Counting
  <2>4. d.at = "write" => d.found \subseteq Account
    BY <2>2
  <2>5. d.at = "answer" => d.of \subseteq Account
    BY <2>2
  <2> QED BY <1>0, <2>1, <2>2, <2>3, <2>4, <2>5, RequestMoves
<1>3. CASE ReadList(r)
  <2>1. /\ request[r].kind \in Tells /\ request[r].at = "read"
        /\ request' = [request EXCEPT ![r].found = Account, ![r].at = "answer"]
        /\ UNCHANGED <<accountParts, browserParts, gestures, guestSaved, merged, lost, guestRaced, late,
                       doubled, crossed, wanted>>
    BY <1>3 DEF ReadList, Runs, wishBounds, wishHistory, Tells
  <2> PICK d \in Request : d = [request[r] EXCEPT !.found = Account, !.at = "answer"]
    BY <1>0 DEF Request
  <2>2. /\ request' = [request EXCEPT ![r] = d]
        /\ d.kind = request[r].kind /\ d.tab = request[r].tab /\ d.of = request[r].of
        /\ d.found = Account /\ d.at = "answer"
    BY <1>0, <2>1 DEF Request
  <2>3. d.kind \in Tells /\ d.kind # "signIn" /\ ~Counting(d)
    BY <2>1, <2>2 DEF Tells, Counting
  <2> QED BY <1>0, <2>1, <2>2, <2>3, RequestMoves
<1> QED BY <1>1, <1>2, <1>3

LEMMA FailureMoves ==
    ASSUME WishInv, NEW r \in Requests, RequestFails(r)
    PROVE  WishInv'
<1>0. request[r] \in Request /\ request \in [Requests -> Request] /\ wanted \in SUBSET Products
      /\ {"me"} \subseteq Stages
  BY DEF WishInv, WishTyped, WishTypeOK, Stages
<1> PICK d \in Request :
      d = IF request[r].kind = "signIn" THEN [request[r] EXCEPT !.at = "me"] ELSE NoRequest
  BY <1>0, NoRequestIs DEF Request
<1>1. /\ request' = [request EXCEPT ![r] = d] /\ crossed'
      /\ UNCHANGED <<accountParts, browserParts, gestures, guestSaved, merged, lost, guestRaced, late,
                     doubled, wanted>>
  BY <1>0 DEF RequestFails
<1>2. d.kind = "signIn" => request[r].kind = "signIn" /\ d.tab = request[r].tab /\ d.at = "me"
  BY <1>0, NoRequestIs DEF Request
<1>3. ~Counting(d)
  BY <1>0, NoRequestIs DEF Counting, Request
<1> QED BY <1>0, <1>1, <1>2, <1>3, RequestMoves

(* An update of the counter that starts adds to what is in flight. *)
LEMMA CountStarts ==
    ASSUME WishTyped, NEW c \in Updates, c \notin counting, counting' = counting \cup {c},
           NEW p \in Products
    PROVE  /\ BeingCounted(p) \in Int
           /\ BeingCounted(p)' = BeingCounted(p) + (IF c.product = p THEN c.by ELSE 0)
<1> DEFINE f == [e \in counting |-> e.by]
           g == [e \in counting' |-> e.by]
           S == {e \in counting : e.product = p}
           T == {e \in counting' : e.product = p}
<1>1. IsFiniteSet(S) /\ S \subseteq counting
  BY FS_Subset DEF WishTyped
<1>2. \A e \in S : f[e] \in Int /\ f[e] = g[e]
  BY DEF WishTyped, Updates
<1>3. BeingCounted(p) = SumFunctionOnSet(f, S) /\ BeingCounted(p)' = SumFunctionOnSet(g, T)
  BY DEF BeingCounted
<1>4. g[c] = c.by /\ c.by \in Int /\ c \notin S
  BY DEF Updates
<1>5. T = IF c.product = p THEN S \cup {c} ELSE S
  OBVIOUS
<1> HIDE DEF f, g, S, T
<1>6. SumFunctionOnSet(f, S) \in Int /\ SumFunctionOnSet(f, S) = SumFunctionOnSet(g, S)
  BY <1>1, <1>2, SumIsInt, SumAgrees
<1>7. SumFunctionOnSet(g, S \cup {c}) = SumFunctionOnSet(g, S) + g[c]
  <2>1. \A e \in S \cup {c} : g[e] \in Int
    BY <1>2, <1>4
  <2> QED BY <1>1, <1>4, <2>1, SumAdd
<1> QED BY <1>3, <1>4, <1>5, <1>6, <1>7

(* One that ends takes its part away. *)
LEMMA CountEnds ==
    ASSUME WishTyped, NEW c \in counting, counting' = counting \ {c}, NEW p \in Products
    PROVE  /\ BeingCounted(p) \in Int
           /\ BeingCounted(p)' = BeingCounted(p) - (IF c.product = p THEN c.by ELSE 0)
<1> DEFINE f == [e \in counting |-> e.by]
           g == [e \in counting' |-> e.by]
           S == {e \in counting : e.product = p}
           T == {e \in counting' : e.product = p}
<1>1. IsFiniteSet(S) /\ S \subseteq counting
  BY FS_Subset DEF WishTyped
<1>2. \A e \in S : f[e] \in Int
  BY DEF WishTyped, Updates
<1>3. BeingCounted(p) = SumFunctionOnSet(f, S) /\ BeingCounted(p)' = SumFunctionOnSet(g, T)
  BY DEF BeingCounted
<1>4. f[c] = c.by /\ c.by \in Int /\ (c \in S <=> c.product = p)
  BY DEF WishTyped, Updates
<1>5. T = S \ {c} /\ IsFiniteSet(T)
  BY <1>1, FS_Subset
<1>6. \A e \in T : f[e] = g[e]
  OBVIOUS
<1> HIDE DEF f, g, S, T
<1>7. SumFunctionOnSet(f, S) \in Int /\ SumFunctionOnSet(f, T) = SumFunctionOnSet(g, T)
      /\ SumFunctionOnSet(f, T) \in Int
  <2>1. SumFunctionOnSet(f, S) \in Int
    BY <1>1, <1>2, SumIsInt
  <2>2. SumFunctionOnSet(f, T) \in Int
    BY <1>2, <1>5, SumIsInt
  <2>3. SumFunctionOnSet(f, T) = SumFunctionOnSet(g, T)
    BY <1>5, <1>6, SumAgrees
  <2> QED BY <2>1, <2>2, <2>3
<1>8. c \in S => SumFunctionOnSet(f, S) = f[c] + SumFunctionOnSet(f, S \ {c})
  BY <1>1, <1>2, SumRemove
<1>9. CASE c \in S
  BY <1>3, <1>4, <1>5, <1>7, <1>8, <1>9
<1>10. CASE c \notin S
  <2>1. S \ {c} = S
    BY <1>10
  <2> QED BY <1>3, <1>4, <1>5, <1>7, <1>10, <2>1
<1> QED BY <1>9, <1>10

(* The rows change, and the browser does not: what is wanted and not in the  *)
(* account was so before, and a tab that could have noticed did.            *)
LEMMA WishRowsChange ==
    ASSUME WishInv, NEW r \in Requests, NEW d \in Request, request' = [request EXCEPT ![r] = d],
           UNCHANGED <<local, tab, guestSaved, guestRaced, late>>,
           wanted' \ Account' \subseteq wanted \ Account,
           ~crossed' => ~crossed /\ \A t \in Tabs \ {request[r].tab} : ~tab[t].user,
           d.kind = request[r].kind, d.tab = request[r].tab, d.of = request[r].of,
           \/ d.kind \in Tells
           \/ /\ d.kind = "signIn" /\ request[r].at = "write" /\ d.at = "answer"
              /\ request[r].of \ request[r].found \subseteq Account'
    PROVE  BrowserInv'
<1>1. \A q \in Requests : request'[q] = IF q = r THEN d ELSE request[q]
  BY RequestBecomes DEF WishInv
<1>2. GuestsSee' /\ SavedIsKept' /\ GuestListIsOwn'
  BY DEF WishInv, BrowserInv, GuestsSee, SavedIsKept, GuestListIsOwn
<1>3. MergeKnows'
  <2>1. SUFFICES ASSUME ~guestRaced, NEW q \in Requests, request'[q].kind = "signIn", request'[q].at # "me"
                 PROVE  /\ local \subseteq request'[q].of
                        /\ request'[q].at = "write" => wanted' \cap request'[q].found \subseteq Account'
                        /\ request'[q].at = "answer" => wanted' \cap request'[q].of \subseteq Account'
    BY DEF MergeKnows, SigningIn
  <2>2. request[q].kind = "signIn" /\ request'[q].of = request[q].of
    BY <1>1, <2>1
  <2>3. request[q].at # "me"
    BY <1>1, <2>1 DEF Tells
  <2>4. /\ local \subseteq request[q].of
        /\ request[q].at = "write" => wanted \cap request[q].found \subseteq Account
        /\ request[q].at = "answer" => wanted \cap request[q].of \subseteq Account
    BY <2>1, <2>2, <2>3 DEF WishInv, BrowserInv, MergeKnows, SigningIn
  <2>5. CASE q = r
    <3>1. request[r].at = "write" /\ d.at = "answer" /\ request[r].of \ request[r].found \subseteq Account'
      BY <1>1, <2>1, <2>5 DEF Tells
    <3>2. wanted' \cap request[r].found \subseteq Account'
      BY <2>4, <2>5, <3>1
    <3> QED BY <1>1, <2>2, <2>4, <2>5, <3>1, <3>2
  <2>6. CASE q # r
    BY <1>1, <2>4, <2>6
  <2> QED BY <2>5, <2>6
<1>4. SignsInOnce'
  <2>1. \A q \in Requests : request'[q].kind = request[q].kind /\ request'[q].tab = request[q].tab
    BY <1>1
  <2> QED BY <2>1 DEF WishInv, BrowserInv, SignsInOnce
<1>5. HeartsFollow'
  <2>1. SUFFICES ASSUME ~crossed', NEW u \in Tabs, tab[u].user
                 PROVE  \E q \in Requests : request'[q].kind \in Tells /\ request'[q].tab = u
    BY DEF HeartsFollow
  <2>2. u = request[r].tab
    BY <2>1
  <2>3. d.kind # "signIn"
    BY <2>1, <2>2 DEF WishInv, BrowserInv, SignsInOnce
  <2> QED BY <1>1, <2>2, <2>3
<1> QED BY <1>2, <1>3, <1>4, <1>5 DEF BrowserInv

UpdateOf(r, p, by) == [by |-> by, product |-> p, gesture |-> gestures, request |-> r]

(* The request of an update that starts has not counted, and will not again. *)
LEMMA CountsOnceMore ==
    ASSUME WishInv, NEW r \in Requests, WillCount(r), NEW by, by \in Int, NEW p \in Products,
           NEW d \in Request, request' = [request EXCEPT ![r] = d], d.at = "read", gestures' = gestures,
           Count(r, p, by)
    PROVE  /\ UpdateOf(r, p, by) \in Updates \ counting
           /\ UpdateOf(r, p, by).by = by /\ UpdateOf(r, p, by).product = p
           /\ counting' = counting \cup {UpdateOf(r, p, by)}
           /\ IsFiniteSet(counting') /\ counting' \in SUBSET Updates
           /\ \A e \in counting' : e.gesture <= gestures
           /\ CountsOnce'
<1>0. gestures \in Nat
  BY DEF WishInv, WishTyped
<1> PICK c \in Updates : c = [by |-> by, product |-> p, gesture |-> gestures, request |-> r]
  BY <1>0 DEF Updates
<1>1. c.by = by /\ c.product = p /\ c.gesture = gestures /\ c.request = r
  OBVIOUS
<1>2. counting' = counting \cup {c}
  BY DEF Count
<1>3. \A e \in counting : e.request = r => e.gesture < gestures
  BY DEF WishInv, AccountInv, CountsOnce
<1>4. c \notin counting
  BY <1>0, <1>1, <1>3
<1>5. IsFiniteSet(counting') /\ counting' \in SUBSET Updates /\ \A e \in counting' : e.gesture <= gestures
  <2>1. IsFiniteSet(counting) /\ counting \in SUBSET Updates /\ \A e \in counting : e.gesture <= gestures
    BY DEF WishInv, WishTyped
  <2>2. IsFiniteSet(counting')
    BY <1>2, <2>1, FS_AddElement
  <2> QED BY <1>0, <1>1, <1>2, <2>1, <2>2
<1>6. CountsOnce'
  <2>1. \A q \in Requests : request'[q] = IF q = r THEN d ELSE request[q]
    BY RequestBecomes DEF WishInv
  <2>2. SUFFICES ASSUME NEW q \in Requests, WillCount(q)'
                 PROVE  /\ \E s \in Products : request'[q].of = {s}
                        /\ \A e \in counting' : e.request = q => e.gesture < gestures
    BY DEF CountsOnce
  <2>3. q # r /\ WillCount(q)
    BY <2>1, <2>2 DEF WillCount, Runs
  <2>4. /\ \E s \in Products : request[q].of = {s}
        /\ \A e \in counting : e.request = q => e.gesture < gestures
    BY <2>3 DEF WishInv, AccountInv, CountsOnce
  <2> QED BY <1>1, <1>2, <2>1, <2>3, <2>4
<1> QED BY <1>1, <1>2, <1>4, <1>5, <1>6 DEF UpdateOf

LEMMA CreateItemKeeps ==
    ASSUME WishInv, NEW r \in Requests, CreateItem(r)
    PROVE  WishInv'
<1>0. request[r] \in Request /\ "read" \in Stages /\ WillCount(r)
  BY DEF WishInv, WishTyped, WishTypeOK, Stages, CreateItem, WillCount
<1>1. PICK p \in Products : request[r].of = {p}
  BY <1>0 DEF WishInv, AccountInv, CountsOnce
<1>2. /\ request[r].kind = "add" /\ request[r].at = "write"
      /\ wishRows' = [q \in Products |-> IF q = p THEN wishRows[q] + 1 ELSE wishRows[q]]
      /\ doubled' = (doubled \/ {p} \cap Account # {})
      /\ crossed' = (crossed \/ \E t \in Tabs \ {request[r].tab} : tab[t].user)
      /\ Count(r, p, 1) /\ wanted' = wanted \cup {p} /\ Goes(r, "read")
      /\ UNCHANGED <<counter, local, hasToken, tab, gestures, guestSaved, merged, lost, guestRaced, late>>
  BY <1>1 DEF CreateItem, Inserts, Runs, browserParts, wishBounds
<1>3. PICK d \in Request :
        /\ request' = [request EXCEPT ![r] = d]
        /\ d.kind = request[r].kind /\ d.tab = request[r].tab /\ d.of = request[r].of
        /\ d.found = request[r].found /\ d.at = "read"
  BY <1>0, <1>2, StageIs DEF WishInv
<1>4. PICK c \in Updates :
        /\ c.by = 1 /\ c.product = p /\ c \notin counting /\ counting' = counting \cup {c}
        /\ IsFiniteSet(counting') /\ counting' \in SUBSET Updates
        /\ \A e \in counting' : e.gesture <= gestures
        /\ CountsOnce'
  <2>1. Count(r, p, 1) /\ gestures' = gestures /\ 1 \in Int
    BY <1>2
  <2>2. /\ UpdateOf(r, p, 1) \in Updates \ counting
        /\ UpdateOf(r, p, 1).by = 1 /\ UpdateOf(r, p, 1).product = p
        /\ counting' = counting \cup {UpdateOf(r, p, 1)}
        /\ IsFiniteSet(counting') /\ counting' \in SUBSET Updates
        /\ \A e \in counting' : e.gesture <= gestures
        /\ CountsOnce'
    BY <1>0, <1>3, <2>1, CountsOnceMore
  <2> QED BY <2>2
<1>5. /\ wishRows \in [Products -> Nat] /\ wishRows' \in [Products -> Nat]
      /\ \A q \in Products : wishRows'[q] = IF q = p THEN wishRows[q] + 1 ELSE wishRows[q]
  BY <1>2 DEF WishInv, WishTyped, WishTypeOK
<1>6. WishTyped'
  <2>1. request' \in [Requests -> Request]
    BY <1>3, RequestBecomes DEF WishInv
  <2>2. WishTypeOK'
    BY <1>2, <1>5, <2>1 DEF WishInv, WishTyped, WishTypeOK
  <2>3. Updates' = Updates
    BY DEF Updates
  <2> QED BY <1>2, <1>4, <2>2, <2>3 DEF WishInv, WishTyped
<1>7. CounterFollows'
  <2> SUFFICES ASSUME NEW q \in Products
               PROVE  counter'[q] + BeingCounted(q)' + lost'[q] = wishRows'[q] - merged'[q]
    BY DEF CounterFollows
  <2>1. BeingCounted(q) \in Int /\ BeingCounted(q)' = BeingCounted(q) + (IF q = p THEN 1 ELSE 0)
    BY <1>4, CountStarts DEF WishInv
  <2>2. counter[q] + BeingCounted(q) + lost[q] = wishRows[q] - merged[q]
    BY DEF WishInv, AccountInv, CounterFollows
  <2>3. counter[q] \in Int /\ lost[q] \in Int /\ wishRows[q] \in Int /\ merged[q] \in Int
    BY DEF WishInv, WishTyped, WishTypeOK
  <2> QED BY <1>2, <1>5, <2>1, <2>2, <2>3
<1>8. Account' = Account \cup {p}
  BY <1>5 DEF Account
<1>9. OneRowEach'
  <2> SUFFICES ASSUME ~doubled', NEW q \in Products PROVE wishRows'[q] <= 1
    BY DEF OneRowEach
  <2>1. wishRows[q] \in Nat /\ wishRows[q] <= 1
    BY <1>2, <1>5 DEF WishInv, AccountInv, OneRowEach
  <2>a. {p} \cap Account = {}
    BY <1>2
  <2>2. q = p => wishRows[q] = 0
    BY <2>a, <2>1 DEF Account
  <2> QED BY <1>5, <2>1, <2>2
<1>10. BrowserInv'
  <2>1. wanted' \ Account' \subseteq wanted \ Account
    BY <1>2, <1>8
  <2>2. ~crossed' => ~crossed /\ \A t \in Tabs \ {request[r].tab} : ~tab[t].user
    BY <1>2
  <2>3. d.kind \in Tells
    BY <1>2, <1>3 DEF Tells
  <2> QED BY <1>2, <1>3, <2>1, <2>2, <2>3, WishRowsChange
<1> QED BY <1>4, <1>6, <1>7, <1>9, <1>10 DEF WishInv, AccountInv

LEMMA RemoveItemKeeps ==
    ASSUME WishInv, NEW r \in Requests, RemoveItem(r)
    PROVE  WishInv'
<1>0. request[r] \in Request /\ "read" \in Stages /\ WillCount(r)
  BY DEF WishInv, WishTyped, WishTypeOK, Stages, RemoveItem, WillCount
<1>1. PICK p \in Products : request[r].of = {p}
  BY <1>0 DEF WishInv, AccountInv, CountsOnce
<1>2. /\ request[r].kind = "remove" /\ request[r].at = "write"
      /\ wishRows' = [wishRows EXCEPT ![p] = 0]
      /\ IF wishRows[p] > 0 THEN Count(r, p, -wishRows[p]) ELSE UNCHANGED counting
      /\ crossed' = (crossed \/ \E t \in Tabs \ {request[r].tab} : tab[t].user)
      /\ wanted' = wanted \ {p} /\ Goes(r, "read")
      /\ UNCHANGED <<counter, local, hasToken, tab, gestures, guestSaved, merged, lost, guestRaced, late,
                     doubled>>
  BY <1>1 DEF RemoveItem, Runs, browserParts, wishBounds
<1>3. PICK d \in Request :
        /\ request' = [request EXCEPT ![r] = d]
        /\ d.kind = request[r].kind /\ d.tab = request[r].tab /\ d.of = request[r].of
        /\ d.found = request[r].found /\ d.at = "read"
  BY <1>0, <1>2, StageIs DEF WishInv
<1>5. /\ wishRows \in [Products -> Nat] /\ wishRows' \in [Products -> Nat]
      /\ \A q \in Products : wishRows'[q] = IF q = p THEN 0 ELSE wishRows[q]
  BY <1>2 DEF WishInv, WishTyped, WishTypeOK
<1>4. /\ IsFiniteSet(counting') /\ counting' \in SUBSET Updates
      /\ \A e \in counting' : e.gesture <= gestures
      /\ CountsOnce'
      /\ \A q \in Products : /\ BeingCounted(q) \in Int
                             /\ BeingCounted(q)' = BeingCounted(q) - (IF q = p THEN wishRows[p] ELSE 0)
  <2>1. CASE wishRows[p] > 0
    <3>1. -wishRows[p] \in Int /\ Count(r, p, -wishRows[p])
      BY <1>2, <1>5, <2>1
    <3>2. PICK c \in Updates :
            /\ c.by = -wishRows[p] /\ c.product = p /\ c \notin counting /\ counting' = counting \cup {c}
            /\ IsFiniteSet(counting') /\ counting' \in SUBSET Updates
            /\ \A e \in counting' : e.gesture <= gestures
            /\ CountsOnce'
      <4>1. /\ UpdateOf(r, p, -wishRows[p]) \in Updates \ counting
            /\ UpdateOf(r, p, -wishRows[p]).by = -wishRows[p] /\ UpdateOf(r, p, -wishRows[p]).product = p
            /\ counting' = counting \cup {UpdateOf(r, p, -wishRows[p])}
            /\ IsFiniteSet(counting') /\ counting' \in SUBSET Updates
            /\ \A e \in counting' : e.gesture <= gestures
            /\ CountsOnce'
        BY <1>0, <1>2, <1>3, <3>1, CountsOnceMore
      <4> QED BY <4>1
    <3>3. \A q \in Products : /\ BeingCounted(q) \in Int
                              /\ BeingCounted(q)' = BeingCounted(q) + (IF p = q THEN c.by ELSE 0)
      BY <3>2, CountStarts DEF WishInv
    <3> QED BY <1>5, <3>2, <3>3
  <2>2. CASE ~(wishRows[p] > 0)
    <3>1. wishRows[p] = 0 /\ counting' = counting
      BY <1>2, <1>5, <2>2
    <3>2. IsFiniteSet(counting') /\ counting' \in SUBSET Updates /\ \A e \in counting' : e.gesture <= gestures
      BY <3>1 DEF WishInv, WishTyped
    <3>3. \A q \in Products : BeingCounted(q)' = BeingCounted(q)
      BY <3>1 DEF BeingCounted
    <3>4. \A q \in Products : BeingCounted(q) \in Int
      <4> TAKE q \in Products
      <4> DEFINE f == [e \in counting |-> e.by]
                 S == {e \in counting : e.product = q}
      <4>1. IsFiniteSet(S) /\ \A e \in S : f[e] \in Int
        BY FS_Subset DEF WishInv, WishTyped, Updates
      <4>2. SumFunctionOnSet(f, S) \in Int
        BY <4>1, SumIsInt
      <4> QED BY <4>2 DEF BeingCounted
    <3>5. CountsOnce'
      <4>1. \A q \in Requests : request'[q] = IF q = r THEN d ELSE request[q]
        BY <1>3, RequestBecomes DEF WishInv
      <4>2. \A q \in Requests : WillCount(q)' => WillCount(q) /\ request'[q] = request[q]
        BY <1>3, <4>1 DEF WillCount, Runs
      <4> QED BY <1>2, <3>1, <4>2 DEF WishInv, AccountInv, CountsOnce
    <3> QED BY <3>1, <3>2, <3>3, <3>4, <3>5
  <2> QED BY <2>1, <2>2
<1>6. WishTyped'
  <2>1. request' \in [Requests -> Request]
    BY <1>3, RequestBecomes DEF WishInv
  <2>2. WishTypeOK'
    BY <1>2, <1>5, <2>1 DEF WishInv, WishTyped, WishTypeOK
  <2>3. Updates' = Updates
    BY DEF Updates
  <2> QED BY <1>2, <1>4, <2>2, <2>3 DEF WishInv, WishTyped
<1>7. CounterFollows'
  <2> SUFFICES ASSUME NEW q \in Products
               PROVE  counter'[q] + BeingCounted(q)' + lost'[q] = wishRows'[q] - merged'[q]
    BY DEF CounterFollows
  <2>2. counter[q] + BeingCounted(q) + lost[q] = wishRows[q] - merged[q]
    BY DEF WishInv, AccountInv, CounterFollows
  <2>3. counter[q] \in Int /\ lost[q] \in Int /\ wishRows[q] \in Int /\ merged[q] \in Int
    BY DEF WishInv, WishTyped, WishTypeOK
  <2> QED BY <1>2, <1>4, <1>5, <2>2, <2>3
<1>8. Account' = Account \ {p}
  BY <1>5 DEF Account
<1>9. OneRowEach'
  BY <1>2, <1>5 DEF WishInv, AccountInv, OneRowEach
<1>10. BrowserInv'
  <2>1. wanted' \ Account' \subseteq wanted \ Account
    BY <1>2, <1>8
  <2>2. ~crossed' => ~crossed /\ \A t \in Tabs \ {request[r].tab} : ~tab[t].user
    BY <1>2
  <2>3. d.kind \in Tells
    BY <1>2, <1>3 DEF Tells
  <2> QED BY <1>2, <1>3, <2>1, <2>2, <2>3, WishRowsChange
<1> QED BY <1>4, <1>6, <1>7, <1>9, <1>10 DEF WishInv, AccountInv

LEMMA CreateMergedKeeps ==
    ASSUME WishInv, NEW r \in Requests, CreateMerged(r)
    PROVE  WishInv'
<1>0. request[r] \in Request /\ "answer" \in Stages
  BY DEF WishInv, WishTyped, WishTypeOK, Stages
<1> PICK new \in SUBSET Products : new = request[r].of \ request[r].found
  BY <1>0 DEF Request
<1>2. /\ request[r].kind = "signIn" /\ request[r].at = "write"
      /\ wishRows' = [q \in Products |-> IF q \in new THEN wishRows[q] + 1 ELSE wishRows[q]]
      /\ doubled' = (doubled \/ new \cap Account # {})
      /\ crossed' = (crossed \/ \E t \in Tabs \ {request[r].tab} : tab[t].user)
      /\ merged' = [q \in Products |-> IF q \in new THEN merged[q] + 1 ELSE merged[q]]
      /\ Goes(r, "answer")
      /\ UNCHANGED <<counter, counting, local, hasToken, tab, gestures, wanted, guestSaved, lost, guestRaced,
                     late>>
  BY DEF CreateMerged, Inserts, Runs, browserParts, wishBounds
<1>3. PICK d \in Request :
        /\ request' = [request EXCEPT ![r] = d]
        /\ d.kind = request[r].kind /\ d.tab = request[r].tab /\ d.of = request[r].of
        /\ d.found = request[r].found /\ d.at = "answer"
  BY <1>0, <1>2, StageIs DEF WishInv
<1>5. /\ wishRows \in [Products -> Nat] /\ wishRows' \in [Products -> Nat] /\ merged' \in [Products -> Nat]
      /\ \A q \in Products : /\ wishRows'[q] = IF q \in new THEN wishRows[q] + 1 ELSE wishRows[q]
                             /\ merged'[q] = IF q \in new THEN merged[q] + 1 ELSE merged[q]
  BY <1>2 DEF WishInv, WishTyped, WishTypeOK
<1>6. WishTyped'
  <2>1. request' \in [Requests -> Request]
    BY <1>3, RequestBecomes DEF WishInv
  <2>2. WishTypeOK'
    BY <1>2, <1>5, <2>1 DEF WishInv, WishTyped, WishTypeOK
  <2>3. Updates' = Updates
    BY DEF Updates
  <2> QED BY <1>2, <1>5, <2>2, <2>3 DEF WishInv, WishTyped
<1>7. CounterFollows'
  <2> SUFFICES ASSUME NEW q \in Products
               PROVE  counter'[q] + BeingCounted(q)' + lost'[q] = wishRows'[q] - merged'[q]
    BY DEF CounterFollows
  <2>1. BeingCounted(q)' = BeingCounted(q)
    BY <1>2 DEF BeingCounted
  <2>2. counter[q] + BeingCounted(q) + lost[q] = wishRows[q] - merged[q]
    BY DEF WishInv, AccountInv, CounterFollows
  <2>3. wishRows[q] \in Int /\ merged[q] \in Int
    BY DEF WishInv, WishTyped, WishTypeOK
  <2> QED BY <1>2, <1>5, <2>1, <2>2, <2>3
<1>8. Account' = Account \cup new
  BY <1>5 DEF Account
<1>9. OneRowEach'
  <2> SUFFICES ASSUME ~doubled', NEW q \in Products PROVE wishRows'[q] <= 1
    BY DEF OneRowEach
  <2>1. wishRows[q] \in Nat /\ wishRows[q] <= 1
    BY <1>2, <1>5 DEF WishInv, AccountInv, OneRowEach
  <2>a. new \cap Account = {}
    BY <1>2
  <2>2. q \in new => wishRows[q] = 0
    BY <2>a, <2>1 DEF Account
  <2> QED BY <1>5, <2>1, <2>2
<1>10. BrowserInv'
  <2>1. wanted' \ Account' \subseteq wanted \ Account
    BY <1>2, <1>8
  <2>2. ~crossed' => ~crossed /\ \A t \in Tabs \ {request[r].tab} : ~tab[t].user
    BY <1>2
  <2>3. d.kind = "signIn" /\ request[r].at = "write" /\ d.at = "answer"
        /\ request[r].of \ request[r].found \subseteq Account'
    BY <1>2, <1>3, <1>8
  <2> QED BY <1>2, <1>3, <2>1, <2>2, <2>3, WishRowsChange
<1>11. CountsOnce'
  <2>1. \A q \in Requests : request'[q] = IF q = r THEN d ELSE request[q]
    BY <1>3, RequestBecomes DEF WishInv
  <2>2. \A q \in Requests : WillCount(q)' => WillCount(q) /\ request'[q] = request[q]
    BY <1>2, <1>3, <2>1 DEF WillCount, Runs
  <2> QED BY <1>2, <2>2 DEF WishInv, AccountInv, CountsOnce
<1> QED BY <1>6, <1>7, <1>9, <1>10, <1>11 DEF WishInv, AccountInv

LEMMA CounterKeeps ==
    ASSUME WishInv, NEW c \in counting, CounterUpdated(c)
    PROVE  WishInv'
<1>1. /\ counting' = counting \ {c}
      /\ \/ counter' = [counter EXCEPT ![c.product] = @ + c.by] /\ lost' = lost
         \/ lost' = [lost EXCEPT ![c.product] = @ + c.by] /\ counter' = counter
      /\ UNCHANGED <<wishRows, local, hasToken, tab, request, gestures, wanted, guestSaved, merged, guestRaced,
                     crossed, late, doubled>>
  BY DEF CounterUpdated, browserParts
<1>2. c.product \in Products /\ c.by \in Int
  BY DEF WishInv, WishTyped, Updates
<1>3. /\ counter \in [Products -> Int] /\ lost \in [Products -> Int]
      /\ counter' \in [Products -> Int] /\ lost' \in [Products -> Int]
      /\ \A p \in Products : counter'[p] + lost'[p] = counter[p] + lost[p] + (IF c.product = p THEN c.by ELSE 0)
  BY <1>1, <1>2 DEF WishInv, WishTyped, WishTypeOK
<1>4. WishTyped'
  <2>1. WishTypeOK'
    BY <1>1, <1>3 DEF WishInv, WishTyped, WishTypeOK
  <2>2. Updates' = Updates
    BY DEF Updates
  <2>3. IsFiniteSet(counting')
    BY <1>1, FS_Subset DEF WishInv, WishTyped
  <2> QED BY <1>1, <1>3, <2>1, <2>2, <2>3 DEF WishInv, WishTyped
<1>5. CounterFollows'
  <2> SUFFICES ASSUME NEW p \in Products
               PROVE  counter'[p] + BeingCounted(p)' + lost'[p] = wishRows'[p] - merged'[p]
    BY DEF CounterFollows
  <2>1. BeingCounted(p) \in Int /\ BeingCounted(p)' = BeingCounted(p) - (IF c.product = p THEN c.by ELSE 0)
    BY <1>1, CountEnds DEF WishInv
  <2>2. counter[p] + BeingCounted(p) + lost[p] = wishRows[p] - merged[p]
    BY DEF WishInv, AccountInv, CounterFollows
  <2>3. counter[p] \in Int /\ lost[p] \in Int /\ counter'[p] \in Int /\ lost'[p] \in Int
        /\ counter'[p] + lost'[p] = counter[p] + lost[p] + (IF c.product = p THEN c.by ELSE 0)
    BY <1>3
  <2>4. wishRows[p] \in Int /\ merged[p] \in Int
    BY DEF WishInv, WishTyped, WishTypeOK
  <2> QED BY <1>1, <1>2, <2>1, <2>2, <2>3, <2>4
<1>6. CountsOnce' /\ OneRowEach'
  BY <1>1 DEF WishInv, AccountInv, CountsOnce, WillCount, Runs, OneRowEach
<1>7. Account' = Account /\ SigningIn' = SigningIn
  BY <1>1 DEF Account, SigningIn
<1>8. BrowserInv'
  BY <1>1, <1>7 DEF WishInv, BrowserInv, GuestsSee, MergeKnows, SignsInOnce, HeartsFollow, SavedIsKept,
                    GuestListIsOwn
<1> QED BY <1>4, <1>5, <1>6, <1>8 DEF WishInv, AccountInv

-----------------------------------------------------------------------------
(* What an answer does *)

(* A request ends or goes on and does not count; the account stays. *)
LEMMA AnswerTypes ==
    ASSUME WishInv, NEW r \in Requests, NEW d \in Request, request' = [request EXCEPT ![r] = d],
           UNCHANGED <<wishRows, counter, counting, gestures, wanted, merged, lost, doubled>>,
           local' \in SUBSET Products, hasToken' \in BOOLEAN, tab' \in [Tabs -> TabView],
           ~Counting(d)
    PROVE  /\ WishTyped' /\ AccountInv' /\ Account' = Account
           /\ \A q \in Requests : request'[q] = IF q = r THEN d ELSE request[q]
<1>2. /\ request' \in [Requests -> Request]
      /\ \A q \in Requests : request'[q] = IF q = r THEN d ELSE request[q]
  BY RequestBecomes DEF WishInv
<1>3. WishTyped'
  <2>1. WishTypeOK'
    BY <1>2 DEF WishInv, WishTyped, WishTypeOK
  <2>2. Updates' = Updates
    BY DEF Updates
  <2> QED BY <2>1, <2>2 DEF WishInv, WishTyped
<1>4. AccountInv'
  <2>1. \A q \in Requests : WillCount(q)' => WillCount(q) /\ request'[q].of = request[q].of
    BY <1>2 DEF WillCount, Runs, Counting
  <2>2. gestures \in Nat /\ gestures' \in Nat /\ gestures <= gestures' /\ UNCHANGED accountParts
    BY DEF WishInv, WishTyped, accountParts
  <2> QED BY <2>1, <2>2, AccountKeeps DEF WishInv
<1>5. Account' = Account
  BY DEF Account
<1> QED BY <1>2, <1>3, <1>4, <1>5

LEMMA ShowAnswerKeeps ==
    ASSUME WishInv, NEW r \in Requests, ShowAnswer(r)
    PROVE  WishInv'
<1>0. request[r] \in Request /\ tab \in [Tabs -> TabView] /\ \A u \in Tabs : tab[u] \in TabView
  BY DEF WishInv, WishTyped, WishTypeOK
<1> PICK t \in Tabs : t = request[r].tab
  BY <1>0 DEF Request
<1> PICK found \in SUBSET Products : found = request[r].found
  BY <1>0 DEF Request
<1> PICK v \in TabView : v = [tab[t] EXCEPT !.slugs = found, !.shown = found]
  BY <1>0 DEF TabView
<1>1. /\ request[r].kind \in Tells
      /\ tab' = [tab EXCEPT ![t] = v]
      /\ crossed' = (crossed \/ found # Account)
      /\ late' = (late \/ ~tab[t].user)
      /\ request' = [request EXCEPT ![r] = NoRequest]
      /\ UNCHANGED <<wishRows, counter, counting, local, hasToken, gestures, wanted, guestSaved, merged, lost,
                     guestRaced, doubled>>
  BY <1>0 DEF ShowAnswer, accountParts, wishBounds, Tells
<1>2. v.user = tab[t].user /\ v.slugs = found
  BY <1>0 DEF TabView
<1>3. tab' \in [Tabs -> TabView] /\ \A u \in Tabs : tab'[u] = IF u = t THEN v ELSE tab[u]
  BY <1>0, <1>1
<1>4. /\ WishTyped' /\ AccountInv' /\ Account' = Account
      /\ \A q \in Requests : request'[q] = IF q = r THEN NoRequest ELSE request[q]
  <2>1. local' \in SUBSET Products /\ hasToken' \in BOOLEAN
    BY <1>1 DEF WishInv, WishTyped, WishTypeOK
  <2>2. ~Counting(NoRequest)
    BY NoRequestIs DEF Counting
  <2> QED BY <1>1, <1>3, <2>1, <2>2, NoRequestIs, AnswerTypes
<1>5. GuestsSee'
  <2> SUFFICES ASSUME ~late', NEW u \in Tabs, ~tab'[u].user, ~tab'[u].notified PROVE tab'[u].slugs = local
    BY <1>1 DEF GuestsSee
  <2>1. ~late /\ tab[t].user
    BY <1>1
  <2>2. u # t
    BY <1>2, <1>3, <2>1
  <2> QED BY <1>3, <2>1, <2>2 DEF WishInv, BrowserInv, GuestsSee
<1>6. SigningIn' = SigningIn /\ \A q \in SigningIn : request'[q] = request[q]
  BY <1>1, <1>4, NoRequestIs DEF SigningIn, Tells
<1>7. MergeKnows'
  BY <1>1, <1>4, <1>6 DEF WishInv, BrowserInv, MergeKnows
<1>8. SavedIsKept' /\ GuestListIsOwn'
  <2>1. ~late' => ~late
    BY <1>1
  <2> QED BY <1>1, <1>4, <2>1 DEF WishInv, BrowserInv, SavedIsKept, GuestListIsOwn
<1>9. SignsInOnce'
  <2>1. \A u \in Tabs : tab'[u].user = tab[u].user
    BY <1>2, <1>3
  <2>2. \A q \in Requests : request'[q].kind = "signIn" => request'[q] = request[q] /\ request[q].tab \in Tabs
    BY <1>4, NoRequestIs DEF WishInv, WishTyped, WishTypeOK, Request
  <2> QED BY <2>1, <2>2 DEF WishInv, BrowserInv, SignsInOnce
<1>10. HeartsFollow'
  <2>1. SUFFICES ASSUME ~crossed', NEW u \in Tabs, tab'[u].user
                 PROVE  \/ tab'[u].slugs = Account
                        \/ \E q \in Requests : request'[q].kind \in Tells /\ request'[q].tab = u
    BY <1>4 DEF HeartsFollow
  <2>2. ~crossed /\ found = Account
    BY <1>1, <2>1
  <2>3. CASE u = t
    BY <1>2, <1>3, <2>2, <2>3
  <2>4. CASE u # t
    <3>1. tab'[u] = tab[u]
      BY <1>3, <2>4
    <3>2. \/ tab[u].slugs = Account
          \/ \E q \in Requests : request[q].kind \in Tells /\ request[q].tab = u
      BY <2>1, <2>2, <3>1 DEF WishInv, BrowserInv, HeartsFollow
    <3>3. \A q \in Requests : request[q].tab = u => request'[q] = request[q]
      BY <1>4, <2>4
    <3> QED BY <3>1, <3>2, <3>3
  <2> QED BY <2>3, <2>4
<1> QED BY <1>4, <1>5, <1>7, <1>8, <1>9, <1>10 DEF WishInv, BrowserInv

LEMMA ClearGuestListKeeps ==
    ASSUME WishInv, NEW r \in Requests, ClearGuestList(r)
    PROVE  WishInv'
<1>0. request[r] \in Request /\ tab \in [Tabs -> TabView] /\ \A u \in Tabs : tab[u] \in TabView
  BY DEF WishInv, WishTyped, WishTypeOK
<1> PICK t \in Tabs : t = request[r].tab
  BY <1>0 DEF Request
<1>1. /\ request[r].kind = "signIn" /\ request[r].at = "answer"
      /\ local' = {} /\ guestSaved' = {}
      /\ tab' = [u \in Tabs |-> IF u = t THEN [tab[u] EXCEPT !.slugs = {}]
                                ELSE [tab[u] EXCEPT !.notified = TRUE]]
      /\ Goes(r, "me")
      /\ UNCHANGED <<wishRows, counter, counting, hasToken, gestures, wanted, merged, lost, guestRaced, crossed,
                     late, doubled>>
  BY DEF ClearGuestList, Runs, accountParts, wishBounds
<1>2. PICK d \in Request :
        /\ request' = [request EXCEPT ![r] = d]
        /\ d.kind = request[r].kind /\ d.tab = request[r].tab /\ d.of = request[r].of
        /\ d.found = request[r].found /\ d.at = "me"
  <2>1. "me" \in Stages
    BY DEF Stages
  <2> QED BY <1>1, <2>1, StageIs DEF WishInv
<1>3. /\ tab' \in [Tabs -> TabView]
      /\ \A u \in Tabs : /\ tab'[u].user = tab[u].user
                         /\ u = t => tab'[u].slugs = {} /\ tab'[u].notified = tab[u].notified
                         /\ u # t => tab'[u].notified /\ tab'[u].slugs = tab[u].slugs
  <2>1. \A u \in Tabs : [tab[u] EXCEPT !.slugs = {}] \in TabView /\ [tab[u] EXCEPT !.notified = TRUE] \in TabView
    BY <1>0 DEF TabView
  <2>2. tab' \in [Tabs -> TabView]
    BY <1>1, <2>1
  <2> QED BY <1>0, <1>1, <2>2 DEF TabView
<1>4. /\ WishTyped' /\ AccountInv' /\ Account' = Account
      /\ \A q \in Requests : request'[q] = IF q = r THEN d ELSE request[q]
  <2>1. local' \in SUBSET Products /\ hasToken' \in BOOLEAN
    BY <1>1 DEF WishInv, WishTyped, WishTypeOK
  <2>2. ~Counting(d)
    BY <1>1, <1>2 DEF Counting
  <2> QED BY <1>1, <1>2, <1>3, <2>1, <2>2, AnswerTypes
<1>5. GuestsSee' /\ GuestListIsOwn'
  BY <1>1, <1>3 DEF GuestsSee, GuestListIsOwn
<1>6. SavedIsKept'
  <2> SUFFICES ASSUME ~guestRaced, ~late PROVE wanted \subseteq Account
    BY <1>1, <1>4 DEF SavedIsKept
  <2>1. r \in SigningIn
    BY <1>1 DEF SigningIn
  <2>2. local \subseteq request[r].of /\ wanted \cap request[r].of \subseteq Account
    BY <1>1, <2>1 DEF WishInv, BrowserInv, MergeKnows
  <2>3. wanted \subseteq local \cup Account
    BY DEF WishInv, BrowserInv, SavedIsKept
  <2> QED BY <2>2, <2>3
<1>7. MergeKnows'
  <2>1. SUFFICES ASSUME ~guestRaced, NEW q \in Requests, request'[q].kind = "signIn", request'[q].at # "me"
                 PROVE  /\ request'[q].at = "write" => wanted \cap request'[q].found \subseteq Account
                        /\ request'[q].at = "answer" => wanted \cap request'[q].of \subseteq Account
    BY <1>1, <1>4 DEF MergeKnows, SigningIn
  <2>2. q # r /\ request'[q] = request[q]
    BY <1>2, <1>4, <2>1
  <2> QED BY <2>1, <2>2 DEF WishInv, BrowserInv, MergeKnows, SigningIn
<1>8. SignsInOnce'
  <2>1. \A q \in Requests : request'[q].kind = request[q].kind /\ request'[q].tab = request[q].tab
                            /\ request[q].tab \in Tabs
    BY <1>2, <1>4 DEF WishInv, WishTyped, WishTypeOK, Request
  <2> QED BY <1>3, <2>1 DEF WishInv, BrowserInv, SignsInOnce
<1>9. HeartsFollow'
  <2>1. SUFFICES ASSUME ~crossed, NEW u \in Tabs, tab'[u].user
                 PROVE  \/ tab'[u].slugs = Account
                        \/ \E q \in Requests : request'[q].kind \in Tells /\ request'[q].tab = u
    BY <1>1, <1>4 DEF HeartsFollow
  <2>2. u # t
    BY <1>1, <1>3, <2>1 DEF WishInv, BrowserInv, SignsInOnce
  <2>3. tab'[u].slugs = tab[u].slugs /\ tab[u].user
    BY <1>3, <2>1, <2>2
  <2>4. \A q \in Requests : request'[q].kind = request[q].kind /\ request'[q].tab = request[q].tab
    BY <1>2, <1>4
  <2> QED BY <2>1, <2>3, <2>4 DEF WishInv, BrowserInv, HeartsFollow
<1> QED BY <1>4, <1>5, <1>6, <1>7, <1>8, <1>9 DEF WishInv, BrowserInv

LEMMA FinishAuthKeeps ==
    ASSUME WishInv, NEW r \in Requests, FinishAuth(r)
    PROVE  WishInv'
<1>0. request[r] \in Request /\ request \in [Requests -> Request] /\ wanted \in SUBSET Products
      /\ tab \in [Tabs -> TabView] /\ \A u \in Tabs : tab[u] \in TabView
  BY DEF WishInv, WishTyped, WishTypeOK
<1> PICK t \in Tabs : t = request[r].tab
  BY <1>0 DEF Request
<1>1. /\ request[r].kind = "signIn" /\ request[r].at = "me"
      /\ \/ /\ tab' = [tab EXCEPT ![t].user = TRUE]
            /\ request' = [request EXCEPT ![r].kind = "list", ![r].at = "read"]
         \/ request' = [request EXCEPT ![r] = NoRequest] /\ tab' = tab
      /\ UNCHANGED <<accountParts, local, hasToken, gestures, wanted, guestSaved, merged, lost, guestRaced,
                     crossed, late, doubled>>
  BY DEF FinishAuth, Runs, wishHistory
<1>2. CASE request' = [request EXCEPT ![r] = NoRequest] /\ tab' = tab
  <2>1. NoRequest.kind # "signIn" /\ ~Counting(NoRequest) /\ request[r].kind \notin Tells
    BY <1>1, NoRequestIs DEF Counting, Tells
  <2>2. UNCHANGED browserParts
    BY <1>1, <1>2 DEF browserParts
  <2> QED BY <1>0, <1>1, <1>2, <2>1, <2>2, NoRequestIs, RequestMoves
<1>3. CASE /\ tab' = [tab EXCEPT ![t].user = TRUE]
           /\ request' = [request EXCEPT ![r].kind = "list", ![r].at = "read"]
  <2> PICK d \in Request : d = [request[r] EXCEPT !.kind = "list", !.at = "read"]
    BY <1>0 DEF Request, RequestKinds, Stages
  <2>1. request' = [request EXCEPT ![r] = d] /\ d.kind = "list" /\ d.tab = t
    BY <1>0, <1>3 DEF Request
  <2> PICK v \in TabView : v = [tab[t] EXCEPT !.user = TRUE]
    BY <1>0 DEF TabView
  <2>2. v.user /\ v.slugs = tab[t].slugs
    BY <1>0 DEF TabView
  <2>3. tab' = [tab EXCEPT ![t] = v] /\ tab' \in [Tabs -> TabView]
        /\ \A u \in Tabs : tab'[u] = IF u = t THEN v ELSE tab[u]
    BY <1>0, <1>3
  <2>4. /\ WishTyped' /\ AccountInv' /\ Account' = Account
        /\ \A q \in Requests : request'[q] = IF q = r THEN d ELSE request[q]
    <3>1. local' \in SUBSET Products /\ hasToken' \in BOOLEAN
      BY <1>1 DEF WishInv, WishTyped, WishTypeOK
    <3>2. ~Counting(d)
      BY <2>1 DEF Counting
    <3>3. UNCHANGED <<wishRows, counter, counting, gestures, wanted, merged, lost, doubled>>
      BY <1>1 DEF accountParts
    <3>4. request' = [request EXCEPT ![r] = d] /\ tab' \in [Tabs -> TabView]
      BY <2>1, <2>3
    <3> QED BY ONLY WishInv, r \in Requests, d \in Request, <3>1, <3>2, <3>3, <3>4, AnswerTypes
  <2>5. GuestsSee'
    <3> SUFFICES ASSUME ~late, NEW u \in Tabs, ~tab'[u].user, ~tab'[u].notified PROVE tab'[u].slugs = local
      BY <1>1 DEF GuestsSee
    <3>1. u # t
      BY <2>2, <2>3
    <3> QED BY <2>3, <3>1 DEF WishInv, BrowserInv, GuestsSee
  <2>6. SavedIsKept' /\ GuestListIsOwn'
    BY <1>1, <2>4 DEF WishInv, BrowserInv, SavedIsKept, GuestListIsOwn
  <2>7. SigningIn' = SigningIn /\ \A q \in SigningIn : request'[q] = request[q]
    BY <1>1, <2>1, <2>4 DEF SigningIn
  <2>8. MergeKnows'
    BY <1>1, <2>4, <2>7 DEF WishInv, BrowserInv, MergeKnows
  <2>9. SignsInOnce'
    <3>1. SUFFICES ASSUME NEW q \in Requests, request'[q].kind = "signIn"
                   PROVE  /\ ~tab'[request'[q].tab].user
                          /\ \A s \in Requests : request'[s].kind = "signIn" /\ request'[s].tab = request'[q].tab => s = q
      BY DEF SignsInOnce
    <3>2. q # r /\ request'[q] = request[q] /\ request[q].tab \in Tabs
      BY <2>1, <2>4, <3>1 DEF WishInv, WishTyped, WishTypeOK, Request
    <3>3. request[q].tab # t
      BY <1>1, <3>1, <3>2 DEF WishInv, BrowserInv, SignsInOnce
    <3>4. \A s \in Requests : request'[s].kind = "signIn" => request'[s] = request[s]
      BY <2>1, <2>4
    <3> QED BY <2>3, <3>1, <3>2, <3>3, <3>4 DEF WishInv, BrowserInv, SignsInOnce
  <2>10. HeartsFollow'
    <3>1. SUFFICES ASSUME ~crossed, NEW u \in Tabs, tab'[u].user
                   PROVE  \/ tab'[u].slugs = Account
                          \/ \E q \in Requests : request'[q].kind \in Tells /\ request'[q].tab = u
      BY <1>1, <2>4 DEF HeartsFollow
    <3>2. CASE u = t
      BY <2>1, <2>4, <3>2 DEF Tells
    <3>3. CASE u # t
      <4>1. tab'[u] = tab[u]
        BY <2>3, <3>3
      <4>2. \A q \in Requests : request[q].kind \in Tells => request'[q] = request[q]
        BY <1>1, <2>4 DEF Tells
      <4> QED BY <3>1, <4>1, <4>2 DEF WishInv, BrowserInv, HeartsFollow
    <3> QED BY <3>2, <3>3
  <2> QED BY <2>4, <2>5, <2>6, <2>8, <2>9, <2>10 DEF WishInv, BrowserInv
<1> QED BY <1>1, <1>2, <1>3

LEMMA LoggedOutKeeps ==
    ASSUME WishInv, NEW r \in Requests, LoggedOut(r)
    PROVE  WishInv'
<1>0. request[r] \in Request /\ tab \in [Tabs -> TabView] /\ (\A u \in Tabs : tab[u] \in TabView)
      /\ local \in SUBSET Products
  BY DEF WishInv, WishTyped, WishTypeOK
<1> PICK t \in Tabs : t = request[r].tab
  BY <1>0 DEF Request
<1> PICK v \in TabView : v = [tab[t] EXCEPT !.user = FALSE, !.shown = {}, !.slugs = local]
  BY <1>0 DEF TabView
<1>1. /\ request[r].kind = "logout" /\ hasToken' = FALSE
      /\ tab' = [tab EXCEPT ![t] = v]
      /\ request' = [request EXCEPT ![r] = NoRequest]
      /\ UNCHANGED <<wishRows, counter, counting, local, gestures, wanted, guestSaved, merged, lost, guestRaced,
                     crossed, late, doubled>>
  BY <1>0 DEF LoggedOut, Runs, accountParts, wishBounds, wishHistory
<1>2. ~v.user /\ v.slugs = local
  BY <1>0 DEF TabView
<1>3. tab' \in [Tabs -> TabView] /\ \A u \in Tabs : tab'[u] = IF u = t THEN v ELSE tab[u]
  BY <1>0, <1>1
<1>4. /\ WishTyped' /\ AccountInv' /\ Account' = Account
      /\ \A q \in Requests : request'[q] = IF q = r THEN NoRequest ELSE request[q]
  <2>1. local' \in SUBSET Products /\ hasToken' \in BOOLEAN
    BY <1>0, <1>1
  <2>2. ~Counting(NoRequest)
    BY NoRequestIs DEF Counting
  <2> QED BY <1>1, <1>3, <2>1, <2>2, NoRequestIs, AnswerTypes
<1>5. GuestsSee' /\ SavedIsKept' /\ GuestListIsOwn'
  BY <1>1, <1>2, <1>3, <1>4 DEF WishInv, BrowserInv, GuestsSee, SavedIsKept, GuestListIsOwn
<1>6. SigningIn' = SigningIn /\ \A q \in SigningIn : request'[q] = request[q]
  BY <1>1, <1>4, NoRequestIs DEF SigningIn
<1>7. MergeKnows'
  BY <1>1, <1>4, <1>6 DEF WishInv, BrowserInv, MergeKnows
<1>8. SignsInOnce'
  <2>1. \A u \in Tabs : tab'[u].user => tab[u].user
    BY <1>2, <1>3
  <2>2. \A q \in Requests : request'[q].kind = "signIn" => request'[q] = request[q] /\ request[q].tab \in Tabs
    BY <1>4, NoRequestIs DEF WishInv, WishTyped, WishTypeOK, Request
  <2> QED BY <2>1, <2>2 DEF WishInv, BrowserInv, SignsInOnce
<1>9. HeartsFollow'
  <2>1. \A u \in Tabs : tab'[u].user => tab'[u] = tab[u]
    BY <1>2, <1>3
  <2>2. \A q \in Requests : request[q].kind \in Tells => request'[q] = request[q]
    BY <1>1, <1>4 DEF Tells
  <2> QED BY <1>1, <1>4, <2>1, <2>2 DEF WishInv, BrowserInv, HeartsFollow
<1> QED BY <1>4, <1>5, <1>7, <1>8, <1>9 DEF WishInv, BrowserInv

-----------------------------------------------------------------------------
LEMMA WishSteps == WishInv /\ [WishNext]_wishVars => WishInv'
<1> SUFFICES ASSUME WishInv, [WishNext]_wishVars PROVE WishInv'
  OBVIOUS
<1>1. ASSUME NEW t \in Tabs, TabActs(t) PROVE WishInv'
  <2>1. CASE \E p \in Products : GuestToggle(t, p)
    BY <2>1, GuestToggleKeeps
  <2>2. CASE SignOut(t) \/ \E p \in Products : UserToggle(t, p)
    BY <2>2, UserAsks
  <2> QED BY <1>1, <2>1, <2>2, StorageEventKeeps, SignInKeeps, ReloadKeeps DEF TabActs
<1>2. ASSUME NEW r \in Requests, RequestRuns(r) PROVE WishInv'
  BY <1>2, ReadingMoves, FailureMoves, CreateItemKeeps, RemoveItemKeeps, CreateMergedKeeps, ShowAnswerKeeps,
     ClearGuestListKeeps, FinishAuthKeeps, LoggedOutKeeps DEF RequestRuns
<1>3. ASSUME NEW c \in counting, CounterUpdated(c) PROVE WishInv'
  BY <1>3, CounterKeeps
<1>4. CASE UNCHANGED wishVars
  <2>1. UNCHANGED <<wishRows, counter, counting, local, hasToken, tab, request, gestures, losses, wanted,
                    guestSaved, merged, lost, guestRaced, crossed, late, doubled>>
    BY <1>4 DEF wishVars
  <2>2. Account' = Account /\ SigningIn' = SigningIn
    BY <2>1 DEF Account, SigningIn
  <2>3. WishTyped'
    BY <2>1 DEF WishInv, WishTyped, WishTypeOK, Updates
  <2>4. AccountInv'
    BY <2>1 DEF WishInv, AccountInv, CountsOnce, WillCount, Runs, CounterFollows, BeingCounted, OneRowEach
  <2>5. BrowserInv'
    BY <2>1, <2>2 DEF WishInv, BrowserInv, GuestsSee, MergeKnows, SignsInOnce, HeartsFollow, SavedIsKept,
                      GuestListIsOwn
  <2> QED BY <2>3, <2>4, <2>5 DEF WishInv
<1> QED BY <1>1, <1>2, <1>3, <1>4 DEF WishNext

(* Rows, counters, hearts and requests keep their types. *)
THEOREM WishTypes == WishSpec => []WishTypeOK
<1>1. WishInv => WishTypeOK
  BY DEF WishInv, WishTyped
<1> QED BY <1>1, WishStarts, WishSteps, PTL DEF WishSpec

(* The account's rows, the counters, the guest's list and the hearts agree,  *)
(* in any number of tabs and whatever requests overlap or fail.             *)
THEOREM WishlistHolds == WishSpec => []WishlistAgrees
BY WishAgrees, WishStarts, WishSteps, PTL DEF WishSpec

-----------------------------------------------------------------------------
(* A listing.                                                              *)

(* Among finitely many there is one that is worth most. *)
LEMMA MostOf ==
    ASSUME NEW S, IsFiniteSet(S), S # {}, NEW f, \A x \in S : f[x] \in Nat
    PROVE  \E x \in S : \A y \in S : f[y] <= f[x]
<1> DEFINE Best(t) == \E x \in t : \A y \in t : f[y] <= f[x]
           Bad == {t \in SUBSET S : t # {} /\ ~Best(t)}
<1>1. SUFFICES ASSUME Bad # {} PROVE FALSE
  <2> QED BY <1>1
<1>2. PICK t \in Bad : \A x \in t : t \ {x} \notin Bad
  BY <1>1, Smallest
<1>3. PICK x \in t : TRUE
  BY <1>2
<1>4. t \ {x} = {} \/ Best(t \ {x})
  BY <1>2, <1>3
<1>5. CASE t \ {x} = {}
  <2>1. \A y \in t : y = x
    BY <1>5
  <2>2. f[x] \in Nat
    BY <1>2, <1>3
  <2>3. Best(t)
    BY <1>3, <2>1, <2>2
  <2> QED BY <1>2, <2>3
<1>6. CASE Best(t \ {x})
  <2>1. PICK z \in t \ {x} : \A y \in t \ {x} : f[y] <= f[z]
    BY <1>6
  <2>2. \A y \in t : f[y] \in Nat
    BY <1>2
  <2>3. CASE f[x] <= f[z]
    <3>1. Best(t)
      BY <2>1, <2>3
    <3> QED BY <1>2, <3>1
  <2>4. CASE ~(f[x] <= f[z])
    <3>1. \A y \in t : f[y] <= f[x]
      BY <1>3, <2>1, <2>2, <2>4
    <3>2. Best(t)
      BY <1>3, <3>1
    <3> QED BY <1>2, <3>2
  <2> QED BY <2>3, <2>4
<1> QED BY <1>4, <1>5, <1>6

(* A place is on one page only. *)
LEMMA OnePageEach ==
    ASSUME NEW size \in Nat \ {0}, NEW m \in Nat, NEW n \in Nat, m < n, NEW r \in Nat,
           r <= (m - 1) * size + size, (n - 1) * size < r
    PROVE  FALSE
<1>1. m * size <= (n - 1) * size
  BY m <= n - 1
<1>2. (m - 1) * size + size = m * size
  OBVIOUS
<1>3. m * size \in Int /\ (n - 1) * size \in Int
  OBVIOUS
<1> QED BY <1>1, <1>2, <1>3

(* The last page has a product. *)
LEMMA PageBegins ==
    ASSUME NEW size \in Nat \ {0}, NEW n \in Nat \ {0}, NEW p \in Nat \ {0},
           p = 1 \/ p <= (n + size - 1) \div size
    PROVE  (p - 1) * size + 1 \in 1 .. n
<1> DEFINE q == (n + size - 1) \div size
<1>1. q \in Int /\ size * q <= n + size - 1
  <2> DEFINE x == n + size - 1
  <2>1. x \in Nat
    OBVIOUS
  <2> HIDE DEF x
  <2>2. x \div size \in Int /\ size * (x \div size) <= x
    BY <2>1
  <2> QED BY <2>2 DEF x
<1>2. p = 1 \/ p <= q
  OBVIOUS
<1> HIDE DEF q
<1>3. (p - 1) * size \in Nat
  OBVIOUS
<1>4. CASE p = 1
  BY <1>4
<1>5. CASE p <= q
  <2>1. size * p <= size * q
    BY <1>1, <1>5
  <2>2. size * p = (p - 1) * size + size /\ size * p \in Int /\ size * q \in Int
    BY <1>1
  <2> QED BY <1>1, <1>3, <2>1, <2>2
<1> QED BY <1>2, <1>4, <1>5

-----------------------------------------------------------------------------
(* What the server finds, and what the facets are of.                       *)

Facets == [sizes : SUBSET Sizes, subs : SUBSET Subs, min : Nat, max : Nat]

LEMMA FoundIs ==
    ASSUME NEW q
    PROVE  LET found == buildProductWhere(q)
           IN  /\ found \in SUBSET Listed /\ found \in SUBSET Nat /\ IsFiniteSet(found)
               /\ Cardinality(found) \in 0 .. Shelved
<1> DEFINE found == buildProductWhere(q)
<1>1. Shelved \in Nat /\ found \in SUBSET Listed
  BY ListingAssumption DEF buildProductWhere
<1> HIDE DEF found
<1>2. found \in SUBSET Nat
  BY <1>1 DEF Listed
<1>3. IsFiniteSet(Listed) /\ Cardinality(Listed) = Shelved
  <2>1. IsFiniteSet(1 .. Shelved) /\ Cardinality(1 .. Shelved) = IF 1 > Shelved THEN 0 ELSE Shelved - 1 + 1
    BY <1>1, FS_Interval
  <2> QED BY <1>1, <2>1 DEF Listed
<1>4. IsFiniteSet(found) /\ Cardinality(found) <= Shelved /\ Cardinality(found) \in Nat
  BY <1>1, <1>3, FS_Subset, FS_CardinalityType
<1> QED BY <1>1, <1>2, <1>4 DEF found

LEMMA ItemIs ==
    ASSUME item \in [Listed -> Kinds], NEW i \in Listed
    PROVE  /\ item[i].price \in Nat \ {0} /\ item[i].date \in Nat /\ item[i].sizes \in SUBSET Sizes
           /\ item[i].subs \in SUBSET Subs /\ item[i].belongs \in BOOLEAN
<1>1. item[i] \in Item
  BY ListingAssumption
<1>2. PriceSet \subseteq Nat \ {0}
  BY ListingAssumption
<1> QED BY <1>1, <1>2 DEF Item

All == buildProductWhere(NoFilter)

LEMMA AllIs == \A i \in Listed : i \in All <=> listing = "shop" \/ item[i].belongs
  BY DEF All, buildProductWhere, NoFilter, InPlace

(* The prices the facets name are those of products of the listing. *)
LEMMA FacetsAre ==
    ASSUME item \in [Listed -> Kinds]
    PROVE  LET facets == getFacets(NoFilter)
           IN  /\ facets \in Facets
               /\ All = {} => facets = NoFacets
               /\ All # {} =>
                     /\ facets.sizes = UNION {item[i].sizes : i \in All}
                     /\ facets.subs = UNION {item[i].subs : i \in All}
                     /\ \E i \in All : item[i].price = facets.min
                     /\ \E i \in All : item[i].price = facets.max
                     /\ \A i \in All : facets.min <= item[i].price /\ item[i].price <= facets.max
<1> DEFINE facets == getFacets(NoFilter)
           prices == {item[i].price : i \in All}
<1>1. [NoFilter EXCEPT !.subs = {}, !.sizes = {}, !.min = 0, !.max = 0] = NoFilter
  <2>1. [NoFilter EXCEPT !.subs = {}] = NoFilter
    BY DEF NoFilter
  <2>2. [NoFilter EXCEPT !.sizes = {}] = NoFilter
    BY DEF NoFilter
  <2>3. [NoFilter EXCEPT !.min = 0] = NoFilter
    BY DEF NoFilter
  <2>4. [NoFilter EXCEPT !.max = 0] = NoFilter
    BY DEF NoFilter
  <2> QED BY <2>1, <2>2, <2>3, <2>4
<1>2. facets = IF All = {} THEN NoFacets
               ELSE [sizes |-> UNION {item[i].sizes : i \in All}, subs |-> UNION {item[i].subs : i \in All},
                     min |-> Min(prices), max |-> Max(prices)]
  BY <1>1 DEF getFacets, All
<1>3. CASE All = {}
  BY <1>2, <1>3 DEF NoFacets, Facets
<1>4. CASE All # {}
  <2>1. All \in SUBSET Listed /\ IsFiniteSet(All)
    BY FoundIs DEF All
  <2>2. \A i \in All : /\ item[i].price \in Nat /\ item[i].sizes \in SUBSET Sizes
                       /\ item[i].subs \in SUBSET Subs
    BY <2>1, ItemIs
  <2>3. prices \in SUBSET Nat /\ prices # {}
    BY <1>4, <2>2
  <2>4. Min(prices) \in prices /\ \A p \in prices : Min(prices) <= p
    <3> HIDE DEF prices
    <3>1. \E m \in prices : \A k \in prices : m <= k
      BY <2>3, LeastNat
    <3> QED BY <3>1 DEF Min
  <2>5. Max(prices) \in prices /\ \A p \in prices : p <= Max(prices)
    <3> DEFINE f == [i \in All |-> item[i].price]
    <3>1. \A i \in All : f[i] \in Nat
      BY <2>2
    <3> HIDE DEF f
    <3>2. PICK x \in All : \A y \in All : f[y] <= f[x]
      BY <1>4, <2>1, <3>1, MostOf, Zenon
    <3>3. f[x] \in prices /\ \A p \in prices : p <= f[x]
      BY <3>2 DEF f
    <3>4. \E m \in prices : \A k \in prices : m >= k
      <4> HIDE DEF prices
      <4> QED BY <2>3, <3>1, <3>3
    <3>5. Max(prices) \in prices /\ \A p \in prices : Max(prices) >= p
      <4> HIDE DEF prices
      <4> QED BY <3>4 DEF Max
    <3> HIDE DEF prices
    <3> QED BY <2>3, <3>5
  <2>6. /\ facets.sizes = UNION {item[i].sizes : i \in All} /\ facets.subs = UNION {item[i].subs : i \in All}
        /\ facets.min = Min(prices) /\ facets.max = Max(prices)
        /\ facets = [sizes |-> facets.sizes, subs |-> facets.subs, min |-> facets.min, max |-> facets.max]
    <3> HIDE DEF facets, prices
    <3>1. facets = [sizes |-> UNION {item[i].sizes : i \in All}, subs |-> UNION {item[i].subs : i \in All},
                    min |-> Min(prices), max |-> Max(prices)]
      BY <1>2, <1>4
    <3>2. facets.sizes = UNION {item[i].sizes : i \in All} /\ facets.subs = UNION {item[i].subs : i \in All}
      BY <3>1
    <3>3. facets.min = Min(prices) /\ facets.max = Max(prices)
      BY <3>1
    <3> QED BY <3>1, <3>2, <3>3
  <2>7. \A i \in All : item[i].price \in prices
    OBVIOUS
  <2>8. \E i \in All : item[i].price = Min(prices)
    BY <2>4
  <2>9. \E i \in All : item[i].price = Max(prices)
    BY <2>5
  <2> HIDE DEF prices, facets
  <2>10. facets.sizes \in SUBSET Sizes /\ facets.subs \in SUBSET Subs
    BY <2>2, <2>6
  <2>11. facets.min \in Nat /\ facets.max \in Nat
    BY <2>3, <2>4, <2>5, <2>6
  <2>12. facets \in Facets
    BY <2>6, <2>10, <2>11 DEF Facets
  <2>13. \A i \in All : facets.min <= item[i].price /\ item[i].price <= facets.max
    BY <2>4, <2>5, <2>6, <2>7
  <2> QED BY <1>4, <2>6, <2>8, <2>9, <2>12, <2>13 DEF facets
<1> QED BY <1>3, <1>4

LEMMA BandsAre ==
    ASSUME NEW facets \in Facets, NEW b \in buildPriceBands(facets)
    PROVE  /\ b.min \in Nat /\ b.max \in Nat /\ facets.min < facets.max
           /\ b.min # 0 => b.min < facets.max
           /\ b.max # 0 => facets.min < b.max
<1> DEFINE stops == {s \in Stops : facets.min < s /\ s < facets.max}
           Above(s) == {t \in stops : s < t}
<1>1. ~(facets.max <= facets.min) /\ facets.min \in Nat /\ facets.max \in Nat
  BY DEF buildPriceBands, Facets
<1>2. PICK s \in stops \cup {0} : b = [min |-> s, max |-> IF Above(s) = {} THEN 0 ELSE Min(Above(s))]
  BY <1>1 DEF buildPriceBands
<1>3. stops \in SUBSET Nat
  BY ListingAssumption
<1>4. b.min = s /\ s \in Nat /\ (s # 0 => s < facets.max)
  BY <1>1, <1>2, <1>3
<1>5. CASE Above(s) = {}
  BY <1>1, <1>2, <1>4, <1>5
<1>6. CASE Above(s) # {}
  <2> DEFINE A == Above(s)
  <2>1. A \in SUBSET Nat /\ A # {} /\ \A t \in A : facets.min < t
    BY <1>3, <1>6
  <2>2. b.max = Min(A)
    BY <1>2, <1>6
  <2> HIDE DEF A
  <2>3. \E m \in A : \A k \in A : m <= k
    BY <2>1, LeastNat
  <2>4. Min(A) \in A
    BY <2>3 DEF Min
  <2>5. b.max \in Nat /\ facets.min < b.max
    BY <2>1, <2>2, <2>4
  <2> QED BY <1>1, <1>4, <2>5
<1> QED BY <1>5, <1>6

(* What was chosen before leaves the controls as they were. *)
LEMMA FacetsUsable ==
    ASSUME item \in [Listed -> Kinds], shown.facets \in {NoFacets, getFacets(NoFilter)}
    PROVE  FacetsStayUsable
<1> DEFINE facets == shown.facets
<1>1. SUFFICES ASSUME facets # NoFacets
      PROVE  /\ \A i \in All : item[i].sizes \subseteq facets.sizes /\ item[i].subs \subseteq facets.subs
             /\ \A v \in facets.sizes : buildProductWhere([NoFilter EXCEPT !.sizes = {v}]) # {}
             /\ \A c \in facets.subs : buildProductWhere([NoFilter EXCEPT !.subs = {c}]) # {}
             /\ \A b \in buildPriceBands(facets) : b.min = 0 \/ b.max = 0 =>
                   buildProductWhere([NoFilter EXCEPT !.min = b.min, !.max = b.max]) # {}
  BY DEF FacetsStayUsable, All
<1>2. facets = getFacets(NoFilter)
  BY <1>1
<1>3. /\ facets \in Facets /\ All # {}
      /\ facets.sizes = UNION {item[i].sizes : i \in All} /\ facets.subs = UNION {item[i].subs : i \in All}
      /\ \E i \in All : item[i].price = facets.min
      /\ \E i \in All : item[i].price = facets.max
  BY <1>1, <1>2, FacetsAre
<1>4. All \in SUBSET Listed
  BY FoundIs DEF All
<1> HIDE DEF facets
<1>5. \A i \in All : item[i].sizes \subseteq facets.sizes /\ item[i].subs \subseteq facets.subs
  BY <1>3
<1>6. ASSUME NEW v \in facets.sizes PROVE buildProductWhere([NoFilter EXCEPT !.sizes = {v}]) # {}
  <2>1. PICK i \in All : v \in item[i].sizes
    BY <1>3
  <2>2. i \in buildProductWhere([NoFilter EXCEPT !.sizes = {v}])
    BY <1>4, <2>1, AllIs DEF buildProductWhere, NoFilter, InPlace
  <2> QED BY <2>2
<1>7. ASSUME NEW c \in facets.subs PROVE buildProductWhere([NoFilter EXCEPT !.subs = {c}]) # {}
  <2>1. PICK i \in All : c \in item[i].subs
    BY <1>3
  <2>2. i \in buildProductWhere([NoFilter EXCEPT !.subs = {c}])
    BY <1>4, <2>1, AllIs DEF buildProductWhere, NoFilter, InPlace
  <2> QED BY <2>2
<1>8. ASSUME NEW b \in buildPriceBands(facets), b.min = 0 \/ b.max = 0
      PROVE  buildProductWhere([NoFilter EXCEPT !.min = b.min, !.max = b.max]) # {}
  <2>1. /\ b.min \in Nat /\ b.max \in Nat /\ (b.min # 0 => b.min < facets.max) /\ (b.max # 0 => facets.min < b.max)
        /\ facets.min \in Nat /\ facets.max \in Nat
    BY <1>3, BandsAre DEF Facets
  <2>2. PICK i \in All : item[i].price = IF b.min = 0 THEN facets.min ELSE facets.max
    BY <1>3
  <2>3. /\ b.min # 0 => item[i].price >= b.min
        /\ b.max # 0 => item[i].price <= b.max
    BY <1>8, <2>1, <2>2
  <2>4. i \in buildProductWhere([NoFilter EXCEPT !.min = b.min, !.max = b.max])
    BY <1>4, <2>2, <2>3, AllIs DEF buildProductWhere, NoFilter, InPlace
  <2> QED BY <2>4
<1> QED BY <1>5, <1>6, <1>7, <1>8

(* An order of what was found has each of it at one place. *)
LEMMA OrderIs ==
    ASSUME NEW q, NEW s \in Orders(q, buildProductWhere(q))
    PROVE  LET found == buildProductWhere(q)
               n == Cardinality(found)
           IN  /\ n \in Nat /\ DOMAIN s = 1 .. n /\ Len(s) = n
               /\ \A k \in 1 .. n : s[k] \in found
               /\ \A i \in found : \E k \in 1 .. n : s[k] = i
               /\ \A j, k \in 1 .. n : j < k => s[j] # s[k] /\ Key(q, s[j]) <= Key(q, s[k])
<1> DEFINE found == buildProductWhere(q)
           n == Cardinality(found)
<1>1. n \in Nat /\ IsFiniteSet(found)
  BY FoundIs, FS_CardinalityType
<1>2. s \in [1 .. n -> found] /\ \A j, k \in 1 .. n : j < k => s[j] # s[k] /\ Key(q, s[j]) <= Key(q, s[k])
  BY DEF Orders
<1> HIDE DEF found, n
<1>3. s \in Injection(1 .. n, found)
  <2>1. ASSUME NEW j \in 1 .. n, NEW k \in 1 .. n, s[j] = s[k] PROVE j = k
    <3>1. j < k \/ k < j \/ j = k
      BY <1>1
    <3> QED BY <1>2, <2>1, <3>1
  <2> QED BY <1>2, <2>1 DEF Injection, IsInjective
<1>4. Cardinality(1 .. n) = n
  <2>1. Cardinality(1 .. n) = IF 1 > n THEN 0 ELSE n - 1 + 1
    BY <1>1, FS_Interval
  <2> QED BY <1>1, <2>1
<1>5. s \in Surjection(1 .. n, found)
  BY <1>1, <1>3, <1>4, FS_Injection DEF n
<1>6. \A i \in found : \E k \in 1 .. n : s[k] = i
  BY <1>5 DEF Surjection
<1>7. Len(s) = n
  <2>1. s \in Seq(found)
    BY <1>1, <1>2, SeqDef
  <2>2. Len(s) \in Nat /\ DOMAIN s = 1 .. Len(s)
    BY <2>1, LenProperties
  <2> QED BY <1>1, <1>2, <2>2
<1> QED BY <1>1, <1>2, <1>6, <1>7 DEF found, n

(* The first k places have k products. *)
LEMMA FirstPlaces ==
    ASSUME NEW q, NEW s \in Orders(q, buildProductWhere(q)),
           NEW k \in 0 .. Cardinality(buildProductWhere(q))
    PROVE  LET first == {s[x] : x \in 1 .. k}
           IN  IsFiniteSet(first) /\ Cardinality(first) = k
<1> DEFINE n == Cardinality(buildProductWhere(q))
           first == {s[x] : x \in 1 .. k}
           f == [x \in 1 .. k |-> s[x]]
<1>1. n \in Nat /\ \A x, y \in 1 .. n : x < y => s[x] # s[y]
  BY OrderIs
<1> HIDE DEF n
<1>2. k \in Nat /\ k <= n
  BY <1>1 DEF n
<1>3. f \in Surjection(1 .. k, first)
  BY DEF Surjection
<1>4. f \in Injection(1 .. k, first)
  <2>1. ASSUME NEW x \in 1 .. k, NEW y \in 1 .. k, f[x] = f[y] PROVE x = y
    <3>1. x \in 1 .. n /\ y \in 1 .. n /\ (x < y \/ y < x \/ x = y)
      BY <1>1, <1>2
    <3> QED BY <1>1, <2>1, <3>1
  <2> QED BY <2>1 DEF Injection, IsInjective
<1>5. IsFiniteSet(1 .. k) /\ Cardinality(1 .. k) = k
  <2>1. IsFiniteSet(1 .. k) /\ Cardinality(1 .. k) = IF 1 > k THEN 0 ELSE k - 1 + 1
    BY <1>2, FS_Interval
  <2> QED BY <1>2, <2>1
<1> HIDE DEF f, first
<1>6. IsFiniteSet(first) /\ Cardinality(first) = k
  BY <1>3, <1>4, <1>5, FS_Surjection
<1> QED BY <1>6 DEF first

(* A product that the sorting puts on page m is there, whatever its place    *)
(* among those that tie with it; and on no other page.                       *)
IsForIn(q, m, i) ==
    /\ (m - 1) * PageSize <= Cardinality({j \in buildProductWhere(q) : Key(q, j) < Key(q, i)})
    /\ Cardinality({j \in buildProductWhere(q) : Key(q, j) <= Key(q, i)}) <= m * PageSize

LEMMA KeysAre ==
    ASSUME item \in [Listed -> Kinds], NEW q
    PROVE  \A i \in buildProductWhere(q) : Key(q, i) \in Nat
  BY FoundIs, ItemIs DEF Key

LEMMA OnItsPage ==
    ASSUME item \in [Listed -> Kinds], NEW q, NEW s \in Orders(q, buildProductWhere(q)),
           NEW i \in buildProductWhere(q), NEW m \in Nat \ {0}, IsForIn(q, m, i), NEW p \in Nat \ {0}
    PROVE  i \in OnPage(s, p) <=> p = m
<1> DEFINE found == buildProductWhere(q)
           n == Cardinality(found)
           Below == {j \in found : Key(q, j) < Key(q, i)}
           Upto == {j \in found : Key(q, j) <= Key(q, i)}
<1>0. PageSize \in Nat \ {0} /\ IsFiniteSet(found) /\ \A j \in found : Key(q, j) \in Nat
  BY ListingAssumption, FoundIs, KeysAre
<1>1. /\ n \in Nat /\ DOMAIN s = 1 .. n /\ \A k \in 1 .. n : s[k] \in found
      /\ \A j \in found : \E k \in 1 .. n : s[k] = j
      /\ \A j, k \in 1 .. n : j < k => s[j] # s[k] /\ Key(q, s[j]) <= Key(q, s[k])
  BY OrderIs
<1>2. PICK k \in 1 .. n : s[k] = i
  BY <1>1
<1>3. IsFiniteSet(Below) /\ IsFiniteSet(Upto) /\ Cardinality(Below) \in Nat /\ Cardinality(Upto) \in Nat
  <2>1. Below \in SUBSET found /\ Upto \in SUBSET found
    OBVIOUS
  <2> HIDE DEF Below, Upto
  <2> QED BY <1>0, <2>1, FS_Subset, FS_CardinalityType
<1>4. Cardinality(Below) <= k - 1
  <2> DEFINE first == {s[x] : x \in 1 .. (k - 1)}
  <2>1. k - 1 \in 0 .. n
    BY <1>1
  <2>2. IsFiniteSet(first) /\ Cardinality(first) = k - 1
    BY <2>1, FirstPlaces
  <2>3. ASSUME NEW j \in Below PROVE j \in first
    <3>1. PICK x \in 1 .. n : s[x] = j
      BY <1>1
    <3>2. ~(k <= x)
      <4>1. SUFFICES ASSUME k < x \/ k = x PROVE FALSE
        BY <1>1
      <4>2. Key(q, i) <= Key(q, j)
        BY <1>0, <1>1, <1>2, <3>1, <4>1
      <4> QED BY <1>0, <4>2
    <3>3. x \in 1 .. (k - 1)
      BY <1>1, <3>2
    <3> QED BY <3>1, <3>3
  <2> HIDE DEF first, Below
  <2>4. Below \in SUBSET first
    BY <2>3
  <2> QED BY <2>2, <2>4, FS_Subset
<1>5. k <= Cardinality(Upto)
  <2> DEFINE first == {s[x] : x \in 1 .. k}
  <2>1. k \in 0 .. n
    BY <1>1
  <2>2. IsFiniteSet(first) /\ Cardinality(first) = k
    BY <2>1, FirstPlaces
  <2>3. ASSUME NEW x \in 1 .. k PROVE s[x] \in Upto
    <3>1. x \in 1 .. n /\ (x < k \/ x = k)
      BY <1>1
    <3> QED BY <1>0, <1>1, <1>2, <3>1
  <2> HIDE DEF Upto
  <2>4. first \in SUBSET Upto
    BY <2>3
  <2> HIDE DEF first
  <2> QED BY <1>3, <2>2, <2>4, FS_Subset
<1>6. (m - 1) * PageSize <= Cardinality(Below) /\ Cardinality(Upto) <= m * PageSize
  BY DEF IsForIn
<1> HIDE DEF Below, Upto
<1>7. /\ (m - 1) * PageSize < k /\ k <= m * PageSize
      /\ m * PageSize = (m - 1) * PageSize + PageSize
      /\ (m - 1) * PageSize \in Int /\ m * PageSize \in Int
  <2>1. (m - 1) * PageSize \in Int /\ m * PageSize \in Int /\ k \in Nat
    BY <1>0, <1>1
  <2>2. m * PageSize = (m - 1) * PageSize + PageSize
    BY <1>0
  <2> QED BY <1>3, <1>4, <1>5, <1>6, <2>1, <2>2
<1>8. i \in OnPage(s, m)
  BY <1>1, <1>2, <1>7 DEF OnPage
<1>9. ASSUME i \in OnPage(s, p), p # m PROVE FALSE
  <2>1. PICK x \in 1 .. n : s[x] = i /\ (p - 1) * PageSize < x /\ x <= (p - 1) * PageSize + PageSize
    BY <1>1, <1>9 DEF OnPage
  <2>2. x = k
    <3>1. x < k \/ k < x \/ x = k
      BY <1>1
    <3> QED BY <1>1, <1>2, <2>1, <3>1
  <2>3. k \in Nat /\ (p < m \/ m < p)
    BY <1>1, <1>9
  <2> QED BY <1>0, <1>7, <2>1, <2>2, <2>3, OnePageEach
<1> QED BY <1>8, <1>9

(* A page that is led to has products. *)
PageLeads(q) == q.page = 1 \/ q.page <= Pages(Cardinality(buildProductWhere(q)))

LEMMA PagesFill ==
    ASSUME NEW q \in Filter, PageLeads(q), NEW s \in Orders(q, buildProductWhere(q)),
           Cardinality(buildProductWhere(q)) > 0
    PROVE  OnPage(s, q.page) # {}
<1> DEFINE n == Cardinality(buildProductWhere(q))
           skip == (q.page - 1) * PageSize
<1>1. PageSize \in Nat \ {0} /\ q.page \in Nat \ {0} /\ n \in Nat /\ DOMAIN s = 1 .. n
  BY ListingAssumption, OrderIs DEF Filter
<1>2. n \in Nat \ {0} /\ (q.page = 1 \/ q.page <= (n + PageSize - 1) \div PageSize)
  BY <1>1 DEF PageLeads, Pages
<1> HIDE DEF n
<1>3. skip + 1 \in 1 .. n
  BY <1>1, <1>2, PageBegins
<1>4. skip \in Int
  BY <1>1
<1> HIDE DEF skip
<1>5. skip < skip + 1 /\ skip + 1 <= skip + PageSize
  BY <1>1, <1>4
<1>6. s[skip + 1] \in OnPage(s, q.page)
  BY <1>1, <1>3, <1>5 DEF OnPage, skip
<1> QED BY <1>6

-----------------------------------------------------------------------------
(* Clicks and pages. *)

ListTyped ==
    /\ listing \in {"shop", "category", "collection"} /\ item \in [Listed -> Kinds]
    /\ url \in Filter /\ rendered \in Filter
    /\ moves \in 0 .. MaxMoves /\ noFacets \in 0 .. MaxNoFacets

(* A link leads to a page there is: of the URL, and of what is on the screen. *)
LinksLead == PageLeads(url) /\ PageLeads(rendered)

ShownIsRendered ==
    /\ \E s \in Orders(rendered, buildProductWhere(rendered)) : shown.items = OnPage(s, rendered.page)
    /\ shown.total = Cardinality(buildProductWhere(rendered))
    /\ shown.facets \in {NoFacets, getFacets(NoFilter)}

(* What was seen of the list on the screen: each product on its page, and     *)
(* all that are for a page that was seen.                                     *)
SeenOK ==
    /\ seen \subseteq (Nat \ {0}) \X Listed
    /\ \A i \in buildProductWhere(rendered) : \A n \in Nat \ {0} : IsForIn(rendered, n, i) =>
          /\ \A e \in seen : e[2] = i => e[1] = n
          /\ (\E e \in seen : e[1] = n) => <<n, i>> \in seen

ListInv == ListTyped /\ LinksLead /\ ShownIsRendered /\ SeenOK

LEMMA PageIs ==
    ASSUME NEW q, NEW facets, NEW s \in Orders(q, buildProductWhere(q))
    PROVE  /\ Page(q, s, facets).items = OnPage(s, q.page)
           /\ Page(q, s, facets).total = Cardinality(buildProductWhere(q))
           /\ Page(q, s, facets).facets = facets
  BY OrderIs DEF Page, listProducts

LEMMA OnPageIs ==
    ASSUME NEW q, NEW s \in Orders(q, buildProductWhere(q)), NEW p
    PROVE  OnPage(s, p) \subseteq Listed
  BY OrderIs, FoundIs DEF OnPage

(* A page adds to what was seen of its list. *)
LEMMA SeenGrows ==
    ASSUME item \in [Listed -> Kinds], NEW q, NEW s \in Orders(q, buildProductWhere(q)),
           NEW p \in Nat \ {0}, NEW i \in buildProductWhere(q), NEW n \in Nat \ {0}, IsForIn(q, n, i),
           NEW old,
           /\ \A e \in old : e[2] = i => e[1] = n
           /\ (\E e \in old : e[1] = n) => <<n, i>> \in old
    PROVE  LET new == old \cup ({p} \X OnPage(s, p))
           IN  /\ \A e \in new : e[2] = i => e[1] = n
               /\ (\E e \in new : e[1] = n) => <<n, i>> \in new
<1> DEFINE page == OnPage(s, p)
<1>1. i \in page <=> p = n
  BY OnItsPage
<1> HIDE DEF page
<1>2. \A e \in {p} \X page : e[1] = p /\ e[2] \in page
  OBVIOUS
<1>3. ASSUME NEW e \in {p} \X page, e[2] = i PROVE e[1] = n
  BY <1>1, <1>2, <1>3
<1>4. ASSUME NEW e \in {p} \X page, e[1] = n PROVE <<n, i>> \in {p} \X page
  BY <1>1, <1>2, <1>4
<1> QED BY <1>3, <1>4 DEF page

LEMMA NoFilterIs == NoFilter \in Filter /\ NoFilter.page = 1
  BY DEF NoFilter, Filter, SortKeys

LEMMA ListStarts == ListInit => ListInv
<1> SUFFICES ASSUME ListInit PROVE ListInv
  OBVIOUS
<1>1. ListTyped
  BY NoFilterIs, ListingAssumption DEF ListInit, ListTyped
<1>2. LinksLead
  BY NoFilterIs DEF ListInit, LinksLead, PageLeads
<1>3. PICK s \in Orders(NoFilter, buildProductWhere(NoFilter)) : shown = Page(NoFilter, s, getFacets(NoFilter))
  BY DEF ListInit
<1>4. rendered = NoFilter /\ shown.items = OnPage(s, 1) /\ seen = {1} \X shown.items
  BY <1>3, PageIs, NoFilterIs DEF ListInit
<1>5. ShownIsRendered
  BY <1>3, <1>4, PageIs, NoFilterIs DEF ShownIsRendered
<1>6. SeenOK
  <2>1. seen \subseteq (Nat \ {0}) \X Listed
    <3>1. shown.items \subseteq Listed
      BY <1>4, OnPageIs
    <3> QED BY <1>4, <3>1
  <2>2. ASSUME NEW i \in buildProductWhere(rendered), NEW n \in Nat \ {0}, IsForIn(rendered, n, i)
        PROVE  /\ \A e \in seen : e[2] = i => e[1] = n
               /\ (\E e \in seen : e[1] = n) => <<n, i>> \in seen
    <3> DEFINE old == {}
    <3>1. /\ \A e \in old : e[2] = i => e[1] = n
          /\ (\E e \in old : e[1] = n) => <<n, i>> \in old
      OBVIOUS
    <3>2. seen = old \cup ({1} \X OnPage(s, 1)) /\ 1 \in Nat \ {0}
      BY <1>4
    <3> HIDE DEF old
    <3> QED BY <1>1, <1>4, <2>2, <3>1, <3>2, SeenGrows DEF ListTyped
  <2> QED BY <2>1, <2>2 DEF SeenOK
<1> QED BY <1>1, <1>2, <1>5, <1>6 DEF ListInv

(* What is on the screen is what the query of its filters answers. *)
LEMMA ShownFollows ==
    ASSUME UNCHANGED <<listing, item>>, NEW q, rendered' = q,
           \E s \in Orders(q, buildProductWhere(q)) : shown'.items = OnPage(s, q.page),
           shown'.total = Cardinality(buildProductWhere(q)),
           shown'.facets \in {NoFacets, getFacets(NoFilter)}
    PROVE  ShownIsRendered'
<1>1. buildProductWhere(rendered)' = buildProductWhere(q)
  BY DEF buildProductWhere, InPlace
<1>2. getFacets(NoFilter)' = getFacets(NoFilter)
  BY DEF getFacets, buildProductWhere, InPlace
<1>3. Orders(rendered, buildProductWhere(rendered))' = Orders(q, buildProductWhere(q))
  BY <1>1 DEF Orders, Key
<1> QED BY <1>1, <1>2, <1>3 DEF ShownIsRendered

(* A click writes a filter that leads to a page there is. *)
LEMMA ClicksKeep ==
    ASSUME ListInv, Click, url' \in Filter, PageLeads(url')
    PROVE  ListInv'
<1>1. ListTyped /\ LinksLead /\ ShownIsRendered /\ SeenOK
  BY DEF ListInv
<1>2. UNCHANGED <<listing, item, rendered, shown, noFacets, seen>> /\ moves < MaxMoves /\ moves' = moves + 1
  BY DEF Click
<1>3. ListTyped'
  <2>1. moves' \in 0 .. MaxMoves
    BY <1>1, <1>2, ListingAssumption DEF ListTyped
  <2> QED BY <1>1, <1>2, <2>1 DEF ListTyped
<1>4. ShownIsRendered'
  BY <1>1, <1>2, ShownFollows DEF ShownIsRendered
<1>5. LinksLead'
  BY <1>1, <1>2 DEF LinksLead, PageLeads, buildProductWhere, InPlace
<1>6. SeenOK'
  BY <1>1, <1>2 DEF SeenOK, IsForIn, Key, buildProductWhere, InPlace
<1> QED BY <1>3, <1>4, <1>5, <1>6 DEF ListInv

(* Every change but a page link goes back to the first page. *)
LEMMA ApplyKeeps ==
    ASSUME ListInv, Click, NEW next \in Filter, apply(next)
    PROVE  ListInv'
<1>1. url' \in Filter /\ url'.page = 1
  BY DEF apply, Filter
<1> QED BY <1>1, ClicksKeep DEF PageLeads

LEMMA LinkKeeps ==
    ASSUME ListInv, NEW n, PageLink(n)
    PROVE  ListInv'
<1> DEFINE next == [rendered EXCEPT !.page = n]
<1>1. url' = next /\ Click /\ n \in 1 .. Pages(shown.total)
  BY DEF PageLink
<1>2. rendered \in Filter /\ shown.total = Cardinality(buildProductWhere(rendered)) /\ PageSize \in Nat \ {0}
  BY ListingAssumption DEF ListInv, ListTyped, ShownIsRendered
<1>3. Cardinality(buildProductWhere(rendered)) \in Nat
  <2>1. Cardinality(buildProductWhere(rendered)) \in 0 .. Shelved /\ Shelved \in Nat
    BY FoundIs, ListingAssumption
  <2> QED BY <2>1
<1>4. Pages(shown.total) \in Int
  BY <1>2, <1>3 DEF Pages
<1>5. n \in Nat \ {0} /\ n <= Pages(shown.total)
  BY <1>1, <1>4
<1>6. next \in Filter /\ next.page = n
  BY <1>2, <1>5 DEF Filter
<1>7. buildProductWhere(next) = buildProductWhere(rendered)
  BY <1>2 DEF buildProductWhere, InPlace, Filter
<1>8. PageLeads(next)
  BY <1>2, <1>5, <1>6, <1>7 DEF PageLeads
<1> QED BY <1>1, <1>6, <1>8, ClicksKeep

(* Filters that differ in the page find the same and sort it alike. *)
LEMMA SameListIs ==
    ASSUME NEW q \in Filter, NEW r \in Filter, SameList(q, r)
    PROVE  /\ buildProductWhere(q) = buildProductWhere(r)
           /\ \A n, i : IsForIn(q, n, i) <=> IsForIn(r, n, i)
<1>1. /\ q.sizes = r.sizes /\ q.subs = r.subs /\ q.min = r.min /\ q.max = r.max
      /\ q.inStock = r.inStock /\ q.sort = r.sort
  <2> DEFINE a == [q EXCEPT !.page = 1]
             b == [r EXCEPT !.page = 1]
  <2>1. /\ a.sizes = q.sizes /\ a.subs = q.subs /\ a.min = q.min /\ a.max = q.max
        /\ a.inStock = q.inStock /\ a.sort = q.sort
    BY DEF Filter
  <2>2. /\ b.sizes = r.sizes /\ b.subs = r.subs /\ b.min = r.min /\ b.max = r.max
        /\ b.inStock = r.inStock /\ b.sort = r.sort
    BY DEF Filter
  <2>3. a = b
    BY DEF SameList
  <2> HIDE DEF a, b
  <2> QED BY <2>1, <2>2, <2>3
<1>2. buildProductWhere(q) = buildProductWhere(r)
  BY <1>1 DEF buildProductWhere, InPlace
<1>3. \A i : Key(q, i) = Key(r, i)
  BY <1>1 DEF Key
<1> QED BY <1>2, <1>3 DEF IsForIn

LEMMA RenderKeeps ==
    ASSUME ListInv, Render
    PROVE  ListInv'
<1>1. ListTyped /\ LinksLead /\ ShownIsRendered /\ SeenOK
  BY DEF ListInv
<1>2. rendered' = url /\ UNCHANGED <<listing, item, url, moves>>
  BY DEF Render
<1>3. noFacets' \in 0 .. MaxNoFacets
  BY <1>1, ListingAssumption DEF Render, ListTyped
<1>4. PICK s \in Orders(url, buildProductWhere(url)) :
         \E facets \in {NoFacets, getFacets(NoFilter)} : shown' = Page(url, s, facets)
  BY DEF Render, FacetQuery
<1>5. /\ shown'.items = OnPage(s, url.page)
      /\ shown'.total = Cardinality(buildProductWhere(url))
      /\ shown'.facets \in {NoFacets, getFacets(NoFilter)}
  BY <1>4, PageIs
<1>6. ListTyped'
  BY <1>1, <1>2, <1>3 DEF ListTyped
<1>7. ShownIsRendered'
  <2>1. \E z \in Orders(url, buildProductWhere(url)) : shown'.items = OnPage(z, url.page)
    BY <1>4, <1>5
  <2> QED BY <1>2, <1>5, <2>1, ShownFollows
<1>8. LinksLead'
  BY <1>1, <1>2 DEF LinksLead, PageLeads, buildProductWhere, InPlace
<1> DEFINE old == IF SameList(url, rendered) THEN seen ELSE {}
<1>9. seen' = old \cup ({url.page} \X OnPage(s, url.page)) /\ url.page \in Nat \ {0}
  BY <1>1, <1>5 DEF Render, ListTyped, Filter
<1>10. seen' \subseteq (Nat \ {0}) \X Listed
  <2>1. OnPage(s, url.page) \subseteq Listed
    BY OnPageIs
  <2>2. old \subseteq (Nat \ {0}) \X Listed
    BY <1>1 DEF SeenOK
  <2> HIDE DEF old
  <2> QED BY <1>9, <2>1, <2>2
<1>11. ASSUME NEW i \in buildProductWhere(url), NEW n \in Nat \ {0}, IsForIn(url, n, i)
       PROVE  /\ \A e \in seen' : e[2] = i => e[1] = n
              /\ (\E e \in seen' : e[1] = n) => <<n, i>> \in seen'
  <2>1. /\ \A e \in old : e[2] = i => e[1] = n
        /\ (\E e \in old : e[1] = n) => <<n, i>> \in old
    <3>1. CASE SameList(url, rendered)
      <4>1. i \in buildProductWhere(rendered) /\ IsForIn(rendered, n, i)
        BY <1>1, <1>11, <3>1, SameListIs DEF ListTyped
      <4> QED BY <1>1, <3>1, <4>1 DEF SeenOK
    <3>2. CASE ~SameList(url, rendered)
      BY <3>2
    <3> QED BY <3>1, <3>2
  <2> HIDE DEF old
  <2> QED BY <1>1, <1>9, <1>11, <2>1, SeenGrows DEF ListTyped
<1>12. SeenOK'
  <2>1. buildProductWhere(rendered)' = buildProductWhere(url)
    BY <1>2 DEF buildProductWhere, InPlace
  <2>2. \A n, i : IsForIn(rendered, n, i)' <=> IsForIn(url, n, i)
    BY <1>2 DEF IsForIn, Key, buildProductWhere, InPlace
  <2> QED BY <1>10, <1>11, <2>1, <2>2 DEF SeenOK
<1> QED BY <1>6, <1>7, <1>8, <1>12 DEF ListInv

LEMMA ListSteps == ListInv /\ [ListNext]_listVars => ListInv'
<1> SUFFICES ASSUME ListInv, [ListNext]_listVars PROVE ListInv'
  OBVIOUS
<1>1. rendered \in Filter /\ item \in [Listed -> Kinds] /\ shown.facets \in {NoFacets, getFacets(NoFilter)}
  BY DEF ListInv, ListTyped, ShownIsRendered
<1>2. shown.facets \in Facets
  <2>1. NoFacets \in Facets
    BY DEF NoFacets, Facets
  <2> QED BY <1>1, <2>1, FacetsAre
<1>3. ASSUME NEW v \in Sizes, ToggleSize(v) PROVE ListInv'
  <2>1. [rendered EXCEPT !.sizes = toggleCsv(@, v)] \in Filter
    BY <1>1 DEF Filter, toggleCsv
  <2> QED BY <1>3, <2>1, ApplyKeeps DEF ToggleSize
<1>4. ASSUME NEW c \in Subs, ToggleSub(c) PROVE ListInv'
  <2>1. [rendered EXCEPT !.subs = toggleCsv(@, c)] \in Filter
    BY <1>1 DEF Filter, toggleCsv
  <2> QED BY <1>4, <2>1, ApplyKeeps DEF ToggleSub
<1>5. ASSUME NEW b \in buildPriceBands(shown.facets), ChooseBand(b) PROVE ListInv'
  <2>1. b.min \in Nat /\ b.max \in Nat
    BY <1>2, BandsAre
  <2> DEFINE active == rendered.min = b.min /\ rendered.max = b.max
             next == [rendered EXCEPT !.min = IF active THEN 0 ELSE b.min, !.max = IF active THEN 0 ELSE b.max]
  <2>2. next \in Filter
    BY <1>1, <2>1 DEF Filter
  <2>3. apply(next) /\ Click
    BY <1>5 DEF ChooseBand
  <2> HIDE DEF next
  <2> QED BY <2>2, <2>3, ApplyKeeps
<1>6. CASE ClearBand
  <2>1. [rendered EXCEPT !.min = 0, !.max = 0] \in Filter
    BY <1>1 DEF Filter
  <2> QED BY <1>6, <2>1, ApplyKeeps DEF ClearBand
<1>7. CASE ToggleInStock
  <2>1. [rendered EXCEPT !.inStock = ~@] \in Filter
    BY <1>1 DEF Filter
  <2> QED BY <1>7, <2>1, ApplyKeeps DEF ToggleInStock
<1>8. CASE ClearAll
  <2>1. [NoFilter EXCEPT !.sort = rendered.sort] \in Filter
    BY <1>1, NoFilterIs DEF Filter
  <2> QED BY <1>8, <2>1, ApplyKeeps DEF ClearAll
<1>9. ASSUME NEW key \in SortKeys, Sort(key) PROVE ListInv'
  <2>1. [rendered EXCEPT !.sort = key] \in Filter
    BY <1>1 DEF Filter
  <2> QED BY <1>9, <2>1, ApplyKeeps DEF Sort
<1>10. CASE UNCHANGED listVars
  <2>1. UNCHANGED <<listing, item, url, rendered, shown, moves, noFacets, seen>>
    BY <1>10 DEF listVars
  <2>2. ListTyped' /\ LinksLead'
    BY <2>1 DEF ListInv, ListTyped, LinksLead, PageLeads, buildProductWhere, InPlace
  <2>3. ShownIsRendered'
    BY <2>1, ShownFollows DEF ListInv, ShownIsRendered
  <2>4. SeenOK'
    BY <2>1 DEF ListInv, SeenOK, IsForIn, Key, buildProductWhere, InPlace
  <2> QED BY <2>2, <2>3, <2>4 DEF ListInv
<1> QED BY <1>3, <1>4, <1>5, <1>6, <1>7, <1>8, <1>9, <1>10, LinkKeeps, RenderKeeps DEF ListNext

LEMMA ListInvSays == ListInv => ListTypeOK /\ ListingIsUsable
<1> SUFFICES ASSUME ListInv PROVE ListTypeOK /\ ListingIsUsable
  OBVIOUS
<1>1. ListTyped /\ LinksLead /\ ShownIsRendered /\ SeenOK
  BY DEF ListInv
<1>2. shown.facets \in Facets
  <2>1. NoFacets \in Facets
    BY DEF NoFacets, Facets
  <2> QED BY <1>1, <2>1, FacetsAre DEF ListTyped, ShownIsRendered
<1>3. ListTypeOK
  <2>1. shown.total \in 0 .. Shelved
    BY <1>1, FoundIs DEF ShownIsRendered
  <2>2. shown.items \subseteq Listed
    BY <1>1, OnPageIs DEF ShownIsRendered
  <2> QED BY <1>1, <1>2, <2>1, <2>2 DEF ListTyped, ListTypeOK, Facets, SeenOK
<1>4. ListingIsUsable
  <2>1. PageHasItems
    BY <1>1, PagesFill DEF ListTyped, LinksLead, ShownIsRendered, PageHasItems
  <2>2. NothingMissed
    <3>1. \A i, n : IsFor(n, i) <=> IsForIn(rendered, n, i)
      BY DEF IsFor, IsForIn
    <3>2. Pages(shown.total) \in Int
      BY <1>1, FoundIs, ListingAssumption DEF ShownIsRendered, Pages
    <3>3. 1 .. Pages(shown.total) \subseteq Nat \ {0}
      BY <3>2
    <3> QED BY <1>1, <3>1, <3>3 DEF NothingMissed, SeenOK
  <2>3. FacetsStayUsable
    BY <1>1, FacetsUsable DEF ListTyped, ShownIsRendered
  <2> QED BY <2>1, <2>2, <2>3 DEF ListingIsUsable
<1> QED BY <1>3, <1>4

(* Filters, pages and facets keep their types. *)
THEOREM ListTypes == ListSpec => []ListTypeOK
  BY ListStarts, ListSteps, ListInvSays, PTL DEF ListSpec

(* No empty page, no dead filter, and no product lost between pages but among *)
(* those that tie in the sorting across the end of a page, for any products,  *)
(* prices, size of a page, number of clicks, and order of what ties.          *)
THEOREM ListingHolds == ListSpec => []ListingIsUsable
  BY ListStarts, ListSteps, ListInvSays, PTL DEF ListSpec

-----------------------------------------------------------------------------
(* Nothing is above itself: no set of categories has all of its parents.    *)
Acyclic == \A S \in SUBSET Existing : (\A i \in S : category[i].parent \in S) => S = {}

(* A parent is there, a slug is one category's, and a path is the parent's  *)
(* with the slug.                                                           *)
ParentsThere == \A i \in Existing : category[i].parent \in Existing \cup {Top}
SlugsDiffer == \A i, j \in Existing : category[i].slug = category[j].slug => i = j
PathsFollow ==
    \A i \in Existing : category[i].path = Append(PathBelow(category[i].parent), category[i].slug)

(* What an edit has found out by now. *)
NotOwn(d) == d.at \in {"updateSlug", "updatePath", "updateRow"} => d.parent # d.id
Computed(d) ==
    d.at \in {"createRow", "updateRow"} =>
        d.path = Append(d.parentPath, d.slug) /\ (d.parent = Top => d.parentPath = << >>)

TreeTyped ==
    /\ category \in [CategoryIds -> Category] /\ categories \in 0..MaxCategories
    /\ edit \in [Editors -> Edit]
    /\ treeMoved \in BOOLEAN /\ treeCrossed \in BOOLEAN /\ looped \in BOOLEAN
LoopInv ==
    /\ looped => treeMoved
    /\ ~looped => Acyclic /\ \A e \in Editors : NotOwn(edit[e])
PathInv ==
    /\ ~treeMoved /\ ~treeCrossed => PathsFollow
    /\ \A e \in Editors : Computed(edit[e])
TreeInv == TreeTyped /\ ParentsThere /\ SlugsDiffer /\ LoopInv /\ PathInv

LEMMA IdsAre == ASSUME TreeTyped
                PROVE  /\ Existing \subseteq CategoryIds /\ Existing \subseteq Int
                       /\ Top \notin Existing
                       /\ \A i \in Existing : /\ category[i].slug \in Slugs /\ category[i].path \in Paths
                                              /\ category[i].parent \in 0..MaxCategories
BY CategoryAssumption DEF TreeTyped, Existing, CategoryIds, Top, Category

LEMMA PathIsSeq == ASSUME NEW p \in Paths PROVE p \in Seq(Slugs) /\ Len(p) \in 0..MaxDepth
<1>1. PICK n \in 0..MaxDepth : p \in [1..n -> Slugs]
  BY DEF Paths
<1>2. n \in Nat
  BY <1>1, CategoryAssumption
<1> QED BY <1>1, <1>2, SeqDef, LenProperties

LEMMA SeqIsPath == ASSUME NEW p \in Seq(Slugs), Len(p) <= MaxDepth PROVE p \in Paths
<1>1. Len(p) \in 0..MaxDepth /\ p \in [1..Len(p) -> Slugs]
  BY LenProperties, CategoryAssumption
<1> QED BY <1>1 DEF Paths

(* A child is below everything its parent is below. *)
LEMMA SubtreeIs ==
    ASSUME NEW i \in Existing
    PROVE  /\ i \in Subtree(i) /\ Subtree(i) \subseteq Existing
           /\ \A k \in Subtree(i) : Children(k) \subseteq Subtree(i)
BY DEF Subtree, Children

LEMMA BelowIsLeast ==
    ASSUME NEW i, NEW S \in SUBSET Existing, i \in S, \A k \in S : Children(k) \subseteq S
    PROVE  Subtree(i) \subseteq S
BY DEF Subtree

(* Who has something below it has children. *)
LEMMA BelowHasChildren ==
    ASSUME NEW i \in Existing, NEW p \in Subtree(i), p # i
    PROVE  Children(i) # {}
<1>1. SUFFICES ASSUME Children(i) = {} PROVE FALSE
  OBVIOUS
<1>2. Subtree(i) \subseteq {i}
  BY <1>1, BelowIsLeast
<1> QED BY <1>2

(* Without a circle, no parent is below its child. *)
LEMMA ParentIsAbove ==
    ASSUME Acyclic, NEW i \in Existing
    PROVE  category[i].parent \notin Subtree(i)
<1>1. SUFFICES ASSUME category[i].parent \in Subtree(i) PROVE FALSE
  OBVIOUS
<1>2. ASSUME NEW k \in Subtree(i), k # i, category[k].parent \notin Subtree(i) PROVE FALSE
  <2> DEFINE S == Subtree(i) \ {k}
  <2>1. i \in S /\ S \in SUBSET Existing
    BY <1>2, SubtreeIs
  <2>2. \A j \in S : Children(j) \subseteq S
    BY <1>2, SubtreeIs DEF Children
  <2>3. Subtree(i) \subseteq S
    BY <2>1, <2>2, BelowIsLeast
  <2> QED BY <2>3, <1>2
<1>3. Subtree(i) \in SUBSET Existing /\ i \in Subtree(i)
  BY SubtreeIs
<1>4. \A k \in Subtree(i) : category[k].parent \in Subtree(i)
  BY <1>1, <1>2
<1> QED BY <1>3, <1>4 DEF Acyclic

(* A category that is put below another, which is not below it. *)
LEMMA MovedIsAcyclic ==
    ASSUME Acyclic, NEW i \in Existing, NEW p, p \notin Subtree(i),
           Existing' = Existing, category'[i].parent = p,
           \A k \in Existing : k # i => category'[k].parent = category[k].parent
    PROVE  Acyclic'
<1>1. SUFFICES ASSUME NEW S \in SUBSET Existing, \A k \in S : category'[k].parent \in S
               PROVE  S = {}
  BY DEF Acyclic
<1>2. CASE i \notin S
  BY <1>1, <1>2 DEF Acyclic
<1>3. CASE i \in S
  <2> DEFINE U == S \ Subtree(i)
  <2>1. U \in SUBSET Existing /\ p \in U
    BY <1>1, <1>3
  <2>2. ASSUME NEW k \in U PROVE category[k].parent \in U
    <3>1. k # i /\ k \in Existing /\ category[k].parent \in S
      BY <1>1, SubtreeIs
    <3>2. ASSUME category[k].parent \in Subtree(i) PROVE FALSE
      BY <3>1, <3>2, SubtreeIs DEF Children
    <3> QED BY <3>1, <3>2
  <2>3. U = {}
    BY <2>1, <2>2 DEF Acyclic
  <2> QED BY <2>1, <2>3
<1> QED BY <1>2, <1>3

-----------------------------------------------------------------------------
(* What is edited *)

LEMMA NoEditIs == /\ NoSlug \in Slugs /\ << >> \in Paths /\ NoEdit \in Edit
                  /\ NotOwn(NoEdit) /\ Computed(NoEdit)
<1>1. NoSlug \in Slugs
  BY CategoryAssumption DEF NoSlug
<1>2. << >> \in Paths
  <2>1. PICK p : p = << >>
    OBVIOUS
  <2>2. p \in Seq(Slugs) /\ Len(p) = 0
    BY <2>1
  <2>3. Len(p) <= MaxDepth
    BY <2>2, CategoryAssumption
  <2>4. p \in Paths
    BY <2>2, <2>3, SeqIsPath
  <2> QED BY <2>1, <2>4
<1>3. NoEdit \in Edit
  BY <1>1, <1>2, CategoryAssumption DEF NoEdit, Edit, EditStage, Top
<1> QED BY <1>1, <1>2, <1>3 DEF NotOwn, Computed, NoEdit

LEMMA TreeStarts == TreeInit => TreeInv
<1> SUFFICES ASSUME TreeInit PROVE TreeInv
  OBVIOUS
<1>1. TreeTyped
  <2> DEFINE c == [there |-> FALSE, slug |-> NoSlug, parent |-> Top, path |-> << >>, active |-> TRUE]
  <2>1. c \in Category
    BY NoEditIs, CategoryAssumption DEF Category, Top
  <2>2. category = [i \in CategoryIds |-> c]
    BY DEF TreeInit
  <2> HIDE DEF c
  <2>3. category \in [CategoryIds -> Category]
    BY <2>1, <2>2
  <2>4. edit \in [Editors -> Edit]
    BY NoEditIs DEF TreeInit
  <2>5. categories = 0 /\ treeMoved = FALSE /\ treeCrossed = FALSE /\ looped = FALSE
    BY DEF TreeInit
  <2>6. categories \in 0..MaxCategories
    BY ONLY <2>5, CategoryAssumption
  <2>7. treeMoved \in BOOLEAN /\ treeCrossed \in BOOLEAN /\ looped \in BOOLEAN
    BY ONLY <2>5
  <2> QED BY ONLY <2>3, <2>4, <2>6, <2>7 DEF TreeTyped
<1>2. Existing = {}
  BY DEF TreeInit, Existing
<1>3. ParentsThere /\ SlugsDiffer /\ Acyclic /\ PathsFollow
  BY <1>2 DEF ParentsThere, SlugsDiffer, Acyclic, PathsFollow
<1>4. \A e \in Editors : NotOwn(edit[e]) /\ Computed(edit[e])
  BY NoEditIs DEF TreeInit
<1> QED BY <1>1, <1>3, <1>4 DEF TreeInv, LoopInv, PathInv, TreeInit

(* A step that leaves the rows alone and gives one edit another value. *)
LEMMA EditMoves ==
    ASSUME TreeInv, NEW e \in Editors, NEW d \in Edit, edit' = [edit EXCEPT ![e] = d],
           UNCHANGED <<treeRows, treeHistory>>, ~looped => NotOwn(d), Computed(d)
    PROVE  TreeInv'
<1>u. UNCHANGED <<category, categories, treeMoved, treeCrossed, looped>>
  BY DEF treeRows, treeHistory
<1>1. /\ TreeTyped /\ ParentsThere /\ SlugsDiffer /\ LoopInv /\ PathInv
      /\ edit \in [Editors -> Edit]
  BY DEF TreeInv, TreeTyped
<1>2. TreeTyped'
  BY <1>1, <1>u DEF TreeTyped
<1>3. \A x \in Editors : edit'[x] = IF x = e THEN d ELSE edit[x]
  BY <1>1
<1>4. Existing' = Existing /\ (Acyclic => Acyclic')
  BY <1>u DEF Existing, Acyclic
<1>5. ParentsThere' /\ SlugsDiffer'
  BY <1>1, <1>u, <1>4 DEF ParentsThere, SlugsDiffer
<1>6. PathsFollow => PathsFollow'
  BY <1>u, <1>4 DEF PathsFollow, PathBelow
<1>7. LoopInv'
  BY <1>1, <1>3, <1>4, <1>u DEF LoopInv
<1>8. PathInv'
  BY <1>1, <1>3, <1>6, <1>u DEF PathInv
<1> QED BY <1>2, <1>5, <1>7, <1>8 DEF TreeInv

LEMMA FinishIs ==
    ASSUME TreeInv, NEW e \in Editors, Finish(e), UNCHANGED <<treeRows, treeHistory>>
    PROVE  TreeInv'
BY EditMoves, NoEditIs DEF Finish

LEMMA TreeSubmitKeeps ==
    ASSUME TreeInv, NEW e \in Editors, SubmitEdit(e)
    PROVE  TreeInv'
<1>0. Existing \subseteq 0..MaxCategories /\ Top \in 0..MaxCategories
  BY IdsAre, CategoryAssumption DEF TreeInv, CategoryIds, Top
<1>1. CASE SubmitCreate(e)
  <2>1. PICK s \in Slugs, p \in Existing \cup {Top} :
            Submit(e, [NoEdit EXCEPT !.at = "createSlug", !.slug = s, !.parent = p])
    BY <1>1 DEF SubmitCreate
  <2> DEFINE d == [NoEdit EXCEPT !.at = "createSlug", !.slug = s, !.parent = p]
  <2>2. d \in Edit /\ d.at = "createSlug"
    BY NoEditIs, <1>0 DEF Edit, EditStage, NoEdit
  <2>3. NotOwn(d) /\ Computed(d)
    BY <2>2 DEF NotOwn, Computed
  <2> QED BY <2>1, <2>2, <2>3, EditMoves DEF Submit
<1>2. CASE SubmitUpdate(e)
  <2>1. PICK i \in Existing, s \in Slugs, p \in Existing \cup {Top}, ks, kp \in BOOLEAN :
            Submit(e, [NoEdit EXCEPT !.at = "updateFind", !.id = i, !.slug = s, !.keepSlug = ks,
                                     !.parent = p, !.keepParent = kp])
    BY <1>2 DEF SubmitUpdate
  <2> DEFINE d == [NoEdit EXCEPT !.at = "updateFind", !.id = i, !.slug = s, !.keepSlug = ks,
                                 !.parent = p, !.keepParent = kp]
  <2>2. d \in Edit /\ d.at = "updateFind"
    BY NoEditIs, <1>0 DEF Edit, EditStage, NoEdit
  <2>3. NotOwn(d) /\ Computed(d)
    BY <2>2 DEF NotOwn, Computed
  <2> QED BY <2>1, <2>2, <2>3, EditMoves DEF Submit
<1>3. CASE SubmitDelete(e)
  <2>1. PICK i \in Existing : Submit(e, [NoEdit EXCEPT !.at = "deleteFind", !.id = i])
    BY <1>3 DEF SubmitDelete
  <2> DEFINE d == [NoEdit EXCEPT !.at = "deleteFind", !.id = i]
  <2>2. d \in Edit /\ d.at = "deleteFind"
    BY NoEditIs, <1>0 DEF Edit, EditStage, NoEdit
  <2>3. NotOwn(d) /\ Computed(d)
    BY <2>2 DEF NotOwn, Computed
  <2> QED BY <2>1, <2>2, <2>3, EditMoves DEF Submit
<1> QED BY <1>1, <1>2, <1>3 DEF SubmitEdit

(* A path that is read is one, and nothing is above the top. *)
LEMMA PathBelowIs ==
    ASSUME TreeTyped, NEW p
    PROVE  PathBelow(p) \in Seq(Slugs) /\ (p = Top => PathBelow(p) = << >>)
<1>1. CASE p \notin Existing
  BY <1>1 DEF PathBelow
<1>2. CASE p \in Existing
  <2>1. category[p].path \in Seq(Slugs) /\ category[p].slug \in Slugs /\ p # Top
    BY <1>2, IdsAre, PathIsSeq
  <2> QED BY <2>1, <1>2 DEF PathBelow
<1> QED BY <1>1, <1>2

LEMMA PathComputed ==
    ASSUME TreeInv, NEW e \in Editors, NEW stage \in {"createRow", "updateRow"},
           ComputePath(e, stage), stage = "updateRow" => edit[e].at = "updatePath"
    PROVE  TreeInv'
<1>0. TreeTyped /\ edit \in [Editors -> Edit] /\ edit[e] \in Edit /\ edit[e].slug \in Slugs
  BY DEF TreeInv, TreeTyped, Edit
<1>1. PICK above : above = IF edit[e].parent = Top THEN << >> ELSE PathBelow(edit[e].parent)
  OBVIOUS
<1>2. /\ Len(above) < MaxDepth /\ UNCHANGED <<treeRows, treeHistory>>
      /\ edit' = [edit EXCEPT ![e].path = Append(above, edit[e].slug), ![e].parentPath = above,
                              ![e].at = stage]
  BY <1>1 DEF ComputePath
<1>3. PICK path : path = Append(above, edit[e].slug)
  OBVIOUS
<1>4. above \in Seq(Slugs) /\ (edit[e].parent = Top => above = << >>)
  BY <1>0, <1>1, PathBelowIs
<1>5. above \in Paths /\ path \in Paths
  <2>1. Len(above) \in Nat /\ path \in Seq(Slugs) /\ Len(path) = Len(above) + 1
    BY <1>0, <1>3, <1>4, AppendProperties, LenProperties
  <2> QED BY <2>1, <1>2, <1>4, SeqIsPath, CategoryAssumption
<1> DEFINE d == [edit[e] EXCEPT !.path = path, !.parentPath = above, !.at = stage]
<1>6. edit' = [edit EXCEPT ![e] = d]
  BY <1>0, <1>2, <1>3
<1>7. /\ d \in Edit /\ d.at = stage /\ d.path = path /\ d.parentPath = above
      /\ d.slug = edit[e].slug /\ d.parent = edit[e].parent /\ d.id = edit[e].id
  BY <1>0, <1>5 DEF Edit, EditStage
<1>8. Computed(d)
  BY <1>3, <1>4, <1>7 DEF Computed
<1>9. ~looped => NotOwn(d)
  BY <1>7 DEF NotOwn, TreeInv, LoopInv
<1> HIDE DEF d
<1> QED BY <1>2, <1>6, <1>7, <1>8, <1>9, EditMoves

-----------------------------------------------------------------------------
(* What is read *)

LEMMA CreateReads ==
    ASSUME TreeInv, NEW e \in Editors, CreateSlug(e) \/ CreatePath(e)
    PROVE  TreeInv'
<1>0. TreeTyped /\ edit \in [Editors -> Edit] /\ edit[e] \in Edit
  BY DEF TreeInv, TreeTyped
<1>1. CASE CreateSlug(e)
  <2>1. PICK s \in uniqueSlug(edit[e].slug, {}) :
            edit' = [edit EXCEPT ![e].slug = s, ![e].at = "createPath"]
    BY <1>1 DEF CreateSlug
  <2>2. s \in Slugs
    BY <1>0 DEF uniqueSlug, Edit
  <2> DEFINE d == [edit[e] EXCEPT !.slug = s, !.at = "createPath"]
  <2>3. edit' = [edit EXCEPT ![e] = d]
    BY <1>0, <2>1
  <2>4. d \in Edit /\ d.at = "createPath"
    BY <1>0, <2>2 DEF Edit, EditStage
  <2>5. NotOwn(d) /\ Computed(d)
    BY <2>4 DEF NotOwn, Computed
  <2> HIDE DEF d
  <2> QED BY <1>1, <2>3, <2>4, <2>5, EditMoves DEF CreateSlug
<1>2. CASE CreatePath(e)
  BY <1>2, PathComputed DEF CreatePath
<1> QED BY <1>1, <1>2

LEMMA UpdateReads ==
    ASSUME TreeInv, NEW e \in Editors, UpdateFind(e) \/ UpdateSlug(e) \/ UpdatePath(e)
    PROVE  TreeInv'
<1>0. TreeTyped /\ edit \in [Editors -> Edit] /\ edit[e] \in Edit
  BY DEF TreeInv, TreeTyped
<1>1. CASE UpdateFind(e)
  <2>1. PICK i : i = edit[e].id
    OBVIOUS
  <2>2. /\ UNCHANGED <<treeRows, edits, treeHistory>>
        /\ IF i \notin Existing \/ ~(edit[e].keepParent \/ edit[e].parent # i) THEN Finish(e)
           ELSE edit' = [edit EXCEPT ![e].slug = IF edit[e].keepSlug THEN category[i].slug ELSE @,
                                     ![e].parent = IF edit[e].keepParent THEN category[i].parent
                                                   ELSE @,
                                     ![e].at = "updateSlug"]
    BY <1>1, <2>1 DEF UpdateFind, FindRow
  <2>3. CASE i \notin Existing \/ ~(edit[e].keepParent \/ edit[e].parent # i)
    BY <2>2, <2>3, FinishIs
  <2>4. CASE i \in Existing /\ (edit[e].keepParent \/ edit[e].parent # i)
    <3>1. PICK s : s = IF edit[e].keepSlug THEN category[i].slug ELSE edit[e].slug
      OBVIOUS
    <3>2. PICK p : p = IF edit[e].keepParent THEN category[i].parent ELSE edit[e].parent
      OBVIOUS
    <3>3. s \in Slugs /\ p \in 0..MaxCategories
      BY <1>0, <2>4, <3>1, <3>2, IdsAre DEF Edit
    <3> DEFINE d == [edit[e] EXCEPT !.slug = s, !.parent = p, !.at = "updateSlug"]
    <3>4. edit' = [edit EXCEPT ![e] = d]
      BY <1>0, <2>2, <2>4, <3>1, <3>2
    <3>5. d \in Edit /\ d.at = "updateSlug" /\ d.parent = p /\ d.id = i
      BY <1>0, <2>1, <3>3 DEF Edit, EditStage
    <3>6. ~looped => p # i
      <4>1. ~looped => category[i].parent \notin Subtree(i) /\ i \in Subtree(i)
        BY <2>4, ParentIsAbove, SubtreeIs DEF TreeInv, LoopInv
      <4> QED BY <4>1, <2>4, <3>2
    <3>7. (~looped => NotOwn(d)) /\ Computed(d)
      BY <3>5, <3>6 DEF NotOwn, Computed
    <3> HIDE DEF d
    <3> QED BY <2>2, <3>4, <3>5, <3>7, EditMoves
  <2> QED BY <2>3, <2>4
<1>2. CASE UpdateSlug(e)
  <2>1. PICK s \in uniqueSlug(edit[e].slug, {edit[e].id}) :
            edit' = [edit EXCEPT ![e].slug = IF edit[e].keepSlug THEN @ ELSE s, ![e].at = "updatePath"]
    BY <1>2 DEF UpdateSlug
  <2>2. PICK w : w = IF edit[e].keepSlug THEN edit[e].slug ELSE s
    OBVIOUS
  <2>3. w \in Slugs
    BY <1>0, <2>2 DEF uniqueSlug, Edit
  <2> DEFINE d == [edit[e] EXCEPT !.slug = w, !.at = "updatePath"]
  <2>4. edit' = [edit EXCEPT ![e] = d]
    BY <1>0, <2>1, <2>2
  <2>5. /\ d \in Edit /\ d.at = "updatePath" /\ d.parent = edit[e].parent /\ d.id = edit[e].id
        /\ edit[e].at = "updateSlug"
    BY <1>0, <1>2, <2>3 DEF Edit, EditStage, UpdateSlug, In
  <2>6. Computed(d)
    BY <2>5 DEF Computed
  <2>7. ~looped => NotOwn(d)
    BY <2>5 DEF NotOwn, TreeInv, LoopInv
  <2> HIDE DEF d
  <2> QED BY <1>2, <2>4, <2>5, <2>6, <2>7, EditMoves DEF UpdateSlug
<1>3. CASE UpdatePath(e)
  BY <1>3, PathComputed DEF UpdatePath, In
<1> QED BY <1>1, <1>2, <1>3

LEMMA DeleteReads ==
    ASSUME TreeInv, NEW e \in Editors, DeleteFind(e)
    PROVE  TreeInv'
<1>0. edit \in [Editors -> Edit] /\ edit[e] \in Edit
  BY DEF TreeInv, TreeTyped
<1>1. CASE Finish(e)
  BY <1>1, FinishIs DEF DeleteFind
<1>2. CASE Next2(e, "deleteRow")
  <2> DEFINE d == [edit[e] EXCEPT !.at = "deleteRow"]
  <2>1. edit' = [edit EXCEPT ![e] = d]
    BY <1>0, <1>2 DEF Next2
  <2>2. d \in Edit /\ d.at = "deleteRow"
    BY <1>0 DEF Edit, EditStage
  <2>3. NotOwn(d) /\ Computed(d)
    BY <2>2 DEF NotOwn, Computed
  <2> HIDE DEF d
  <2> QED BY <2>1, <2>2, <2>3, EditMoves DEF DeleteFind
<1> QED BY <1>1, <1>2 DEF DeleteFind

-----------------------------------------------------------------------------
(* What is written *)

LEMMA EditEnds ==
    ASSUME TreeInv, NEW e \in Editors, Finish(e), looped => looped'
    PROVE  /\ edit' \in [Editors -> Edit]
           /\ ~looped' => \A x \in Editors : NotOwn(edit'[x])
           /\ \A x \in Editors : Computed(edit'[x])
<1>1. edit \in [Editors -> Edit] /\ looped \in BOOLEAN
  BY DEF TreeInv, TreeTyped
<1>2. \A x \in Editors : edit'[x] = IF x = e THEN NoEdit ELSE edit[x]
  BY <1>1 DEF Finish
<1>3. edit' \in [Editors -> Edit]
  BY <1>1, NoEditIs DEF Finish
<1>4. ~looped' => \A x \in Editors : NotOwn(edit'[x])
  BY <1>2, NoEditIs DEF TreeInv, LoopInv
<1>5. \A x \in Editors : Computed(edit'[x])
  BY <1>2, NoEditIs DEF TreeInv, PathInv
<1> QED BY <1>3, <1>4, <1>5

LEMMA BelowStays ==
    ASSUME NEW p, p \in Existing' <=> p \in Existing,
           p \in Existing => category'[p].path = category[p].path /\ category'[p].slug = category[p].slug
    PROVE  PathBelow(p)' = PathBelow(p)
BY DEF PathBelow

LEMMA CreateRowKeeps ==
    ASSUME TreeInv, NEW e \in Editors, CreateRow(e)
    PROVE  TreeInv'
<1>0. /\ TreeTyped /\ ParentsThere /\ SlugsDiffer /\ LoopInv /\ PathInv
      /\ edit[e] \in Edit
  BY DEF TreeInv, TreeTyped
<1>1. CASE ~Accepted(e, {})
  <2>1. Finish(e) /\ UNCHANGED <<treeRows, treeHistory>>
    BY <1>1 DEF CreateRow, treeRows, treeHistory
  <2> QED BY <2>1, FinishIs
<1>2. CASE Accepted(e, {})
  <2> DEFINE n == categories + 1
             new == [there |-> TRUE, slug |-> edit[e].slug, parent |-> edit[e].parent,
                     path |-> edit[e].path, active |-> TRUE]
  <2>1. /\ categories < MaxCategories /\ categories' = n /\ category' = [category EXCEPT ![n] = new]
        /\ treeCrossed' = (treeCrossed \/ ParentChanged(e)) /\ Finish(e)
        /\ UNCHANGED <<treeMoved, looped>>
        /\ edit[e].at = "createRow"
    BY <1>2 DEF CreateRow, In
  <2>2. n \in CategoryIds /\ n \notin Existing /\ n # Top /\ n \in Nat
    BY <2>1, <1>0, CategoryAssumption DEF TreeTyped, CategoryIds, Existing, Top
  <2>3. /\ new \in Category /\ new.there /\ new.slug = edit[e].slug /\ new.parent = edit[e].parent
        /\ new.path = edit[e].path
    BY <1>0 DEF Edit, Category
  <2>4. category' \in [CategoryIds -> Category] /\ \A k \in CategoryIds : category'[k] = IF k = n THEN new ELSE category[k]
    <3> HIDE DEF new, n
    <3> QED BY <2>1, <2>2, <2>3, <1>0 DEF TreeTyped
  <2>5. Existing' = Existing \cup {n}
    <3>1. \A k : k \in 1..(categories + 1) <=> k = n \/ k \in 1..categories
      BY <1>0, CategoryAssumption DEF TreeTyped
    <3>2. Existing' = {i \in 1..(categories + 1) : category'[i].there}
      BY <2>1 DEF Existing
    <3>3. 1..(categories + 1) \subseteq CategoryIds
      BY <2>1, <1>0, CategoryAssumption DEF TreeTyped, CategoryIds
    <3> HIDE DEF new, n
    <3> QED BY <3>1, <3>2, <3>3, <2>3, <2>4 DEF Existing
  <2>6. \A k \in Existing : k # n /\ category'[k] = category[k] /\ category[k].parent \in Existing \cup {Top}
    <3> HIDE DEF new, n
    <3> QED BY <2>2, <2>4, <1>0, IdsAre DEF ParentsThere
  <2>7. category'[n] = new /\ new.parent \in Existing \cup {Top} /\ Named(new.slug) = {}
    <3> HIDE DEF new
    <3> QED BY <2>2, <2>3, <2>4, <1>2 DEF Accepted
  <2> HIDE DEF new, n
  <2>8. TreeTyped'
    <3>1. categories' \in 0..MaxCategories
      BY <2>1, <2>2 DEF CategoryIds, n
    <3>2. ParentChanged(e) \in BOOLEAN
      BY DEF ParentChanged
    <3> QED BY <3>1, <3>2, <2>1, <2>4, <1>0, EditEnds DEF TreeTyped
  <2>9. ParentsThere' /\ SlugsDiffer'
    <3>1. ParentsThere'
      BY <2>5, <2>6, <2>7 DEF ParentsThere
    <3>2. SlugsDiffer'
      BY <2>5, <2>6, <2>7, <1>0 DEF SlugsDiffer, Named
    <3> QED BY <3>1, <3>2
  <2>10. Acyclic => Acyclic'
    <3>1. SUFFICES ASSUME Acyclic, NEW S \in SUBSET (Existing \cup {n}), \A i \in S : category'[i].parent \in S
                   PROVE  S = {}
      BY <2>5 DEF Acyclic
    <3>2. S \ {n} \in SUBSET Existing
      BY <3>1
    <3>3. \A k \in S \ {n} : category[k].parent \in S \ {n}
      BY <3>1, <2>2, <2>6
    <3>4. S \ {n} = {}
      BY <3>1, <3>2, <3>3 DEF Acyclic
    <3> QED BY <3>1, <3>4, <2>2, <2>7
  <2>11. LoopInv'
    BY <2>1, <2>10, <1>0, EditEnds DEF LoopInv
  <2>12. \A p \in Existing \cup {Top} : PathBelow(p)' = PathBelow(p)
    BY <2>2, <2>5, <2>6, BelowStays
  <2>13. PathsFollow /\ ~treeCrossed' => PathsFollow'
    <3>1. SUFFICES ASSUME PathsFollow, ~treeCrossed', NEW k \in Existing \cup {n}
                   PROVE  category'[k].path = Append((PathBelow(category[k].parent))', category'[k].slug)
      BY <2>5 DEF PathsFollow
    <3>2. CASE k \in Existing
      BY <3>1, <3>2, <2>6, <2>12 DEF PathsFollow
    <3>3. CASE k = n
      <4>1. edit[e].path = Append(edit[e].parentPath, edit[e].slug)
            /\ (edit[e].parent = Top => edit[e].parentPath = << >>)
        BY <1>0, <2>1 DEF PathInv, Computed
      <4>2. PathBelow(edit[e].parent) = edit[e].parentPath
        BY <4>1, <3>1, <2>1, <1>0, PathBelowIs DEF ParentChanged
      <4> QED BY <3>3, <4>1, <4>2, <2>3, <2>7, <2>12
    <3> QED BY <3>1, <3>2, <3>3
  <2>14. PathInv'
    <3>1. treeCrossed => treeCrossed'
      BY <2>1
    <3> QED BY <3>1, <2>1, <2>13, <1>0, EditEnds DEF PathInv
  <2> QED BY <2>8, <2>9, <2>11, <2>14 DEF TreeInv
<1> QED BY <1>1, <1>2

(* An edit writes its row: what it wrote, and who is below it.               *)
LEMMA RowIsWritten ==
    ASSUME TreeInv, NEW e \in Editors, UpdateRow(e), NEW i, i = edit[e].id,
           i \in Existing, Accepted(e, {i})
    PROVE  /\ category' \in [CategoryIds -> Category] /\ Existing' = Existing
           /\ \A k \in Existing \ {i} : category'[k] = category[k]
           /\ category'[i].slug = edit[e].slug /\ category'[i].path = edit[e].path
           /\ category'[i].parent = edit[e].parent
<1>0. category \in [CategoryIds -> Category] /\ edit[e] \in Edit /\ i \in CategoryIds
  BY IdsAre DEF TreeInv, TreeTyped
<1> DEFINE new == [category[i] EXCEPT !.slug = edit[e].slug, !.parent = edit[e].parent,
                                      !.path = edit[e].path]
<1>1. /\ new \in Category /\ new.slug = edit[e].slug /\ new.path = edit[e].path
      /\ new.parent = edit[e].parent /\ new.there = category[i].there
  BY <1>0 DEF Category, Edit
<1>2. /\ category' = [category EXCEPT ![i].slug = edit[e].slug, ![i].parent = edit[e].parent,
                                      ![i].path = edit[e].path]
      /\ categories' = categories
  BY DEF UpdateRow, WriteRow
<1>3. category' = [category EXCEPT ![i] = new]
  BY <1>0, <1>2
<1> HIDE DEF new
<1>4. \A k \in CategoryIds : category'[k] = IF k = i THEN new ELSE category[k]
  BY <1>0, <1>3
<1>5. \A k \in CategoryIds : category'[k].there = category[k].there
  BY <1>1, <1>4
<1>6. 1..categories \subseteq CategoryIds
  BY CategoryAssumption DEF TreeInv, TreeTyped, CategoryIds
<1>7. Existing' = Existing
  BY <1>2, <1>5, <1>6 DEF Existing
<1> QED BY <1>0, <1>1, <1>3, <1>4, <1>7, IdsAre DEF TreeInv

LEMMA UpdateRowKeeps ==
    ASSUME TreeInv, NEW e \in Editors, UpdateRow(e)
    PROVE  TreeInv'
<1>0. /\ TreeTyped /\ ParentsThere /\ SlugsDiffer /\ LoopInv /\ PathInv
      /\ edit[e] \in Edit
  BY DEF TreeInv, TreeTyped
<1>a. PICK i : i = edit[e].id
  OBVIOUS
<1>1. CASE ~(i \in Existing /\ Accepted(e, {i}))
  <2>1. Finish(e) /\ UNCHANGED <<treeRows, treeHistory>>
    BY <1>1, <1>a DEF UpdateRow, WriteRow, treeRows, treeHistory
  <2> QED BY <2>1, FinishIs
<1>2. CASE i \in Existing /\ Accepted(e, {i})
  <2>a. PICK p : p = edit[e].parent
    OBVIOUS
  <2>1. /\ treeMoved' = (treeMoved \/ (/\ Children(i) # {}
                                       /\ edit[e].path # category[i].path \/ p # category[i].parent))
        /\ treeCrossed' = (treeCrossed \/ ParentChanged(e))
        /\ looped' = (looped \/ ClosesLoop(i, p))
        /\ Finish(e) /\ UNCHANGED categories /\ edit[e].at = "updateRow"
    BY <1>a, <1>2, <2>a DEF UpdateRow, WriteRow, In
  <2>2. /\ category' \in [CategoryIds -> Category] /\ Existing' = Existing
        /\ \A k \in Existing \ {i} : category'[k] = category[k]
        /\ category'[i].slug = edit[e].slug /\ category'[i].path = edit[e].path
        /\ category'[i].parent = p
    BY <1>a, <1>2, <2>a, RowIsWritten
  <2>3. p \in Existing \cup {Top} /\ Named(edit[e].slug) \subseteq {i}
    BY <1>2, <2>a DEF Accepted
  <2>4. TreeTyped'
    <3>1. ParentChanged(e) \in BOOLEAN /\ ClosesLoop(i, p) \in BOOLEAN
      BY DEF ParentChanged, ClosesLoop
    <3> QED BY <3>1, <2>1, <2>2, <1>0, EditEnds DEF TreeTyped
  <2>5. ParentsThere' /\ SlugsDiffer'
    <3>1. ParentsThere'
      BY <2>2, <2>3, <1>0 DEF ParentsThere
    <3>2. SlugsDiffer'
      BY <2>2, <2>3, <1>0 DEF SlugsDiffer, Named
    <3> QED BY <3>1, <3>2
  <2>6. ~looped => p # i
    BY <2>1, <2>a, <1>a, <1>0 DEF LoopInv, NotOwn
  <2>7. ~looped' => Acyclic'
    <3>1. SUFFICES ASSUME ~looped' PROVE Acyclic'
      OBVIOUS
    <3>2. ~looped /\ p # i /\ p \notin Subtree(i) /\ Acyclic
      BY <3>1, <2>1, <2>6, <1>0 DEF LoopInv, ClosesLoop
    <3> QED BY <3>2, <2>2, <1>2, MovedIsAcyclic
  <2>8. looped' => treeMoved'
    <3>1. CASE looped
      BY <3>1, <2>1, <1>0 DEF LoopInv
    <3>2. CASE ~looped /\ ClosesLoop(i, p)
      <4>1. Acyclic /\ p # i /\ p \in Subtree(i)
        BY <3>2, <1>0 DEF LoopInv, ClosesLoop
      <4>2. Children(i) # {}
        BY <4>1, <1>2, BelowHasChildren
      <4>3. p # category[i].parent
        BY <4>1, <1>2, ParentIsAbove
      <4> QED BY <4>2, <4>3, <2>1
    <3> QED BY <3>1, <3>2, <2>1
  <2>9. LoopInv'
    <3>1. looped => looped'
      BY <2>1
    <3> QED BY <3>1, <2>1, <2>7, <2>8, EditEnds DEF LoopInv
  <2>10. ~treeMoved' /\ ~treeCrossed' => PathsFollow'
    <3>1. SUFFICES ASSUME ~treeMoved', ~treeCrossed', NEW k \in Existing
                   PROVE  category'[k].path = Append((PathBelow(category[k].parent))', category'[k].slug)
      BY <2>2 DEF PathsFollow
    <3>2. /\ ~treeMoved /\ ~treeCrossed /\ PathsFollow /\ ~looped /\ ~ParentChanged(e)
          /\ Children(i) # {} => edit[e].path = category[i].path /\ p = category[i].parent
      BY <3>1, <2>1, <1>0 DEF PathInv, LoopInv
    <3>3. \A x : x # i => PathBelow(x)' = PathBelow(x)
      <4> SUFFICES ASSUME NEW x, x # i PROVE PathBelow(x)' = PathBelow(x)
        OBVIOUS
      <4> QED BY <2>2, BelowStays
    <3>4. CASE k = i
      <4>1. edit[e].path = Append(edit[e].parentPath, edit[e].slug) /\ (p = Top => edit[e].parentPath = << >>)
        BY <1>0, <2>1, <2>a DEF PathInv, Computed
      <4>2. PathBelow(p) = edit[e].parentPath
        BY <4>1, <3>2, <2>a, <1>0, PathBelowIs DEF ParentChanged
      <4> QED BY <3>2, <3>3, <3>4, <4>1, <4>2, <2>2, <2>6
    <3>5. CASE k # i /\ category[k].parent # i
      BY <3>2, <3>3, <3>5, <2>2 DEF PathsFollow
    <3>6. CASE k # i /\ category[k].parent = i
      <4>1. Children(i) # {} /\ edit[e].path = category[i].path
        BY <3>2, <3>6 DEF Children
      <4>2. category[i].path # << >>
        <5>1. category[i].path = Append(PathBelow(category[i].parent), category[i].slug)
          BY <3>2, <1>2 DEF PathsFollow
        <5>2. PathBelow(category[i].parent) \in Seq(Slugs) /\ category[i].slug \in Slugs
          BY <1>0, <1>2, IdsAre, PathBelowIs
        <5> QED BY <5>1, <5>2, AppendProperties
      <4>3. PathBelow(i) = category[i].path /\ PathBelow(i)' = category[i].path
        BY <4>1, <4>2, <1>2, <2>2 DEF PathBelow
      <4> QED BY <3>2, <3>6, <4>3, <2>2 DEF PathsFollow
    <3> QED BY <3>4, <3>5, <3>6
  <2>11. PathInv'
    <3>1. looped => looped'
      BY <2>1
    <3> QED BY <3>1, <2>1, <2>10, EditEnds DEF PathInv
  <2> QED BY <2>4, <2>5, <2>9, <2>11 DEF TreeInv
<1> QED BY <1>1, <1>2

(* A category goes, and what became its child meanwhile is at the top.       *)
LEMMA DeleteRowKeeps ==
    ASSUME TreeInv, NEW e \in Editors, DeleteRow(e)
    PROVE  TreeInv'
<1>0. /\ TreeTyped /\ ParentsThere /\ SlugsDiffer /\ LoopInv /\ PathInv
      /\ edit[e] \in Edit /\ category \in [CategoryIds -> Category]
  BY DEF TreeInv, TreeTyped
<1>a. PICK i : i = edit[e].id
  OBVIOUS
<1>1. CASE i \notin Existing
  <2>1. Finish(e) /\ UNCHANGED <<treeRows, treeHistory>>
    BY <1>1, <1>a DEF DeleteRow, treeRows, treeHistory
  <2> QED BY <2>1, FinishIs
<1>2. CASE i \in Existing
  <2>1. /\ category' = [j \in CategoryIds |->
                 IF j = i THEN [category[j] EXCEPT !.there = FALSE]
                 ELSE IF j \in Children(i) THEN [category[j] EXCEPT !.parent = Top]
                 ELSE category[j]]
        /\ treeCrossed' = (treeCrossed \/ Children(i) # {})
        /\ Finish(e) /\ UNCHANGED <<categories, treeMoved, looped>>
    BY <1>a, <1>2 DEF DeleteRow
  <2>2. \A j \in CategoryIds :
            /\ category[j] \in Category
            /\ category'[j] = IF j = i THEN [category[j] EXCEPT !.there = FALSE]
                              ELSE IF j \in Children(i) THEN [category[j] EXCEPT !.parent = Top]
                              ELSE category[j]
    BY <2>1, <1>0
  <2>3. \A c \in Category : /\ [c EXCEPT !.there = FALSE] \in Category
                            /\ ~[c EXCEPT !.there = FALSE].there
    BY DEF Category
  <2>4. \A c \in Category : LET d == [c EXCEPT !.parent = Top] IN
            /\ d \in Category /\ d.there = c.there /\ d.slug = c.slug /\ d.path = c.path
            /\ d.parent = Top
    BY CategoryAssumption DEF Category, Top
  <2>5. category' \in [CategoryIds -> Category]
    <3>1. ASSUME NEW j \in CategoryIds PROVE category'[j] \in Category
      <4>1. CASE j = i
        BY <4>1, <2>2, <2>3
      <4>2. CASE j # i /\ j \in Children(i)
        <5>1. PICK c \in Category : c = category[j]
          BY <2>2
        <5>2. category'[j] = [c EXCEPT !.parent = Top]
          BY <4>2, <5>1, <2>2
        <5> QED BY <5>2, <2>4
      <4>3. CASE j # i /\ j \notin Children(i)
        BY <4>3, <2>2
      <4> QED BY <4>1, <4>2, <4>3
    <3>2. category' = [j \in CategoryIds |-> category'[j]]
      BY <2>1
    <3> QED BY <3>1, <3>2
  <2>6. Existing' = Existing \ {i}
    <3>1. 1..categories \subseteq CategoryIds
      BY <1>0, CategoryAssumption DEF TreeTyped, CategoryIds
    <3>2. ASSUME NEW j \in CategoryIds PROVE category'[j].there <=> j # i /\ category[j].there
      <4>1. CASE j = i
        BY <4>1, <2>2, <2>3
      <4>2. CASE j # i /\ j \in Children(i)
        <5>1. PICK c \in Category : c = category[j]
          BY <2>2
        <5>2. category'[j] = [c EXCEPT !.parent = Top]
          BY <4>2, <5>1, <2>2
        <5> QED BY <4>2, <5>1, <5>2, <2>4
      <4>3. CASE j # i /\ j \notin Children(i)
        BY <4>3, <2>2
      <4> QED BY <4>1, <4>2, <4>3
    <3> QED BY <3>1, <3>2, <2>1 DEF Existing
  <2>7. \A k \in Existing \ {i} :
            /\ category'[k].slug = category[k].slug /\ category'[k].path = category[k].path
            /\ category'[k].parent = IF category[k].parent = i THEN Top ELSE category[k].parent
    <3>1. \A k \in Existing : k \in CategoryIds /\ (k \in Children(i) <=> category[k].parent = i)
      BY <1>0, IdsAre DEF Children
    <3>2. SUFFICES ASSUME NEW k \in Existing \ {i}
                   PROVE  /\ category'[k].slug = category[k].slug
                          /\ category'[k].path = category[k].path
                          /\ category'[k].parent = IF category[k].parent = i THEN Top
                                                   ELSE category[k].parent
      OBVIOUS
    <3>3. PICK c \in Category : c = category[k]
      BY <3>1, <2>2
    <3>4. k # i /\ k \in CategoryIds /\ (k \in Children(i) <=> c.parent = i)
      BY <3>1, <3>3
    <3>5. category'[k] = IF c.parent = i THEN [c EXCEPT !.parent = Top] ELSE c
      BY <3>3, <3>4, <2>2
    <3> QED BY <3>3, <3>5, <2>4
  <2>8. TreeTyped'
    BY <2>1, <2>5, <1>0, EditEnds DEF TreeTyped
  <2>9. ParentsThere' /\ SlugsDiffer'
    <3>1. ParentsThere'
      BY <2>6, <2>7, <1>0 DEF ParentsThere
    <3>2. SlugsDiffer'
      BY <2>6, <2>7, <1>0 DEF SlugsDiffer
    <3> QED BY <3>1, <3>2
  <2>10. Acyclic => Acyclic'
    <3>1. SUFFICES ASSUME Acyclic, NEW S \in SUBSET (Existing \ {i}), \A k \in S : category'[k].parent \in S
                   PROVE  S = {}
      BY <2>6 DEF Acyclic
    <3>2. \A k \in S : category[k].parent \in S
      BY <3>1, <2>7, <1>0, IdsAre
    <3> QED BY <3>1, <3>2 DEF Acyclic
  <2>11. LoopInv'
    BY <2>1, <2>10, <1>0, EditEnds DEF LoopInv
  <2>12. ~treeMoved' /\ ~treeCrossed' => PathsFollow'
    <3>1. SUFFICES ASSUME ~treeMoved', ~treeCrossed', NEW k \in Existing \ {i}
                   PROVE  category'[k].path = Append((PathBelow(category[k].parent))', category'[k].slug)
      BY <2>6 DEF PathsFollow
    <3>2. PathsFollow /\ category[k].parent # i
      BY <3>1, <2>1, <1>0 DEF PathInv, Children
    <3>3. \A x : x # i => PathBelow(x)' = PathBelow(x)
      <4> SUFFICES ASSUME NEW x, x # i PROVE PathBelow(x)' = PathBelow(x)
        OBVIOUS
      <4> QED BY <2>6, <2>7, BelowStays
    <3> QED BY <3>2, <3>3, <2>7 DEF PathsFollow
  <2>13. PathInv'
    BY <2>1, <2>12, <1>0, EditEnds DEF PathInv
  <2> QED BY <2>8, <2>9, <2>11, <2>13 DEF TreeInv
<1> QED BY <1>1, <1>2

(* A reorder moves a category and leaves the edits alone.                    *)
LEMMA ReorderKeeps ==
    ASSUME TreeInv, NEW i, NEW p, Reorder(i, p)
    PROVE  TreeInv'
<1>0. /\ TreeTyped /\ ParentsThere /\ SlugsDiffer /\ LoopInv /\ PathInv
      /\ category \in [CategoryIds -> Category]
  BY DEF TreeInv, TreeTyped
<1>1. /\ i \in Existing /\ p \in Existing \cup {Top} /\ category' = [category EXCEPT ![i].parent = p]
      /\ treeMoved' = TRUE /\ looped' = (looped \/ p \in Subtree(i))
      /\ UNCHANGED <<categories, edit, treeCrossed>>
  BY DEF Reorder
<1> DEFINE new == [category[i] EXCEPT !.parent = p]
<1>2. i \in CategoryIds /\ p \in 0..MaxCategories
  BY <1>0, <1>1, IdsAre, CategoryAssumption DEF CategoryIds, Top
<1>3. /\ new \in Category /\ new.there = category[i].there /\ new.slug = category[i].slug
      /\ new.parent = p
  BY <1>0, <1>2 DEF Category
<1>4. category' = [category EXCEPT ![i] = new]
  BY <1>0, <1>1, <1>2
<1> HIDE DEF new
<1>5. category' \in [CategoryIds -> Category] /\ \A k \in CategoryIds : category'[k] = IF k = i THEN new ELSE category[k]
  BY <1>0, <1>3, <1>4
<1>6. Existing' = Existing
  <2>1. 1..categories \subseteq CategoryIds
    BY <1>0, CategoryAssumption DEF TreeTyped, CategoryIds
  <2> QED BY <2>1, <1>1, <1>3, <1>5 DEF Existing
<1>7. TreeTyped'
  BY <1>0, <1>1, <1>5 DEF TreeTyped
<1>8. \A k \in Existing : /\ category'[k].slug = category[k].slug
                          /\ category'[k].parent = IF k = i THEN p ELSE category[k].parent
  BY <1>0, <1>3, <1>5, IdsAre
<1>9. ParentsThere' /\ SlugsDiffer'
  BY <1>0, <1>1, <1>6, <1>8 DEF ParentsThere, SlugsDiffer
<1>10. ~looped' => Acyclic'
  BY <1>0, <1>1, <1>6, <1>8, MovedIsAcyclic DEF LoopInv
<1>11. LoopInv'
  BY <1>0, <1>1, <1>10 DEF LoopInv
<1>12. PathInv'
  BY <1>0, <1>1 DEF PathInv
<1> QED BY <1>7, <1>9, <1>11, <1>12 DEF TreeInv

LEMMA ToggleKeeps ==
    ASSUME TreeInv, NEW i, ToggleActive(i)
    PROVE  TreeInv'
<1>0. /\ TreeTyped /\ ParentsThere /\ SlugsDiffer /\ LoopInv /\ PathInv
      /\ category \in [CategoryIds -> Category]
  BY DEF TreeInv, TreeTyped
<1>1. /\ i \in Existing /\ category' = [category EXCEPT ![i].active = ~@]
      /\ UNCHANGED <<categories, edit, treeMoved, treeCrossed, looped>>
  BY DEF ToggleActive, treeHistory
<1>2. i \in CategoryIds
  BY <1>0, <1>1, IdsAre
<1> DEFINE new == [category[i] EXCEPT !.active = ~@]
<1>3. /\ new \in Category /\ new.there = category[i].there /\ new.slug = category[i].slug
      /\ new.parent = category[i].parent /\ new.path = category[i].path
  BY <1>0, <1>2 DEF Category
<1>4. category' = [category EXCEPT ![i] = new]
  BY <1>0, <1>1, <1>2
<1> HIDE DEF new
<1>5. category' \in [CategoryIds -> Category] /\ \A k \in CategoryIds : category'[k] = IF k = i THEN new ELSE category[k]
  BY <1>0, <1>3, <1>4
<1>6. \A k \in CategoryIds : /\ category'[k].there = category[k].there
                             /\ category'[k].slug = category[k].slug
                             /\ category'[k].parent = category[k].parent
                             /\ category'[k].path = category[k].path
  BY <1>3, <1>5
<1>7. Existing' = Existing /\ Existing \subseteq CategoryIds
  <2>1. 1..categories \subseteq CategoryIds
    BY <1>0, CategoryAssumption DEF TreeTyped, CategoryIds
  <2> QED BY <2>1, <1>1, <1>6 DEF Existing
<1>8. TreeTyped'
  BY <1>0, <1>1, <1>5 DEF TreeTyped
<1>9. ParentsThere' /\ SlugsDiffer' /\ (Acyclic => Acyclic')
  BY <1>0, <1>6, <1>7 DEF ParentsThere, SlugsDiffer, Acyclic
<1>10. LoopInv'
  BY <1>0, <1>1, <1>9 DEF LoopInv
<1>11. PathsFollow => PathsFollow'
  <2>1. \A x : PathBelow(x)' = PathBelow(x)
    <3> SUFFICES ASSUME NEW x PROVE PathBelow(x)' = PathBelow(x)
      OBVIOUS
    <3> QED BY <1>6, <1>7, BelowStays
  <2> QED BY <2>1, <1>6, <1>7 DEF PathsFollow
<1>12. PathInv'
  BY <1>0, <1>1, <1>11 DEF PathInv
<1> QED BY <1>8, <1>9, <1>10, <1>12 DEF TreeInv

LEMMA TreeSteps == TreeInv /\ [TreeNext]_treeVars => TreeInv'
<1> SUFFICES ASSUME TreeInv, [TreeNext]_treeVars PROVE TreeInv'
  OBVIOUS
<1>1. CASE UNCHANGED treeVars
  BY <1>1 DEF treeVars, TreeInv, TreeTyped, ParentsThere, SlugsDiffer, LoopInv, PathInv, Acyclic,
              PathsFollow, PathBelow, Existing
<1>2. ASSUME NEW e \in Editors, SubmitEdit(e) \/ RunCreate(e) \/ RunUpdate(e) \/ RunDelete(e)
      PROVE  TreeInv'
  BY <1>2, TreeSubmitKeeps, CreateReads, CreateRowKeeps, UpdateReads, UpdateRowKeeps, DeleteReads, DeleteRowKeeps
     DEF RunCreate, RunUpdate, RunDelete
<1>3. ASSUME NEW i, NEW p, Reorder(i, p) \/ ToggleActive(i) PROVE TreeInv'
  BY <1>3, ReorderKeeps, ToggleKeeps
<1> QED BY <1>1, <1>2, <1>3 DEF TreeNext

(* A path that begins with another, symbol by symbol.                        *)
LEMMA PrefixIs ==
    ASSUME NEW p \in Seq(Slugs), NEW q \in Seq(Slugs)
    PROVE  IsPrefixPath(p, q) <=> Len(p) <= Len(q) /\ \A n \in 1..Len(p) : q[n] = p[n]
<1>1. CASE Len(p) <= Len(q)
  <2>1. Len(p) \in Nat /\ Len(q) \in Nat
    BY LenProperties
  <2>2. /\ SubSeq(q, 1, Len(p)) \in Seq(Slugs) /\ Len(SubSeq(q, 1, Len(p))) = Len(p)
        /\ \A n \in 1..Len(p) : SubSeq(q, 1, Len(p))[n] = q[n]
    BY <1>1, <2>1
  <2>3. SubSeq(q, 1, Len(p)) = p <=> \A n \in 1..Len(p) : q[n] = p[n]
    BY <2>2, SeqEqual
  <2> QED BY <1>1, <2>3 DEF IsPrefixPath
<1>2. CASE ~(Len(p) <= Len(q))
  BY <1>2 DEF IsPrefixPath
<1> QED BY <1>1, <1>2

(* Without moves and crossings, a path begins with another just when its    *)
(* category is the other or its parent's path begins with it.               *)
LEMMA PathStep ==
    ASSUME TreeInv, PathsFollow, NEW i \in Existing, NEW k \in Existing
    PROVE  /\ IsPrefixPath(category[i].path, category[i].path)
           /\ category[k].parent \in Existing
                /\ IsPrefixPath(category[i].path, category[category[k].parent].path)
              => IsPrefixPath(category[i].path, category[k].path)
           /\ k # i /\ IsPrefixPath(category[i].path, category[k].path)
              => /\ category[k].parent \in Existing
                 /\ IsPrefixPath(category[i].path, category[category[k].parent].path)
<1>0. TreeTyped /\ ParentsThere /\ SlugsDiffer
  BY DEF TreeInv
<1> DEFINE Above(x) == PathBelow(category[x].parent)
<1>1. \A x \in Existing : /\ category[x].slug \in Slugs /\ category[x].path \in Seq(Slugs)
                          /\ Above(x) \in Seq(Slugs)
                          /\ category[x].path = Append(Above(x), category[x].slug)
                          /\ category[x].parent \in Existing \cup {Top} /\ Top \notin Existing
  BY <1>0, IdsAre, PathIsSeq, PathBelowIs DEF PathsFollow, ParentsThere
<1>2. \A x \in Existing : /\ Len(category[x].path) = Len(Above(x)) + 1
                          /\ category[x].path[Len(category[x].path)] = category[x].slug
                          /\ \A n \in 1..Len(Above(x)) : category[x].path[n] = Above(x)[n]
                          /\ category[x].path # << >> /\ Len(Above(x)) \in Nat
  BY <1>1, AppendProperties, LenProperties
<1>3. \A x \in Existing : IF category[x].parent \in Existing
                          THEN Above(x) = category[category[x].parent].path
                          ELSE Above(x) = << >>
  <2>1. ASSUME NEW x \in Existing, category[x].parent \in Existing
        PROVE  Above(x) = category[category[x].parent].path
    BY <2>1, <1>2 DEF PathBelow
  <2>2. ASSUME NEW x \in Existing, category[x].parent \notin Existing
        PROVE  Above(x) = << >>
    BY <2>2 DEF PathBelow
  <2> QED BY <2>1, <2>2
<1>4. PICK p : p = category[i].path
  OBVIOUS
<1>5. PICK q : q = category[k].path
  OBVIOUS
<1>6. PICK a : a = Above(k)
  OBVIOUS
<1>7. /\ p \in Seq(Slugs) /\ q \in Seq(Slugs) /\ a \in Seq(Slugs)
      /\ Len(p) \in Nat /\ Len(p) >= 1 /\ Len(a) \in Nat /\ Len(q) = Len(a) + 1
      /\ \A n \in 1..Len(a) : q[n] = a[n]
      /\ p[Len(p)] = category[i].slug /\ q[Len(q)] = category[k].slug
      /\ category[k].parent \in Existing => a = category[category[k].parent].path
      /\ category[k].parent \notin Existing => a = << >>
  <2>1. p \in Seq(Slugs) /\ q \in Seq(Slugs) /\ a \in Seq(Slugs)
    BY <1>1, <1>4, <1>5, <1>6
  <2>2. Len(p) = Len(Above(i)) + 1 /\ Len(Above(i)) \in Nat
    BY <1>2, <1>4
  <2>3. /\ Len(a) \in Nat /\ Len(q) = Len(a) + 1 /\ \A n \in 1..Len(a) : q[n] = a[n]
        /\ p[Len(p)] = category[i].slug /\ q[Len(q)] = category[k].slug
    BY <1>2, <1>4, <1>5, <1>6
  <2>4. /\ category[k].parent \in Existing => a = category[category[k].parent].path
        /\ category[k].parent \notin Existing => a = << >>
    BY <1>3, <1>6
  <2>5. Len(p) \in Nat /\ Len(p) >= 1
    BY <2>2
  <2> QED BY <2>1, <2>3, <2>4, <2>5
<1> HIDE DEF Above
<1>8. IsPrefixPath(p, p)
  BY <1>7, PrefixIs
<1>9. IsPrefixPath(p, a) => IsPrefixPath(p, q)
  <2>1. SUFFICES ASSUME Len(p) <= Len(a), \A n \in 1..Len(p) : a[n] = p[n]
                 PROVE  Len(p) <= Len(q) /\ \A n \in 1..Len(p) : q[n] = p[n]
    BY <1>7, PrefixIs
  <2>2. \A n \in 1..Len(p) : n \in 1..Len(a)
    BY <1>7, <2>1
  <2> QED BY <1>7, <2>1, <2>2
<1>10. k # i /\ IsPrefixPath(p, q) => category[k].parent \in Existing /\ IsPrefixPath(p, a)
  <2>1. SUFFICES ASSUME k # i, Len(p) <= Len(q), \A n \in 1..Len(p) : q[n] = p[n]
                 PROVE  category[k].parent \in Existing /\ IsPrefixPath(p, a)
    BY <1>7, PrefixIs
  <2>2. Len(p) # Len(q)
    <3>1. SUFFICES ASSUME Len(p) = Len(q) PROVE FALSE
      OBVIOUS
    <3>2. Len(p) \in 1..Len(p)
      BY <1>7
    <3>3. category[k].slug = category[i].slug
      BY <3>1, <3>2, <2>1, <1>7
    <3> QED BY <3>3, <2>1, <1>0 DEF SlugsDiffer
  <2>3. Len(p) <= Len(a)
    BY <2>1, <2>2, <1>7
  <2>4. category[k].parent \in Existing
    BY <2>3, <1>7
  <2>5. \A n \in 1..Len(p) : n \in 1..Len(a)
    BY <1>7, <2>3
  <2>6. \A n \in 1..Len(p) : a[n] = p[n]
    BY <2>1, <2>5, <1>7
  <2> QED BY <2>3, <2>4, <2>6, <1>7, PrefixIs
<1> QED BY <1>4, <1>5, <1>7, <1>8, <1>9, <1>10

LEMMA ScopesAre ==
    ASSUME TreeInv, ~treeMoved, ~treeCrossed, NEW i \in Existing
    PROVE  categoryScopeIds(i) = Subtree(i)
<1>0. PathsFollow /\ Acyclic
  BY DEF TreeInv, PathInv, LoopInv
<1>1. Subtree(i) \subseteq categoryScopeIds(i)
  <2>1. i \in categoryScopeIds(i) /\ categoryScopeIds(i) \in SUBSET Existing
    BY <1>0, PathStep DEF categoryScopeIds
  <2>2. \A k \in categoryScopeIds(i) : Children(k) \subseteq categoryScopeIds(i)
    BY <1>0, PathStep DEF categoryScopeIds, Children
  <2> QED BY <2>1, <2>2, BelowIsLeast
<1>2. ASSUME NEW T \in SUBSET Existing, i \in T, \A k \in T : Children(k) \subseteq T
      PROVE  categoryScopeIds(i) \subseteq T
  <2> DEFINE S == categoryScopeIds(i) \ T
  <2>1. S \in SUBSET Existing
    BY DEF categoryScopeIds
  <2>2. ASSUME NEW k \in S PROVE category[k].parent \in S
    <3>1. k # i /\ k \in Existing /\ IsPrefixPath(category[i].path, category[k].path)
      BY <1>2, <2>2 DEF categoryScopeIds
    <3>2. category[k].parent \in categoryScopeIds(i)
      BY <3>1, <1>0, PathStep DEF categoryScopeIds
    <3>3. category[k].parent \notin T
      BY <3>1, <2>2, <1>2 DEF Children
    <3> QED BY <3>2, <3>3
  <2>3. S = {}
    BY <2>1, <2>2, <1>0 DEF Acyclic
  <2> QED BY <2>3
<1>3. categoryScopeIds(i) \subseteq Subtree(i)
  <2>1. categoryScopeIds(i) \subseteq Existing
    BY DEF categoryScopeIds
  <2> QED BY <2>1, <1>2 DEF Subtree
<1> QED BY <1>1, <1>3

LEMMA TreeIs == TreeInv => TreeIsSound
<1> SUFFICES ASSUME TreeInv PROVE TreeIsSound
  OBVIOUS
<1>1. ScopeIsSubtreeUntilMoved
  BY ScopesAre DEF ScopeIsSubtreeUntilMoved, ScopeIsSubtree
<1>2. TreeShowsAll
  <2>1. SUFFICES ASSUME ~looped, NEW S \in SUBSET Active, \A i \in S : category[i].parent \in S
                 PROVE  S = {}
    BY DEF TreeShowsAll, Vanished
  <2>2. Acyclic /\ S \in SUBSET Existing
    BY <2>1 DEF TreeInv, LoopInv, Active
  <2> QED BY <2>1, <2>2 DEF Acyclic
<1> QED BY <1>1, <1>2 DEF TreeIsSound

(* Categories and their edits keep their types, for any categories, slugs   *)
(* and edits at once (catalog-admin.service).                               *)
THEOREM TreeTypes == TreeSpec => []TreeTypeOK
<1>1. TreeInv => TreeTypeOK
  BY DEF TreeInv, TreeTyped, TreeTypeOK
<1> QED BY <1>1, TreeStarts, TreeSteps, PTL DEF TreeSpec

(* A category's page lists its subtree, as its path has it, until one with  *)
(* others below it is moved or edits cross; and the shop's tree shows every *)
(* active category unless one was put below itself, for any edits at once   *)
(* (catalog-admin.service, catalog.service).                                *)
THEOREM TreeHolds == TreeSpec => []TreeIsSound
<1> QED BY TreeIs, TreeStarts, TreeSteps, PTL DEF TreeSpec

-----------------------------------------------------------------------------
(* What the page of brands and collections keeps *)

Flags == {"isFeatured", "isActive"}
Entry == [there : BOOLEAN, kind : EntryKinds, slug : SlugOf, columns : EntryColumns]
Listed2 == UNION {[S -> EntryColumns] : S \in SUBSET EntryIds}
Window == [kind : EntryKinds, editor : [id : 0..MaxEntries, saving : Nat], failed : BOOLEAN,
           version : Nat, outrun : BOOLEAN, rows : Listed2]
LoadOfList == [n : Nat, window : Windows, kind : EntryKinds, read : BOOLEAN, rows : Listed2,
               version : Nat]
JustWords == [words : Words]
JustFlag == UNION {[{f} -> BOOLEAN] : f \in Flags}
Write == [n : Nat, window : Windows \cup {NoWindow}, kind : EntryKinds,
          op : {"create", "update", "delete"}, id : 0..MaxEntries,
          columns : {NoColumns} \cup JustWords \cup JustFlag, at : {"sent", "checked", "ok", "error"},
          slug : SlugOf, version : Nat, cause : BOOLEAN]

(* An id that is, or was, a row of its kind. *)
OfKind(i, kind) == i \in 1..entries /\ entry[i].kind = kind

DeskRows ==
    /\ entry \in [EntryIds -> Entry] /\ entries \in EntryIds
    /\ said \in [EntryIds -> EntryColumns] /\ rowChanges \in Nat /\ deskRaced \in BOOLEAN
    /\ brandOf \in [Goods -> EntryIds \cup {0}] /\ given \in [Goods -> EntryIds \cup {0}]
    /\ \A g \in Goods : brandOf[g] # 0 => OfKind(brandOf[g], "brand")
    /\ ColumnsAsSaid /\ BrandsStay

(* A request asks what it may, of a row that was there; one that creates    *)
(* found its slug free, one that deletes found no product, and so it still  *)
(* is unless the request knows of another or of a race.                      *)
Sound(c) ==
    /\ c.op = "create" => c.columns \in JustWords
    /\ c.op = "update" => c.columns \in JustWords \cup JustFlag
    /\ c.op # "create" => OfKind(c.id, c.kind)
    /\ c.version <= rowChanges
    /\ c.op = "create" /\ c.at = "checked" /\ ~c.cause => c.slug \notin SlugsIn(c.kind)
    /\ c.op = "create" /\ c.at = "error" => c.cause
    /\ c.op = "delete" /\ c.at = "checked" /\ ~deskRaced => OfBrand(c.id) = {}
DeskWrites == \A c \in writes : c \in Write /\ Sound(c)

Fits(rows, kind) == \A i \in DOMAIN rows : OfKind(i, kind)
(* The list of a window is newer than what it did, or is on its way.        *)
Follows(t) ==
    /\ own[t] <= rowChanges
    /\ ~window[t].outrun =>
          /\ \A l, m \in ListsOf(t) : l = m
          /\ \A l \in ListsOf(t) : l.read => l.version >= own[t]
          /\ ListsOf(t) = {} /\ ~window[t].failed => window[t].version >= own[t]
DeskViews ==
    /\ window \in [Windows -> Window] /\ own \in [Windows -> Nat] /\ clicks \in Nat
    /\ \A l \in lists : l \in LoadOfList /\ l.kind = window[l.window].kind /\ Fits(l.rows, l.kind)
    /\ \A t \in Windows : Fits(window[t].rows, window[t].kind) /\ Follows(t)

CatalogInv == DeskRows /\ DeskWrites /\ DeskViews

-----------------------------------------------------------------------------
(* Facts about the operators *)

LEMMA NoRowsIs == << >> \in Listed2 /\ \A i : i \notin DOMAIN << >>
<1>1. << >> \in [{} -> EntryColumns]
  <2>1. DOMAIN << >> = {} /\ << >> = [i \in {} |-> 0]
    OBVIOUS
  <2> QED BY <2>1
<1> QED BY <1>1 DEF Listed2

LEMMA RowsAre ==
    ASSUME NEW rows \in Listed2
    PROVE  DOMAIN rows \subseteq EntryIds /\ \A i \in DOMAIN rows : rows[i] \in EntryColumns
BY DEF Listed2

LEMMA FirstSlug ==
    ASSUME NEW w \in Words
    PROVE  <<w, 1>> \in SlugOf
BY CatalogDeskAssumption DEF SlugOf

(* A request that is changed. *)
LEMMA WriteEdits ==
    ASSUME NEW c \in Write
    PROVE  /\ \A t \in Windows \cup {NoWindow} : LET d == [c EXCEPT !.window = t] IN
                 d \in Write /\ d.op = c.op /\ d.columns = c.columns /\ d.id = c.id /\ d.kind = c.kind
                 /\ d.version = c.version /\ d.at = c.at /\ d.cause = c.cause /\ d.slug = c.slug
           /\ \A a \in {"sent", "checked", "ok", "error"}, b \in BOOLEAN :
                 LET d == [c EXCEPT !.at = a, !.cause = b] IN
                 d \in Write /\ d.op = c.op /\ d.columns = c.columns /\ d.id = c.id /\ d.kind = c.kind
                 /\ d.version = c.version /\ d.at = a /\ d.cause = b /\ d.slug = c.slug
           /\ \A a \in {"sent", "checked", "ok", "error"} : LET d == [c EXCEPT !.at = a] IN
                 d \in Write /\ d.op = c.op /\ d.columns = c.columns /\ d.id = c.id /\ d.kind = c.kind
                 /\ d.version = c.version /\ d.at = a /\ d.cause = c.cause /\ d.slug = c.slug
           /\ \A b \in BOOLEAN : LET d == [c EXCEPT !.cause = b] IN
                 d \in Write /\ d.op = c.op /\ d.columns = c.columns /\ d.id = c.id /\ d.kind = c.kind
                 /\ d.version = c.version /\ d.at = c.at /\ d.cause = b /\ d.slug = c.slug
           /\ \A v \in Nat : LET d == [c EXCEPT !.at = "ok", !.version = v] IN
                 d \in Write /\ d.op = c.op /\ d.columns = c.columns /\ d.id = c.id /\ d.kind = c.kind
                 /\ d.version = v /\ d.at = "ok" /\ d.cause = c.cause /\ d.slug = c.slug
           /\ \A s \in SlugOf : LET d == [c EXCEPT !.slug = s, !.at = "checked"] IN
                 d \in Write /\ d.op = c.op /\ d.columns = c.columns /\ d.id = c.id /\ d.kind = c.kind
                 /\ d.version = c.version /\ d.at = "checked" /\ d.cause = c.cause /\ d.slug = s
<1> USE DEF Write
<1>1. \A t \in Windows \cup {NoWindow} : LET d == [c EXCEPT !.window = t] IN
          d \in Write /\ d.op = c.op /\ d.columns = c.columns /\ d.id = c.id /\ d.kind = c.kind
          /\ d.version = c.version /\ d.at = c.at /\ d.cause = c.cause /\ d.slug = c.slug
  OBVIOUS
<1>2. \A a \in {"sent", "checked", "ok", "error"}, b \in BOOLEAN :
          LET d == [c EXCEPT !.at = a, !.cause = b] IN
          d \in Write /\ d.op = c.op /\ d.columns = c.columns /\ d.id = c.id /\ d.kind = c.kind
          /\ d.version = c.version /\ d.at = a /\ d.cause = b /\ d.slug = c.slug
  OBVIOUS
<1>3. \A a \in {"sent", "checked", "ok", "error"} : LET d == [c EXCEPT !.at = a] IN
          d \in Write /\ d.op = c.op /\ d.columns = c.columns /\ d.id = c.id /\ d.kind = c.kind
          /\ d.version = c.version /\ d.at = a /\ d.cause = c.cause /\ d.slug = c.slug
  OBVIOUS
<1>4. \A b \in BOOLEAN : LET d == [c EXCEPT !.cause = b] IN
          d \in Write /\ d.op = c.op /\ d.columns = c.columns /\ d.id = c.id /\ d.kind = c.kind
          /\ d.version = c.version /\ d.at = c.at /\ d.cause = b /\ d.slug = c.slug
  OBVIOUS
<1>5. \A v \in Nat : LET d == [c EXCEPT !.at = "ok", !.version = v] IN
          d \in Write /\ d.op = c.op /\ d.columns = c.columns /\ d.id = c.id /\ d.kind = c.kind
          /\ d.version = v /\ d.at = "ok" /\ d.cause = c.cause /\ d.slug = c.slug
  OBVIOUS
<1>6. \A s \in SlugOf : LET d == [c EXCEPT !.slug = s, !.at = "checked"] IN
          d \in Write /\ d.op = c.op /\ d.columns = c.columns /\ d.id = c.id /\ d.kind = c.kind
          /\ d.version = c.version /\ d.at = "checked" /\ d.cause = c.cause /\ d.slug = s
  OBVIOUS
<1> QED BY ONLY <1>1, <1>2, <1>3, <1>4, <1>5, <1>6

(* There is a slug that is free, since there are more numbers than rows.     *)
LEMMA SlugIsFree ==
    ASSUME DeskRows, NEW kind, NEW root \in Words
    PROVE  uniqueSlugIn(kind, root) \in SlugOf \ SlugsIn(kind)
<1>0. entries \in 1..MaxEntries /\ MaxEntries \in Nat /\ entries \in Nat
  BY CatalogDeskAssumption DEF DeskRows, EntryIds
<1> DEFINE FreeSuffixes == 1..MaxEntries + 1
           Free == {n \in FreeSuffixes : <<root, n>> \notin SlugsIn(kind)}
<1>1. Free # {}
  <2>1. SUFFICES ASSUME Free = {} PROVE FALSE
    OBVIOUS
  <2>2. \A n \in FreeSuffixes : \E i \in 1..entries : entry[i].slug = <<root, n>>
    BY <2>1 DEF SlugsIn, Table, Stored
  <2> DEFINE f == [n \in FreeSuffixes |-> CHOOSE i \in 1..entries : entry[i].slug = <<root, n>>]
  <2>3. f \in [FreeSuffixes -> 1..entries] /\ \A n \in FreeSuffixes : entry[f[n]].slug = <<root, n>>
    BY <2>2
  <2>4. PICK lo \in Int : lo = 1
    OBVIOUS
  <2>5. PICK hi \in Int : hi = MaxEntries + 1
    BY <1>0
  <2>6. IsFiniteSet(FreeSuffixes) /\ Cardinality(FreeSuffixes) = MaxEntries + 1
    BY <1>0, <2>4, <2>5, FS_Interval
  <2>7. IsFiniteSet(1..entries) /\ Cardinality(1..entries) = entries
    BY <1>0, <2>4, FS_Interval
  <2> HIDE DEF f, FreeSuffixes
  <2>8. \E x, y \in FreeSuffixes : x # y /\ f[x] = f[y]
    <3>1. Cardinality(1..entries) < Cardinality(FreeSuffixes)
      BY <1>0, <2>6, <2>7
    <3> QED BY <2>3, <2>6, <2>7, <3>1, FS_PigeonHole
  <2> QED BY <2>3, <2>8
<1>2. Free \in SUBSET Nat
  BY <1>0
<1>3. PICK m \in Free : \A k \in Free : m <= k
  BY <1>1, <1>2, LeastNat
<1>4. PICK s : s = <<root, m>>
  OBVIOUS
<1>5. s \in SlugOf \ SlugsIn(kind) /\ s[1] = root /\ s[2] = m
  BY <1>3, <1>4 DEF SlugOf
<1>6. \A n \in 1 .. s[2] - 1 : <<root, n>> \in SlugsIn(kind)
  <2>1. SUFFICES ASSUME NEW n \in 1 .. m - 1, <<root, n>> \notin SlugsIn(kind) PROVE FALSE
    BY <1>5
  <2>2. m \in FreeSuffixes /\ n \in FreeSuffixes /\ n < m
    BY <1>0, <1>3
  <2>3. n \in Free
    BY <2>1, <2>2
  <2> QED BY <2>2, <2>3, <1>0, <1>3
<1> QED BY <1>5, <1>6 DEF uniqueSlugIn

(* A body with the words, or with one flag, writes that column. *)
LEMMA PatchedIs ==
    ASSUME NEW columns \in EntryColumns, NEW body \in JustWords \cup JustFlag
    PROVE  /\ Patched(columns, body) \in EntryColumns
           /\ "words" \in DOMAIN body => Patched(columns, body) = [columns EXCEPT !.words = body.words]
<1>0. DOMAIN columns = {"words", "isFeatured", "isActive"} /\ columns["words"] \in Words
      /\ columns["isFeatured"] \in BOOLEAN /\ columns["isActive"] \in BOOLEAN
  BY DEF EntryColumns
<1>1. CASE body \in JustWords
  <2>1. DOMAIN body = {"words"} /\ body["words"] \in Words
    BY <1>1 DEF JustWords
  <2>2. Patched(columns, body) = [columns EXCEPT !.words = body.words]
    BY <1>0, <2>1 DEF Patched, EntryColumns
  <2> QED BY <2>1, <2>2 DEF EntryColumns
<1>2. CASE body \in JustFlag
  <2>1. PICK f \in Flags : body \in [{f} -> BOOLEAN]
    BY <1>2 DEF JustFlag
  <2>a. PICK b \in BOOLEAN : b = body[f]
    BY <2>1
  <2>2. DOMAIN body = {f} /\ body[f] = b
    BY <2>1, <2>a
  <2>3. f # "words" /\ (f = "isFeatured" \/ f = "isActive")
    BY DEF Flags
  <2>4. Patched(columns, body) = [columns EXCEPT ![f] = b]
    BY <1>0, <2>2, <2>3 DEF Patched
  <2>5. [columns EXCEPT ![f] = b] \in EntryColumns
    <3>1. CASE f = "isFeatured"
      BY <3>1 DEF EntryColumns
    <3>2. CASE f = "isActive"
      BY <3>2 DEF EntryColumns
    <3> QED BY <3>1, <3>2, <2>3
  <2> QED BY <2>2, <2>3, <2>4, <2>5
<1> QED BY <1>1, <1>2

-----------------------------------------------------------------------------
(* Steps that leave the rows alone *)

LEMMA SameRows ==
    ASSUME DeskRows, UNCHANGED rowState
    PROVE  /\ DeskRows' /\ rowChanges' = rowChanges
           /\ \A c : Sound(c)' = Sound(c)
           /\ \A rows, kind : Fits(rows, kind)' = Fits(rows, kind)
<1>u. UNCHANGED <<entry, entries, brandOf, rowChanges, said, given, deskRaced>>
  BY DEF rowState
<1>1. \A i, kind : OfKind(i, kind)' = OfKind(i, kind)
  BY <1>u DEF OfKind
<1>2. DeskRows'
  BY <1>u, <1>1 DEF DeskRows, ColumnsAsSaid, BrandsStay, Stored, OfKind
<1>3. \A c : Sound(c)' = Sound(c)
  <2> SUFFICES ASSUME NEW c PROVE Sound(c)' = Sound(c)
    OBVIOUS
  <2>1. SlugsIn(c.kind)' = SlugsIn(c.kind) /\ OfBrand(c.id)' = OfBrand(c.id)
    BY <1>u DEF SlugsIn, Table, Stored, OfBrand
  <2> QED BY <1>u, <1>1, <2>1 DEF Sound
<1>4. \A rows, kind : Fits(rows, kind)' = Fits(rows, kind)
  BY <1>1 DEF Fits
<1> QED BY <1>u, <1>2, <1>3, <1>4

LEMMA WritesMove ==
    ASSUME CatalogInv, UNCHANGED rowState, \A c \in writes' : c \in writes \/ (c \in Write /\ Sound(c))
    PROVE  DeskRows' /\ DeskWrites'
BY SameRows DEF CatalogInv, DeskWrites

LEMMA OneWindow ==
    ASSUME window \in [Windows -> Window], NEW t \in Windows, NEW d \in Window,
           window' = [window EXCEPT ![t] = d]
    PROVE  /\ window' \in [Windows -> Window]
           /\ \A u \in Windows : window'[u] = IF u = t THEN d ELSE window[u]
OBVIOUS

(* One window and its lists change. *)
LEMMA ViewMoves ==
    ASSUME CatalogInv, UNCHANGED rowState, clicks' \in Nat, own' \in [Windows -> Nat],
           NEW t \in Windows, NEW d \in Window, window' = [window EXCEPT ![t] = d],
           \A u \in Windows \ {t} : own'[u] = own[u],
           \A l : l.window # t => (l \in lists' <=> l \in lists),
           \A l \in lists' : l.window = t => l \in LoadOfList /\ l.kind = d.kind /\ Fits(l.rows, l.kind),
           Fits(d.rows, d.kind), Follows(t)'
    PROVE  DeskViews'
<1>0. DeskRows /\ DeskViews /\ window \in [Windows -> Window]
  BY DEF CatalogInv, DeskViews
<1>1. /\ window' \in [Windows -> Window]
      /\ \A u \in Windows : window'[u] = IF u = t THEN d ELSE window[u]
  BY <1>0, OneWindow
<1>2. \A l \in lists' : l \in LoadOfList /\ l.kind = window'[l.window].kind /\ Fits(l.rows, l.kind)'
  <2> SUFFICES ASSUME NEW l \in lists'
               PROVE  l \in LoadOfList /\ l.kind = window'[l.window].kind /\ Fits(l.rows, l.kind)'
    OBVIOUS
  <2>1. CASE l.window = t
    BY <2>1, <1>0, <1>1, SameRows
  <2>2. CASE l.window # t
    <3>1. l \in lists /\ l \in LoadOfList /\ l.kind = window[l.window].kind /\ Fits(l.rows, l.kind)
      BY <2>2, <1>0 DEF DeskViews
    <3>2. l.window \in Windows
      BY <3>1 DEF LoadOfList
    <3> QED BY <3>1, <3>2, <2>2, <1>0, <1>1, SameRows
  <2> QED BY <2>1, <2>2
<1>3. \A u \in Windows : (Fits(window[u].rows, window[u].kind))' /\ Follows(u)'
  <2> SUFFICES ASSUME NEW u \in Windows PROVE (Fits(window[u].rows, window[u].kind))' /\ Follows(u)'
    OBVIOUS
  <2>1. CASE u = t
    <3>1. Fits(d.rows, d.kind)'
      BY <1>0, SameRows
    <3>2. window'[u] = d
      BY <2>1, <1>1
    <3>3. (Fits(window[u].rows, window[u].kind))'
      BY <3>1, <3>2 DEF Fits
    <3> QED BY <3>3, <2>1
  <2>2. CASE u # t
    <3>1. Fits(window[u].rows, window[u].kind) /\ Follows(u) /\ window'[u] = window[u] /\ own'[u] = own[u]
      BY <2>2, <1>0, <1>1 DEF DeskViews
    <3>2. ListsOf(u)' = ListsOf(u)
      BY <2>2 DEF ListsOf
    <3>3. rowChanges' = rowChanges /\ (Fits(window[u].rows, window[u].kind))'
      BY <3>1, <1>0, SameRows DEF Fits
    <3> QED BY <3>1, <3>2, <3>3 DEF Follows
  <2> QED BY <2>1, <2>2
<1> QED BY <1>1, <1>2, <1>3 DEF DeskViews

(* What a window shows is typed, and may be changed piece by piece. *)
LEMMA WindowEdits ==
    ASSUME NEW v \in Window
    PROVE  /\ v.kind \in EntryKinds /\ v.editor.id \in 0..MaxEntries /\ v.editor.saving \in Nat
           /\ v.failed \in BOOLEAN /\ v.version \in Nat /\ v.outrun \in BOOLEAN /\ v.rows \in Listed2
           /\ \A e \in [id : 0..MaxEntries, saving : Nat] : LET d == [v EXCEPT !.editor = e] IN
                 d \in Window /\ d.kind = v.kind /\ d.failed = v.failed /\ d.version = v.version
                 /\ d.outrun = v.outrun /\ d.rows = v.rows /\ d.editor = e
           /\ \A r \in Listed2, n \in Nat, e \in [id : 0..MaxEntries, saving : Nat] :
                 LET d == [v EXCEPT !.rows = r, !.version = n, !.editor = e] IN
                 d \in Window /\ d.kind = v.kind /\ d.failed = v.failed /\ d.version = n
                 /\ d.outrun = v.outrun /\ d.rows = r
           /\ LET d == [v EXCEPT !.failed = TRUE] IN
                 d \in Window /\ d.kind = v.kind /\ d.failed /\ d.version = v.version
                 /\ d.outrun = v.outrun /\ d.rows = v.rows
           /\ \A b \in BOOLEAN : LET d == [v EXCEPT !.outrun = b] IN
                 d \in Window /\ d.kind = v.kind /\ d.failed = v.failed /\ d.version = v.version
                 /\ d.outrun = b /\ d.rows = v.rows /\ d.editor = v.editor
<1>1. /\ v.kind \in EntryKinds /\ v.editor.id \in 0..MaxEntries /\ v.editor.saving \in Nat
      /\ v.failed \in BOOLEAN /\ v.version \in Nat /\ v.outrun \in BOOLEAN /\ v.rows \in Listed2
  BY DEF Window
<1>2. \A e \in [id : 0..MaxEntries, saving : Nat] : LET d == [v EXCEPT !.editor = e] IN
          d \in Window /\ d.kind = v.kind /\ d.failed = v.failed /\ d.version = v.version
          /\ d.outrun = v.outrun /\ d.rows = v.rows /\ d.editor = e
  BY DEF Window
<1>3. \A r \in Listed2, n \in Nat, e \in [id : 0..MaxEntries, saving : Nat] :
          LET d == [v EXCEPT !.rows = r, !.version = n, !.editor = e] IN
          d \in Window /\ d.kind = v.kind /\ d.failed = v.failed /\ d.version = n
          /\ d.outrun = v.outrun /\ d.rows = r
  BY DEF Window
<1>4. LET d == [v EXCEPT !.failed = TRUE] IN
          d \in Window /\ d.kind = v.kind /\ d.failed /\ d.version = v.version
          /\ d.outrun = v.outrun /\ d.rows = v.rows
  BY DEF Window
<1>5. \A b \in BOOLEAN : LET d == [v EXCEPT !.outrun = b] IN
          d \in Window /\ d.kind = v.kind /\ d.failed = v.failed /\ d.version = v.version
          /\ d.outrun = b /\ d.rows = v.rows /\ d.editor = v.editor
  BY DEF Window
<1> QED BY ONLY <1>1, <1>2, <1>3, <1>4, <1>5

LEMMA EditorIs ==
    ASSUME NEW i \in 0..MaxEntries
    PROVE  Editor(i) \in [id : 0..MaxEntries, saving : Nat]
BY DEF Editor

(* An editor is opened, closed or saved, and the page is otherwise the same. *)
LEMMA EditorMoves ==
    ASSUME CatalogInv, UNCHANGED <<rowState, lists, own>>, clicks' \in Nat, NEW t \in Windows,
           NEW e \in [id : 0..MaxEntries, saving : Nat],
           window' = [window EXCEPT ![t] = [window[t] EXCEPT !.editor = e]]
    PROVE  DeskViews'
<1>0. /\ DeskRows /\ DeskViews /\ window \in [Windows -> Window] /\ window[t] \in Window
      /\ own \in [Windows -> Nat]
  BY DEF CatalogInv, DeskViews
<1> DEFINE d == [window[t] EXCEPT !.editor = e]
<1>a. PICK v \in Window : v = window[t]
  BY <1>0
<1>b. LET x == [v EXCEPT !.editor = e] IN
          x \in Window /\ x.kind = v.kind /\ x.failed = v.failed /\ x.version = v.version
          /\ x.outrun = v.outrun /\ x.rows = v.rows
  BY DEF Window
<1>1. d \in Window /\ d.kind = window[t].kind /\ d.failed = window[t].failed
      /\ d.version = window[t].version /\ d.outrun = window[t].outrun /\ d.rows = window[t].rows
  BY <1>a, <1>b
<1> HIDE DEF d
<1>2. window' = [window EXCEPT ![t] = d]
  BY DEF d
<1>3. window'[t] = d
  BY <1>0, <1>2
<1>4. Follows(t)'
  <2>1. Follows(t)
    BY <1>0 DEF DeskViews
  <2>2. rowChanges' = rowChanges
    BY <1>0, SameRows
  <2> QED BY <2>1, <2>2, <1>1, <1>3 DEF Follows, ListsOf
<1>5. \A l \in lists' : l.window = t => l \in LoadOfList /\ l.kind = d.kind /\ Fits(l.rows, l.kind)
  BY <1>0, <1>1 DEF DeskViews
<1>6. Fits(d.rows, d.kind)
  BY <1>0, <1>1 DEF DeskViews
<1> QED BY <1>0, <1>1, <1>2, <1>4, <1>5, <1>6, ViewMoves

LEMMA PageStays ==
    ASSUME CatalogInv, UNCHANGED <<rowState, lists, own, window>>, clicks' \in Nat
    PROVE  DeskViews'
<1>0. DeskRows /\ DeskViews
  BY DEF CatalogInv
<1>1. rowChanges' = rowChanges
  BY <1>0, SameRows
<1>2. \A t \in Windows : Follows(t)' = Follows(t)
  BY <1>1 DEF Follows, ListsOf
<1>3. \A l \in lists : Fits(l.rows, l.kind)'
  BY <1>0, SameRows DEF DeskViews
<1>4. \A t \in Windows : (Fits(window[t].rows, window[t].kind))'
  BY <1>0, SameRows DEF DeskViews, Fits
<1> QED BY <1>0, <1>2, <1>3, <1>4 DEF DeskViews

-----------------------------------------------------------------------------
(* Lists *)

LEMMA ListNowIs ==
    ASSUME DeskRows, NEW kind
    PROVE  ListNow(kind) \in Listed2 /\ Fits(ListNow(kind), kind) /\ SlugsIn(kind) \subseteq SlugOf
<1>1. /\ entry \in [EntryIds -> Entry] /\ 1..entries \subseteq EntryIds
      /\ Table(kind) \subseteq 1..entries
  BY CatalogDeskAssumption DEF DeskRows, EntryIds, Table, Stored
<1>2. \A i \in Table(kind) : /\ entry[i].columns \in EntryColumns /\ entry[i].slug \in SlugOf
                             /\ entry[i].kind = kind
  BY <1>1 DEF Entry, Table
<1>3. ListNow(kind) \in [Table(kind) -> EntryColumns]
  BY <1>2 DEF ListNow
<1>4. ListNow(kind) \in Listed2
  BY <1>1, <1>3 DEF Listed2
<1>5. Fits(ListNow(kind), kind)
  BY <1>1, <1>2, <1>3 DEF Fits, OfKind
<1> QED BY <1>2, <1>4, <1>5 DEF SlugsIn

(* A window is the same but for its lists, which are asked for and read. *)
LEMMA WindowStays ==
    ASSUME CatalogInv, UNCHANGED <<rowState, own, window, clicks>>, NEW t \in Windows,
           \A l : l.window # t => (l \in lists' <=> l \in lists),
           \A l \in lists' : l.window = t => l \in LoadOfList /\ l.kind = window[t].kind /\ Fits(l.rows, l.kind),
           Follows(t)'
    PROVE  DeskViews'
<1>0. /\ DeskRows /\ DeskViews /\ window \in [Windows -> Window] /\ window[t] \in Window
      /\ own \in [Windows -> Nat] /\ clicks \in Nat
  BY DEF CatalogInv, DeskViews
<1>1. PICK d \in Window : d = window[t]
  BY <1>0
<1>2. window' = [window EXCEPT ![t] = d]
  BY <1>0, <1>1
<1>3. Fits(d.rows, d.kind)
  BY <1>0, <1>1 DEF DeskViews
<1> QED BY <1>0, <1>1, <1>2, <1>3, ViewMoves

LEMMA ReadKeeps ==
    ASSUME CatalogInv, NEW l \in lists, ReadEntries(l)
    PROVE  CatalogInv'
<1>0. /\ DeskRows /\ DeskWrites /\ DeskViews /\ l \in LoadOfList /\ l.kind = window[l.window].kind
      /\ rowChanges \in Nat
  BY DEF CatalogInv, DeskViews, DeskRows
<1>1. PICK t \in Windows : t = l.window
  BY <1>0 DEF LoadOfList
<1>2. PICK rows : rows = ListNow(l.kind)
  OBVIOUS
<1>3. PICK v \in Nat : v = rowChanges
  BY <1>0
<1> DEFINE d == [l EXCEPT !.read = TRUE, !.rows = rows, !.version = v]
<1>4. /\ lists' = (lists \ {l}) \cup {d}
      /\ UNCHANGED <<rowState, window, writes, clicks, own>>
  BY <1>2, <1>3 DEF ReadEntries
<1>5. rows \in Listed2 /\ Fits(rows, l.kind)
  BY <1>0, <1>2, ListNowIs
<1>6. d \in LoadOfList /\ d.window = t /\ d.kind = l.kind /\ d.read /\ d.rows = rows /\ d.version = v
  BY <1>0, <1>1, <1>5 DEF LoadOfList
<1> HIDE DEF d
<1>7. Follows(t)'
  <2>1. Follows(t) /\ rowChanges' = rowChanges
    BY <1>0, <1>4, SameRows DEF DeskViews
  <2>2. l \in ListsOf(t) /\ ListsOf(t)' = (ListsOf(t) \ {l}) \cup {d}
    BY <1>1, <1>4, <1>6 DEF ListsOf
  <2> QED BY <2>1, <2>2, <1>3, <1>4, <1>6 DEF Follows
<1>8. DeskViews'
  <2>1. \A x \in lists' : x.window = t => x \in LoadOfList /\ x.kind = window[t].kind /\ Fits(x.rows, x.kind)
    BY <1>0, <1>1, <1>4, <1>5, <1>6 DEF DeskViews
  <2>2. \A x : x.window # t => (x \in lists' <=> x \in lists)
    BY <1>1, <1>4, <1>6
  <2> QED BY <1>4, <1>7, <2>1, <2>2, WindowStays
<1> QED BY <1>4, <1>8, WritesMove DEF CatalogInv

(* A list comes, or does not; none of the others changes. *)
LEMMA ListEnds ==
    ASSUME CatalogInv, NEW l \in lists, ListShown(l) \/ ListBreaks(l)
    PROVE  CatalogInv'
<1>0. /\ DeskRows /\ DeskWrites /\ DeskViews /\ l \in LoadOfList /\ l.kind = window[l.window].kind
      /\ Fits(l.rows, l.kind) /\ window \in [Windows -> Window] /\ own \in [Windows -> Nat] /\ clicks \in Nat
  BY DEF CatalogInv, DeskViews
<1>1. PICK t \in Windows : t = l.window
  BY <1>0 DEF LoadOfList
<1>2. PICK v \in Window : v = window[t]
  BY <1>0
<1>3. Follows(t) /\ l \in ListsOf(t) /\ Fits(v.rows, v.kind)
  BY <1>0, <1>1, <1>2 DEF DeskViews, ListsOf
<1>4. /\ lists' = lists \ {l} /\ UNCHANGED <<rowState, writes, clicks, own>>
      /\ \E d \in Window :
            /\ window' = [window EXCEPT ![t] = d] /\ d.kind = v.kind /\ Fits(d.rows, d.kind)
            /\ d.outrun = v.outrun
            /\ d.failed \/ (l.read /\ d.version = l.version)
  <2>1. CASE ListShown(l)
    <3>1. /\ l.read /\ lists' = lists \ {l} /\ UNCHANGED <<rowState, writes, clicks, own>>
          /\ window' = [window EXCEPT ![t].rows = l.rows, ![t].version = l.version,
                            ![t].editor = IF @.id \in DOMAIN l.rows \ DOMAIN window[t].rows
                                          THEN Editor(@.id) ELSE @]
      BY <1>1, <2>1 DEF ListShown
    <3>2. PICK e : e = IF v.editor.id \in DOMAIN l.rows \ DOMAIN v.rows THEN Editor(v.editor.id)
                       ELSE v.editor
      OBVIOUS
    <3>3. PICK r : r = l.rows
      OBVIOUS
    <3>4. PICK n : n = l.version
      OBVIOUS
    <3>5. r \in Listed2 /\ n \in Nat
      BY <1>0, <3>3, <3>4 DEF LoadOfList
    <3>6. e \in [id : 0..MaxEntries, saving : Nat]
      <4>1. v.editor \in [id : 0..MaxEntries, saving : Nat]
        BY DEF Window
      <4>2. v.editor.id \in 0..MaxEntries
        BY <4>1
      <4> QED BY <4>1, <4>2, <3>2, EditorIs
    <3> DEFINE d == [v EXCEPT !.rows = r, !.version = n, !.editor = e]
    <3>7. window' = [window EXCEPT ![t] = d]
      BY <1>0, <1>2, <3>1, <3>2, <3>3, <3>4
    <3>8. LET x == [v EXCEPT !.rows = r, !.version = n, !.editor = e] IN
              x \in Window /\ x.kind = v.kind /\ x.failed = v.failed /\ x.version = n
              /\ x.outrun = v.outrun /\ x.rows = r
      <4>1. v \in Window
        BY <1>2
      <4> QED BY ONLY <4>1, <3>5, <3>6 DEF Window
    <3>9. d \in Window /\ d.kind = v.kind /\ d.version = n /\ d.outrun = v.outrun /\ d.rows = r
      BY <3>8
    <3> HIDE DEF d
    <3>10. Fits(d.rows, d.kind)
      BY <3>9, <3>3, <1>0, <1>1, <1>2
    <3> QED BY <3>1, <3>4, <3>7, <3>9, <3>10
  <2>2. CASE ListBreaks(l)
    <3>1. /\ lists' = lists \ {l} /\ UNCHANGED <<rowState, writes, clicks, own>>
          /\ window' = [window EXCEPT ![t].failed = TRUE]
      BY <1>1, <2>2 DEF ListBreaks
    <3> DEFINE d == [v EXCEPT !.failed = TRUE]
    <3>2. window' = [window EXCEPT ![t] = d]
      BY <1>0, <1>2, <3>1
    <3>3. d \in Window /\ d.kind = v.kind /\ d.failed /\ d.outrun = v.outrun /\ d.rows = v.rows
      BY WindowEdits
    <3> HIDE DEF d
    <3> QED BY <3>1, <3>2, <3>3, <1>3
  <2> QED BY <2>1, <2>2
<1>5. PICK d \in Window :
            /\ window' = [window EXCEPT ![t] = d] /\ d.kind = v.kind /\ Fits(d.rows, d.kind)
            /\ d.outrun = v.outrun
            /\ d.failed \/ (l.read /\ d.version = l.version)
  BY <1>4
<1>6. Follows(t)'
  <2>1. window'[t] = d /\ rowChanges' = rowChanges /\ own' = own
    BY <1>0, <1>4, <1>5, SameRows
  <2>2. ListsOf(t)' = ListsOf(t) \ {l}
    BY <1>1, <1>4 DEF ListsOf
  <2> QED BY <2>1, <2>2, <1>2, <1>3, <1>5 DEF Follows
<1>7. DeskViews'
  <2>1. \A x \in lists' : x.window = t => x \in LoadOfList /\ x.kind = d.kind /\ Fits(x.rows, x.kind)
    BY <1>0, <1>2, <1>4, <1>5 DEF DeskViews
  <2>2. \A x : x.window # t => (x \in lists' <=> x \in lists)
    BY <1>1, <1>4
  <2> QED BY <1>0, <1>4, <1>5, <1>6, <2>1, <2>2, ViewMoves
<1> QED BY <1>4, <1>7, WritesMove DEF CatalogInv

-----------------------------------------------------------------------------
(* Clicks *)

LEMMA SoundAlike ==
    ASSUME NEW c, NEW d, Sound(c), d.op = c.op, d.columns = c.columns, d.id = c.id, d.kind = c.kind,
           d.version = c.version, d.at = c.at, d.slug = c.slug, c.cause => d.cause
    PROVE  Sound(d)
BY DEF Sound

(* A request whose window is closed. *)
LEMMA Unwatched ==
    ASSUME NEW c \in Write, Sound(c), NEW w \in Windows \cup {NoWindow}
    PROVE  [c EXCEPT !.window = w] \in Write /\ Sound([c EXCEPT !.window = w])
<1> DEFINE d == [c EXCEPT !.window = w]
<1>1. /\ d \in Write /\ d.op = c.op /\ d.columns = c.columns /\ d.id = c.id /\ d.kind = c.kind
      /\ d.version = c.version /\ d.at = c.at /\ d.cause = c.cause /\ d.slug = c.slug
  BY DEF Write
<1> HIDE DEF d
<1>2. d \in Write /\ Sound(d)
  BY <1>1, SoundAlike
<1> QED BY <1>2 DEF d

LEMMA TabKeeps ==
    ASSUME CatalogInv, NEW t \in Windows, NEW kind \in EntryKinds, setTab(t, kind)
    PROVE  CatalogInv'
<1>0. /\ DeskRows /\ DeskWrites /\ DeskViews /\ window \in [Windows -> Window] /\ own \in [Windows -> Nat]
      /\ clicks \in Nat /\ rowChanges \in Nat
  BY DEF CatalogInv, DeskViews, DeskRows
<1>1. PICK none : none = << >>
  OBVIOUS
<1> DEFINE d == [kind |-> kind, editor |-> Editor(0), failed |-> FALSE, version |-> 0, outrun |-> FALSE,
                 rows |-> none]
           l == [n |-> clicks + 1, window |-> t, kind |-> kind, read |-> FALSE, rows |-> none,
                 version |-> 0]
<1>2. /\ clicks' = clicks + 1 /\ window' = [window EXCEPT ![t] = d]
      /\ lists' = (lists \ ListsOf(t)) \cup {l}
      /\ writes' = {[c EXCEPT !.window = IF @ = t THEN NoWindow ELSE @] :
                        c \in {x \in writes : x.window = t => ~Ended(x)}}
      /\ own' = [own EXCEPT ![t] = 0]
      /\ UNCHANGED rowState
  BY <1>1 DEF setTab
<1>3. none \in Listed2 /\ \A i : i \notin DOMAIN none
  BY <1>1, NoRowsIs
<1>4. d \in Window /\ d.kind = kind /\ d.rows = none /\ ~d.outrun /\ d.version = 0
  <2>1. Editor(0) \in [id : 0..MaxEntries, saving : Nat]
    BY EditorIs, CatalogDeskAssumption
  <2> QED BY <2>1, <1>3 DEF Window
<1>5. l \in LoadOfList /\ l.window = t /\ l.kind = kind /\ ~l.read /\ l.rows = none
  BY <1>0, <1>3 DEF LoadOfList
<1> HIDE DEF d, l
<1>6. window'[t] = d /\ own'[t] = 0 /\ own' \in [Windows -> Nat] /\ \A u \in Windows \ {t} : own'[u] = own[u]
  BY <1>0, <1>2, <1>4
<1>7. ListsOf(t)' = {l}
  BY <1>2, <1>5 DEF ListsOf
<1>8. Follows(t)'
  <2>1. rowChanges' = rowChanges
    BY <1>0, <1>2, SameRows
  <2> QED BY <2>1, <1>0, <1>5, <1>6, <1>7 DEF Follows
<1>9. Fits(none, kind)
  BY <1>3 DEF Fits
<1>10. DeskViews'
  <2>1. \A x \in lists' : x.window = t => x \in LoadOfList /\ x.kind = d.kind /\ Fits(x.rows, x.kind)
    BY <1>2, <1>4, <1>5, <1>9 DEF ListsOf
  <2>2. \A x : x.window # t => (x \in lists' <=> x \in lists)
    BY <1>2, <1>5 DEF ListsOf
  <2>3. clicks' \in Nat /\ Fits(d.rows, d.kind)
    BY <1>0, <1>2, <1>4, <1>9
  <2> QED BY <2>1, <2>2, <2>3, <1>2, <1>4, <1>6, <1>8, ViewMoves
<1>11. \A x \in writes' : x \in Write /\ Sound(x)
  <2> SUFFICES ASSUME NEW x \in writes' PROVE x \in Write /\ Sound(x)
    OBVIOUS
  <2>1. PICK c \in writes : x = [c EXCEPT !.window = IF @ = t THEN NoWindow ELSE @]
    BY <1>2
  <2>2. PICK w : w = IF c.window = t THEN NoWindow ELSE c.window
    OBVIOUS
  <2>3. c \in Write /\ Sound(c) /\ x = [c EXCEPT !.window = w]
    BY <2>1, <2>2, <1>0 DEF DeskWrites
  <2>4. w \in Windows \cup {NoWindow}
    BY <2>2, <2>3 DEF Write
  <2> QED BY <2>3, <2>4, Unwatched
<1> QED BY <1>2, <1>10, <1>11, WritesMove DEF CatalogInv

LEMMA SendIs ==
    ASSUME CatalogInv, NEW t \in Windows, NEW op \in {"create", "update", "delete"},
           NEW i \in 0..MaxEntries, NEW columns \in {NoColumns} \cup JustWords \cup JustFlag,
           Send(t, op, i, columns),
           op = "create" => columns \in JustWords,
           op = "update" => columns \in JustWords \cup JustFlag,
           op # "create" => OfKind(i, window[t].kind)
    PROVE  DeskRows' /\ DeskWrites' /\ clicks' \in Nat /\ UNCHANGED <<rowState, lists, own>>
<1>0. DeskRows /\ DeskWrites /\ window[t] \in Window /\ clicks \in Nat /\ rowChanges \in Nat
  BY DEF CatalogInv, DeskViews, DeskRows
<1>1. PICK s : s = <<CHOOSE w \in Words : TRUE, 1>>
  OBVIOUS
<1>2. PICK kind \in EntryKinds : kind = window[t].kind
  BY <1>0 DEF Window
<1> DEFINE d == [n |-> clicks + 1, window |-> t, kind |-> kind, op |-> op, id |-> i, columns |-> columns,
                 at |-> "sent", slug |-> s, version |-> 0, cause |-> FALSE]
<1>3. writes' = writes \cup {d} /\ clicks' = clicks + 1 /\ UNCHANGED <<rowState, lists, own>>
  BY <1>1, <1>2 DEF Send
<1>4. s \in SlugOf
  BY <1>1, FirstSlug, CatalogDeskAssumption
<1>5. /\ d \in Write /\ d.op = op /\ d.columns = columns /\ d.id = i /\ d.kind = kind /\ d.at = "sent"
      /\ d.version = 0
  BY <1>0, <1>4 DEF Write
<1> HIDE DEF d
<1>6. Sound(d)
  BY <1>0, <1>2, <1>5 DEF Sound
<1>7. DeskRows' /\ DeskWrites'
  BY <1>3, <1>5, <1>6, WritesMove
<1> QED BY <1>0, <1>3, <1>7

LEMMA RowsOfWindow ==
    ASSUME CatalogInv, NEW t \in Windows, NEW i \in DOMAIN window[t].rows
    PROVE  i \in EntryIds /\ OfKind(i, window[t].kind) /\ window[t].rows[i] \in EntryColumns
<1>1. window[t].rows \in Listed2 /\ Fits(window[t].rows, window[t].kind)
  BY DEF CatalogInv, DeskViews, Window
<1> QED BY <1>1, RowsAre DEF Fits

LEMMA BrandClicksKeep ==
    ASSUME CatalogInv, NEW t \in Windows, NEW i \in EntryIds, NEW f \in Flags,
           add(t) \/ PressFlag(t, i, f) \/ PressDelete(t, i) \/ setEditing(t, i) \/ save(t)
    PROVE  CatalogInv'
<1>0. /\ DeskRows /\ DeskWrites /\ DeskViews /\ window \in [Windows -> Window] /\ window[t] \in Window
      /\ clicks \in Nat /\ i \in 0..MaxEntries /\ 0 \in 0..MaxEntries
  BY CatalogDeskAssumption DEF CatalogInv, DeskViews, EntryIds
<1>1. CASE add(t)
  <2>1. PICK w \in Words : Send(t, "create", 0, [words |-> w]) /\ UNCHANGED window
    BY <1>1 DEF add
  <2>2. [words |-> w] \in JustWords
    BY DEF JustWords
  <2>3. DeskRows' /\ DeskWrites' /\ clicks' \in Nat /\ UNCHANGED <<rowState, lists, own>>
    BY <2>1, <2>2, <1>0, SendIs
  <2> QED BY <2>1, <2>3, PageStays DEF CatalogInv
<1>2. CASE PressFlag(t, i, f)
  <2>1. PICK b : b = ~window[t].rows[i][f]
    OBVIOUS
  <2>2. /\ Send(t, "update", i, [x \in {f} |-> ~window[t].rows[i][x]])
        /\ UNCHANGED window /\ i \in DOMAIN window[t].rows
    BY <1>2 DEF PressFlag
  <2>3. [x \in {f} |-> ~window[t].rows[i][x]] = [x \in {f} |-> b] /\ b \in BOOLEAN
    BY <2>1
  <2>4. [x \in {f} |-> b] \in JustFlag
    <3>1. [x \in {f} |-> b] \in [{f} -> BOOLEAN]
      BY <2>3
    <3> QED BY <3>1 DEF JustFlag
  <2>5. OfKind(i, window[t].kind)
    BY <2>2, RowsOfWindow
  <2>6. PICK columns : columns = [x \in {f} |-> b]
    OBVIOUS
  <2>7. Send(t, "update", i, columns) /\ columns \in JustFlag
    BY <2>2, <2>3, <2>4, <2>6
  <2>8. DeskRows' /\ DeskWrites' /\ clicks' \in Nat /\ UNCHANGED <<rowState, lists, own>>
    BY <2>5, <2>7, <1>0, SendIs
  <2> QED BY <2>2, <2>8, PageStays DEF CatalogInv
<1>3. CASE PressDelete(t, i)
  <2>1. Send(t, "delete", i, NoColumns) /\ UNCHANGED window /\ OfKind(i, window[t].kind)
    BY <1>3, RowsOfWindow DEF PressDelete
  <2>2. DeskRows' /\ DeskWrites' /\ clicks' \in Nat /\ UNCHANGED <<rowState, lists, own>>
    BY <2>1, <1>0, SendIs
  <2> QED BY <2>1, <2>2, PageStays DEF CatalogInv
<1>4. CASE setEditing(t, i)
  <2>1. PICK e : e = Editor(IF window[t].editor.id = i THEN 0 ELSE i)
    OBVIOUS
  <2>2. e \in [id : 0..MaxEntries, saving : Nat]
    BY <2>1, <1>0, EditorIs
  <2>3. /\ window' = [window EXCEPT ![t] = [window[t] EXCEPT !.editor = e]]
        /\ UNCHANGED <<rowState, writes, lists, clicks, own>>
    BY <1>0, <1>4, <2>1 DEF setEditing
  <2>4. DeskViews'
    BY <2>2, <2>3, <1>0, EditorMoves
  <2> QED BY <2>3, <2>4, WritesMove DEF CatalogInv
<1>5. CASE save(t)
  <2>1. PICK id : id = window[t].editor.id
    OBVIOUS
  <2>2. PICK w \in Words : Send(t, "update", id, [words |-> w])
    BY <1>5, <2>1 DEF save, EditorSends
  <2>3. [words |-> w] \in JustWords
    BY DEF JustWords
  <2>4. id \in EntryIds /\ OfKind(id, window[t].kind) /\ id \in 0..MaxEntries
    BY <1>5, <2>1, RowsOfWindow, CatalogDeskAssumption DEF save, EntryIds
  <2>5. DeskRows' /\ DeskWrites' /\ clicks' \in Nat /\ UNCHANGED <<rowState, lists, own>>
    BY <2>2, <2>3, <2>4, <1>0, SendIs
  <2>6. PICK n : n = clicks + 1
    OBVIOUS
  <2>7. PICK e : e = [window[t].editor EXCEPT !.saving = n]
    OBVIOUS
  <2>8. e \in [id : 0..MaxEntries, saving : Nat]
    <3>1. window[t].editor \in [id : 0..MaxEntries, saving : Nat]
      BY <1>0 DEF Window
    <3> QED BY <3>1, <2>6, <2>7, <1>0
  <2>9. window' = [window EXCEPT ![t] = [window[t] EXCEPT !.editor = e]]
    BY <1>0, <1>5, <2>6, <2>7 DEF save
  <2> QED BY <2>5, <2>8, <2>9, EditorMoves DEF CatalogInv
<1> QED BY <1>1, <1>2, <1>3, <1>4, <1>5

-----------------------------------------------------------------------------
(* Answers *)

(* The editor that waited for the answer may save again. *)
LEMMA EditorFreeIs ==
    ASSUME CatalogInv, NEW c, c.window \in Windows
    PROVE  \E e \in [id : 0..MaxEntries, saving : Nat] :
               EditorFree(c) = [window EXCEPT ![c.window] = [window[c.window] EXCEPT !.editor = e]]
<1>1. PICK t \in Windows : t = c.window
  OBVIOUS
<1>2. window \in [Windows -> Window]
  BY DEF CatalogInv, DeskViews
<1>3. PICK v \in Window : v = window[t]
  BY <1>2
<1>4. v.editor \in [id : 0..MaxEntries, saving : Nat] /\ v = [v EXCEPT !.editor = v.editor]
  BY DEF Window
<1>5. CASE v.editor.saving = c.n
  <2>1. PICK e : e = [v.editor EXCEPT !.saving = 0]
    OBVIOUS
  <2>2. e \in [id : 0..MaxEntries, saving : Nat]
    BY <1>4, <2>1
  <2>3. EditorFree(c) = [window EXCEPT ![t] = [v EXCEPT !.editor = e]]
    BY <1>1, <1>2, <1>3, <1>5, <2>1 DEF EditorFree
  <2> QED BY <1>1, <1>3, <2>2, <2>3
<1>6. CASE v.editor.saving # c.n
  <2>1. PICK e : e = v.editor
    OBVIOUS
  <2>2. EditorFree(c) = [window EXCEPT ![t] = [v EXCEPT !.editor = e]]
    BY <1>1, <1>2, <1>3, <1>4, <1>6, <2>1 DEF EditorFree
  <2> QED BY <1>1, <1>3, <1>4, <2>1, <2>2
<1> QED BY <1>5, <1>6

LEMMA AnsweredKeeps ==
    ASSUME CatalogInv, NEW c \in writes, ClickAnswered(c)
    PROVE  CatalogInv'
<1>0. /\ DeskRows /\ DeskWrites /\ DeskViews /\ window \in [Windows -> Window] /\ own \in [Windows -> Nat]
      /\ clicks \in Nat /\ rowChanges \in Nat /\ c \in Write /\ Sound(c)
  BY DEF CatalogInv, DeskViews, DeskRows, DeskWrites
<1>1. PICK t \in Windows : t = c.window
  BY <1>0 DEF ClickAnswered, Write
<1>2. PICK e \in [id : 0..MaxEntries, saving : Nat] :
          EditorFree(c) = [window EXCEPT ![t] = [window[t] EXCEPT !.editor = e]]
  BY <1>1, EditorFreeIs
<1>3. PICK v \in Window : v = window[t]
  BY <1>0
<1>4. PICK b \in BOOLEAN : b = (ListsOf(t) # {})
  OBVIOUS
<1>5. PICK n \in Nat : n = IF c.version > own[t] THEN c.version ELSE own[t]
  BY <1>0 DEF Write
<1>6. PICK kind \in EntryKinds : kind = v.kind
  BY DEF Window
<1>7. PICK none : none = << >>
  OBVIOUS
<1> DEFINE d == [v EXCEPT !.editor = e, !.outrun = b]
           l == [n |-> clicks + 1, window |-> t, kind |-> kind, read |-> FALSE, rows |-> none,
                 version |-> 0]
<1>8. /\ writes' = writes \ {c} /\ own' = [own EXCEPT ![t] = n]
      /\ clicks' = clicks + 1 /\ lists' = lists \cup {l}
      /\ window' = [EditorFree(c) EXCEPT ![t].outrun = b]
      /\ UNCHANGED rowState
  BY <1>1, <1>3, <1>4, <1>5, <1>6, <1>7 DEF ClickAnswered, LoadsAgain, reload
<1>9. window' = [window EXCEPT ![t] = d]
  BY <1>0, <1>2, <1>3, <1>8
<1>10. none \in Listed2 /\ Fits(none, kind)
  BY <1>7, NoRowsIs DEF Fits
<1>11. l \in LoadOfList /\ l.window = t /\ l.kind = kind /\ ~l.read /\ l.rows = none
  BY <1>0, <1>10 DEF LoadOfList
<1>12. d \in Window /\ d.kind = kind /\ d.rows = v.rows /\ d.outrun = b
  BY <1>6 DEF Window
<1> HIDE DEF d, l
<1>13. window'[t] = d /\ own'[t] = n /\ own' \in [Windows -> Nat] /\ \A u \in Windows \ {t} : own'[u] = own[u]
  BY <1>0, <1>8, <1>9
<1>14. ListsOf(t)' = ListsOf(t) \cup {l}
  BY <1>8, <1>11 DEF ListsOf
<1>15. Follows(t)'
  <2>1. rowChanges' = rowChanges
    BY <1>0, <1>8, SameRows
  <2>2. n <= rowChanges
    BY <1>0, <1>5 DEF Sound, DeskViews, Follows, Write
  <2>3. ~d.outrun => ListsOf(t)' = {l}
    BY <1>4, <1>12, <1>14
  <2> QED BY <2>1, <2>2, <2>3, <1>11, <1>13 DEF Follows
<1>16. DeskViews'
  <2>1. \A x \in lists' : x.window = t => x \in LoadOfList /\ x.kind = d.kind /\ Fits(x.rows, x.kind)
    BY <1>0, <1>3, <1>6, <1>8, <1>10, <1>11, <1>12 DEF DeskViews
  <2>2. \A x : x.window # t => (x \in lists' <=> x \in lists)
    BY <1>8, <1>11
  <2>3. clicks' \in Nat /\ Fits(d.rows, d.kind)
    BY <1>0, <1>3, <1>6, <1>8, <1>12 DEF DeskViews
  <2> QED BY <2>1, <2>2, <2>3, <1>8, <1>9, <1>12, <1>13, <1>15, ViewMoves
<1> QED BY <1>8, <1>16, WritesMove DEF CatalogInv

LEMMA FailsKeeps ==
    ASSUME CatalogInv, NEW c \in writes, ClickFails(c)
    PROVE  CatalogInv'
<1>0. c \in Write /\ Sound(c) /\ clicks \in Nat
  BY DEF CatalogInv, DeskViews, DeskWrites
<1>1. PICK t \in Windows : t = c.window
  BY <1>0 DEF ClickFails, Write
<1>2. PICK e \in [id : 0..MaxEntries, saving : Nat] :
          EditorFree(c) = [window EXCEPT ![t] = [window[t] EXCEPT !.editor = e]]
  BY <1>1, EditorFreeIs
<1>3. UNCHANGED <<rowState, lists, own>> /\ clicks' \in Nat
      /\ window' = [window EXCEPT ![t] = [window[t] EXCEPT !.editor = e]]
  BY <1>0, <1>2 DEF ClickFails
<1>4. PICK w : w = NoWindow
  OBVIOUS
<1>5. [c EXCEPT !.window = w] \in Write /\ Sound([c EXCEPT !.window = w])
  BY <1>0, <1>4, Unwatched
<1>6. \A x \in writes' : x \in writes \/ x = [c EXCEPT !.window = w]
  BY <1>4 DEF ClickFails, Turn, With
<1>7. \A x \in writes' : x \in writes \/ (x \in Write /\ Sound(x))
  BY <1>5, <1>6
<1>8. DeskViews'
  BY <1>2, <1>3, EditorMoves
<1> QED BY <1>3, <1>7, <1>8, WritesMove DEF CatalogInv

-----------------------------------------------------------------------------
(* The server *)

(* A request that goes on, or fails, before it writes. *)
LEMMA TurnKeeps ==
    ASSUME CatalogInv, NEW c \in writes, NEW d \in Write, Sound(d), Turn(c, d),
           UNCHANGED <<rowState, pageState>>
    PROVE  CatalogInv'
<1>1. UNCHANGED <<window, lists, clicks, own>> /\ clicks \in Nat
  BY DEF pageState, CatalogInv, DeskViews
<1>2. \A x \in writes' : x \in writes \/ (x \in Write /\ Sound(x))
  BY DEF Turn, With
<1> QED BY <1>1, <1>2, PageStays, WritesMove DEF CatalogInv

LEMMA SlugKeeps ==
    ASSUME CatalogInv, NEW c \in writes, FindSlug(c)
    PROVE  CatalogInv'
<1>0. c \in Write /\ Sound(c) /\ DeskRows /\ c.op = "create"
  BY DEF CatalogInv, DeskWrites, FindSlug
<1>1. PICK s : s = uniqueSlugIn(c.kind, c.columns.words)
  OBVIOUS
<1>2. s \in SlugOf \ SlugsIn(c.kind)
  <2>1. c.columns.words \in Words
    BY <1>0 DEF Sound, JustWords
  <2> QED BY <1>0, <1>1, <2>1, SlugIsFree
<1> DEFINE d == [c EXCEPT !.slug = s, !.at = "checked"]
<1>3. /\ d \in Write /\ d.op = c.op /\ d.columns = c.columns /\ d.id = c.id /\ d.kind = c.kind
      /\ d.version = c.version /\ d.at = "checked" /\ d.slug = s
  BY <1>0, <1>2 DEF Write
<1>4. Turn(c, d) /\ UNCHANGED <<rowState, pageState>>
  BY <1>1 DEF FindSlug
<1> HIDE DEF d
<1>5. Sound(d)
  BY <1>0, <1>2, <1>3 DEF Sound
<1> QED BY <1>3, <1>4, <1>5, TurnKeeps

LEMMA RefusedKeeps ==
    ASSUME CatalogInv, NEW c \in writes, c.op # "create", Fails(c), UNCHANGED pageState
    PROVE  CatalogInv'
<1>0. c \in Write /\ Sound(c)
  BY DEF CatalogInv, DeskWrites
<1> DEFINE d == [c EXCEPT !.at = "error"]
<1>1. /\ d \in Write /\ d.op = c.op /\ d.columns = c.columns /\ d.id = c.id /\ d.kind = c.kind
      /\ d.version = c.version /\ d.at = "error"
  BY <1>0 DEF Write
<1>2. Turn(c, d) /\ UNCHANGED <<rowState, pageState>>
  BY DEF Fails
<1> HIDE DEF d
<1>3. Sound(d)
  BY <1>0, <1>1 DEF Sound
<1> QED BY <1>1, <1>2, <1>3, TurnKeeps

LEMMA FoundKeeps ==
    ASSUME CatalogInv, NEW c \in writes, FindDeleted(c)
    PROVE  CatalogInv'
<1>0. c \in Write /\ Sound(c) /\ DeskRows /\ c.op = "delete" /\ UNCHANGED pageState
  BY DEF CatalogInv, DeskWrites, FindDeleted
<1>1. CASE DeleteRefused(c)
  BY <1>0, <1>1, RefusedKeeps DEF FindDeleted
<1>2. CASE ~DeleteRefused(c)
  <2> DEFINE d == [c EXCEPT !.at = "checked"]
  <2>1. /\ d \in Write /\ d.op = c.op /\ d.columns = c.columns /\ d.id = c.id /\ d.kind = c.kind
        /\ d.version = c.version /\ d.at = "checked"
    BY <1>0 DEF Write
  <2>2. Turn(c, d) /\ UNCHANGED <<rowState, pageState>>
    BY <1>2 DEF FindDeleted
  <2> HIDE DEF d
  <2>3. OfBrand(c.id) = {}
    <3>1. OfKind(c.id, c.kind) /\ c.kind \in EntryKinds /\ c.id # 0
      BY <1>0 DEF Sound, Write, OfKind
    <3>2. CASE c.kind = "brand"
      BY <3>2, <1>2 DEF DeleteRefused
    <3>3. CASE c.kind # "brand"
      BY <3>1, <3>3, <1>0 DEF OfBrand, DeskRows, OfKind
    <3> QED BY <3>2, <3>3
  <2>4. Sound(d)
    BY <1>0, <2>1, <2>3 DEF Sound
  <2> QED BY <2>1, <2>2, <2>4, TurnKeeps
<1> QED BY <1>1, <1>2

(* A row is written, and what requests and windows know of the others holds. *)
LEMMA RowsChange ==
    ASSUME CatalogInv, NEW c \in writes, Succeeds(c), UNCHANGED <<pageState, deskRaced>>,
           \A i \in 1..entries : i \in 1..entries' /\ entry'[i].kind = entry[i].kind,
           \A kind, s : s \in SlugsIn(kind)' /\ s \notin SlugsIn(kind) =>
               c.op = "create" /\ kind = c.kind /\ s = c.slug,
           \A g \in Goods : brandOf'[g] \in {brandOf[g], 0}
    PROVE  DeskWrites' /\ DeskViews'
<1>0. /\ DeskRows /\ DeskWrites /\ DeskViews /\ rowChanges \in Nat /\ c \in Write /\ Sound(c)
      /\ UNCHANGED <<window, lists, clicks, own>>
  BY DEF CatalogInv, DeskRows, DeskWrites, pageState
<1>1. PICK v \in Nat : v = rowChanges + 1
  BY <1>0
<1>2. /\ rowChanges' = v
      /\ writes' = {[d EXCEPT !.cause = @ \/ TakesSlug(c, d)] : d \in writes \ {c}}
                   \cup With([c EXCEPT !.at = "ok", !.version = v])
  BY <1>1 DEF Succeeds
<1>3. \A i, kind : OfKind(i, kind) => OfKind(i, kind)'
  BY DEF OfKind
<1>4. ASSUME NEW d \in writes \ {c}, NEW x, x = [d EXCEPT !.cause = @ \/ TakesSlug(c, d)]
      PROVE  x \in Write /\ Sound(x)'
  <2>1. d \in Write /\ Sound(d)
    BY <1>0 DEF DeskWrites
  <2>2. PICK b \in BOOLEAN : b = (d.cause \/ TakesSlug(c, d))
    BY DEF TakesSlug
  <2>3. x = [d EXCEPT !.cause = b]
    BY <1>4, <2>2
  <2>4. /\ x \in Write /\ x.op = d.op /\ x.columns = d.columns /\ x.id = d.id /\ x.kind = d.kind
        /\ x.version = d.version /\ x.at = d.at /\ x.cause = b /\ x.slug = d.slug
    BY <2>1, <2>3 DEF Write
  <2>5. x.version <= v
    BY <1>0, <1>1, <2>1, <2>4 DEF Sound, Write
  <2>6. x.op = "create" /\ x.at = "checked" /\ ~x.cause => x.slug \notin SlugsIn(x.kind)'
    <3>1. SUFFICES ASSUME d.op = "create", d.at = "checked", ~b, d.slug \in SlugsIn(d.kind)'
                   PROVE  FALSE
      BY <2>4
    <3>2. d.slug \notin SlugsIn(d.kind)
      BY <3>1, <2>1, <2>2 DEF Sound
    <3>3. TakesSlug(c, d)
      BY <3>1, <3>2 DEF TakesSlug
    <3> QED BY <3>1, <3>3, <2>2
  <2>7. x.op = "delete" /\ x.at = "checked" /\ ~deskRaced' => OfBrand(x.id)' = {}
    <3>1. SUFFICES ASSUME d.op = "delete", d.at = "checked", ~deskRaced PROVE OfBrand(d.id)' = {}
      BY <2>4
    <3>2. OfBrand(d.id) = {} /\ d.id # 0
      BY <3>1, <2>1 DEF Sound, OfKind
    <3> QED BY <3>2 DEF OfBrand
  <2>8. x.op = "create" /\ x.at = "error" => x.cause
    BY <2>1, <2>2, <2>4 DEF Sound
  <2>9. /\ x.op = "create" => x.columns \in JustWords
        /\ x.op = "update" => x.columns \in JustWords \cup JustFlag
        /\ x.op # "create" => OfKind(x.id, x.kind)'
    BY <2>1, <2>4, <1>3 DEF Sound
  <2> QED BY <2>4, <2>5, <2>6, <2>7, <2>8, <2>9, <1>2 DEF Sound
<1>5. ASSUME NEW x, x = [c EXCEPT !.at = "ok", !.version = v]
      PROVE  x \in Write /\ Sound(x)'
  <2>1. /\ x \in Write /\ x.op = c.op /\ x.columns = c.columns /\ x.id = c.id /\ x.kind = c.kind
        /\ x.version = v /\ x.at = "ok"
    BY <1>0, <1>5 DEF Write
  <2> QED BY <2>1, <1>0, <1>2, <1>3 DEF Sound
<1>6. DeskWrites'
  <2>1. \A x \in writes' : x \in Write /\ Sound(x)'
    BY <1>2, <1>4, <1>5 DEF With
  <2> QED BY <2>1 DEF DeskWrites
<1>7. \A rows, kind : Fits(rows, kind) => Fits(rows, kind)'
  BY <1>3 DEF Fits
<1>8. \A t \in Windows : Follows(t)'
  <2> SUFFICES ASSUME NEW t \in Windows PROVE Follows(t)'
    OBVIOUS
  <2>1. Follows(t) /\ own[t] \in Nat
    BY <1>0 DEF DeskViews
  <2> QED BY <2>1, <1>0, <1>1, <1>2 DEF Follows, ListsOf
<1>9. \A t \in Windows : (Fits(window[t].rows, window[t].kind))'
  BY <1>0, <1>7 DEF DeskViews, Fits
<1>10. \A l \in lists : Fits(l.rows, l.kind)'
  BY <1>0, <1>7 DEF DeskViews
<1> QED BY <1>0, <1>6, <1>8, <1>9, <1>10 DEF DeskViews

LEMMA CreatedKeeps ==
    ASSUME CatalogInv, NEW c \in writes, CreateEntry(c)
    PROVE  CatalogInv'
<1>0. /\ DeskRows /\ c \in Write /\ Sound(c) /\ c.op = "create" /\ c.at = "checked" /\ UNCHANGED pageState
      /\ entry \in [EntryIds -> Entry] /\ said \in [EntryIds -> EntryColumns]
  BY DEF CatalogInv, DeskRows, DeskWrites, CreateEntry
<1>1. CASE c.slug \in SlugsIn(c.kind) \/ NameTaken(c)
  <2>1. PICK b \in BOOLEAN : b = (c.cause \/ NameTaken(c))
    BY <1>0 DEF NameTaken, Write
  <2> DEFINE d == [c EXCEPT !.at = "error", !.cause = b]
  <2>2. /\ d \in Write /\ d.op = c.op /\ d.columns = c.columns /\ d.id = c.id /\ d.kind = c.kind
        /\ d.version = c.version /\ d.at = "error" /\ d.cause = b
    BY <1>0 DEF Write
  <2>3. Turn(c, d) /\ UNCHANGED <<rowState, pageState>>
    BY <1>1, <2>1 DEF CreateEntry
  <2> HIDE DEF d
  <2>4. b
    BY <1>0, <1>1, <2>1 DEF Sound
  <2>5. Sound(d)
    BY <1>0, <2>2, <2>4 DEF Sound
  <2> QED BY <2>2, <2>3, <2>5, TurnKeeps
<1>2. CASE ~(c.slug \in SlugsIn(c.kind) \/ NameTaken(c))
  <2>1. PICK n : n = entries + 1
    OBVIOUS
  <2>2. PICK w \in Words : w = c.columns.words
    BY <1>0 DEF Sound, JustWords
  <2>3. PICK columns \in EntryColumns : columns = NewColumns(w)
    BY DEF NewColumns, EntryColumns
  <2> DEFINE new == [there |-> TRUE, kind |-> c.kind, slug |-> c.slug, columns |-> columns]
  <2>4. /\ entries < MaxEntries /\ entries' = n
        /\ entry' = [entry EXCEPT ![n] = new] /\ said' = [said EXCEPT ![n] = columns]
        /\ Succeeds(c) /\ UNCHANGED <<brandOf, given, deskRaced>>
    BY <1>2, <2>1, <2>2, <2>3 DEF CreateEntry
  <2>5. new \in Entry /\ new.kind = c.kind /\ new.slug = c.slug /\ new.columns = columns
    BY <1>0 DEF Entry, Write
  <2> HIDE DEF new
  <2>6. n \in EntryIds /\ n \notin 1..entries /\ \A i : i \in 1..n <=> i = n \/ i \in 1..entries
    BY <1>0, <2>1, <2>4, CatalogDeskAssumption DEF DeskRows, EntryIds
  <2>7. /\ entry' \in [EntryIds -> Entry] /\ \A i \in EntryIds : entry'[i] = IF i = n THEN new ELSE entry[i]
        /\ said' \in [EntryIds -> EntryColumns] /\ \A i \in EntryIds : said'[i] = IF i = n THEN columns ELSE said[i]
    BY <1>0, <2>4, <2>5
  <2>8. 1..entries \subseteq EntryIds
    BY <1>0, CatalogDeskAssumption DEF DeskRows, EntryIds
  <2>9. \A i \in 1..entries : i \in 1..entries' /\ entry'[i] = entry[i] /\ said'[i] = said[i]
    BY <2>4, <2>6, <2>7, <2>8
  <2>10. \A i \in Stored' : i \in Stored \/ i = n
    BY <2>4, <2>6, <2>9 DEF Stored
  <2>11. \A kind, s : s \in SlugsIn(kind)' /\ s \notin SlugsIn(kind) =>
              c.op = "create" /\ kind = c.kind /\ s = c.slug
    <3> SUFFICES ASSUME NEW kind, NEW s, s \in SlugsIn(kind)', s \notin SlugsIn(kind)
                 PROVE  kind = c.kind /\ s = c.slug
      BY <1>0
    <3>1. PICK i \in Stored' : entry'[i].kind = kind /\ entry'[i].slug = s
      BY DEF SlugsIn, Table
    <3>2. i \notin Stored
      BY <3>1, <2>9 DEF SlugsIn, Table, Stored
    <3> QED BY <3>1, <3>2, <2>5, <2>6, <2>7, <2>10
  <2>12. DeskRows'
    <3>1. entries' \in EntryIds /\ rowChanges' \in Nat
      BY <1>0, <2>4, <2>6 DEF DeskRows, Succeeds
    <3>2. \A g \in Goods : brandOf'[g] # 0 => OfKind(brandOf[g], "brand")'
      BY <1>0, <2>4, <2>9 DEF DeskRows, OfKind
    <3>3. ColumnsAsSaid'
      BY <1>0, <2>5, <2>6, <2>7, <2>9, <2>10 DEF ColumnsAsSaid, DeskRows, Stored
    <3>4. BrandsStay'
      BY <1>0, <2>4 DEF BrandsStay, DeskRows
    <3> QED BY <3>1, <3>2, <3>3, <3>4, <1>0, <2>4, <2>7 DEF DeskRows
  <2>13. DeskWrites' /\ DeskViews'
    BY <1>0, <2>4, <2>9, <2>11, RowsChange
  <2> QED BY <2>12, <2>13 DEF CatalogInv
<1> QED BY <1>1, <1>2

LEMMA UpdatedKeeps ==
    ASSUME CatalogInv, NEW c \in writes, UpdateEntry(c)
    PROVE  CatalogInv'
<1>0. /\ DeskRows /\ c \in Write /\ Sound(c) /\ c.op = "update" /\ UNCHANGED pageState
      /\ entry \in [EntryIds -> Entry] /\ said \in [EntryIds -> EntryColumns]
  BY DEF CatalogInv, DeskRows, DeskWrites, UpdateEntry
<1>1. CASE c.id \notin Stored
  BY <1>0, <1>1, RefusedKeeps DEF UpdateEntry
<1>2. CASE c.id \in Stored
  <2>1. PICK i : i = c.id
    OBVIOUS
  <2>2. /\ i \in Stored /\ i \in EntryIds /\ entry[i] \in Entry /\ said[i] = entry[i].columns
        /\ entry[i].columns \in EntryColumns
    BY <1>0, <1>2, <2>1, CatalogDeskAssumption DEF DeskRows, EntryIds, Stored, ColumnsAsSaid, Entry
  <2>3. PICK columns : columns = Patched(entry[i].columns, c.columns)
    OBVIOUS
  <2>4. /\ columns \in EntryColumns
        /\ "words" \in DOMAIN c.columns => columns = [said[i] EXCEPT !.words = c.columns.words]
    BY <1>0, <2>2, <2>3, PatchedIs DEF Sound
  <2> DEFINE new == [entry[i] EXCEPT !.columns = columns]
  <2>5. /\ entry' = [entry EXCEPT ![i] = new] /\ Succeeds(c)
        /\ UNCHANGED <<entries, brandOf, given, deskRaced>>
    BY <1>0, <1>2, <2>1, <2>2, <2>3 DEF UpdateEntry
  <2>6. said' = [said EXCEPT ![i] = columns]
    <3>1. CASE "words" \in DOMAIN c.columns
      <4>1. said' = [said EXCEPT ![i].words = c.columns.words]
        BY <3>1, <1>2, <2>1 DEF UpdateEntry
      <4> QED BY <4>1, <3>1, <1>0, <2>2, <2>4
    <3>2. CASE "words" \notin DOMAIN c.columns
      <4>1. said' = [said EXCEPT ![i] = Patched(said[i], c.columns)]
        BY <3>2, <1>0, <1>2, <2>1, <2>2 DEF UpdateEntry
      <4> QED BY <4>1, <2>2, <2>3
    <3> QED BY <3>1, <3>2
  <2>7. /\ new \in Entry /\ new.there = entry[i].there /\ new.kind = entry[i].kind
        /\ new.slug = entry[i].slug /\ new.columns = columns
    BY <2>2, <2>4 DEF Entry
  <2> HIDE DEF new
  <2>8. /\ entry' \in [EntryIds -> Entry] /\ \A j \in EntryIds : entry'[j] = IF j = i THEN new ELSE entry[j]
        /\ said' \in [EntryIds -> EntryColumns] /\ \A j \in EntryIds : said'[j] = IF j = i THEN columns ELSE said[j]
    BY <1>0, <2>2, <2>4, <2>5, <2>6, <2>7
  <2>9. 1..entries \subseteq EntryIds
    BY <1>0, CatalogDeskAssumption DEF DeskRows, EntryIds
  <2>10. \A j \in 1..entries : /\ j \in 1..entries' /\ entry'[j].kind = entry[j].kind
                               /\ entry'[j].slug = entry[j].slug /\ entry'[j].there = entry[j].there
    BY <2>5, <2>7, <2>8, <2>9
  <2>11. Stored' = Stored
    BY <2>5, <2>10 DEF Stored
  <2>12. \A kind : SlugsIn(kind)' = SlugsIn(kind)
    <3>1. \A kind : Table(kind)' = Table(kind)
      BY <2>10, <2>11 DEF Table, Stored
    <3> QED BY <3>1, <2>10 DEF SlugsIn, Table, Stored
  <2>13. DeskRows'
    <3>1. entries' \in EntryIds /\ rowChanges' \in Nat
      BY <1>0, <2>5 DEF DeskRows, Succeeds
    <3>2. \A g \in Goods : brandOf'[g] # 0 => OfKind(brandOf[g], "brand")'
      BY <1>0, <2>5, <2>10 DEF DeskRows, OfKind
    <3>3. ColumnsAsSaid'
      BY <1>0, <2>7, <2>8, <2>9, <2>11 DEF ColumnsAsSaid, DeskRows, Stored
    <3>4. BrandsStay'
      BY <1>0, <2>5 DEF BrandsStay, DeskRows
    <3> QED BY <3>1, <3>2, <3>3, <3>4, <1>0, <2>5, <2>8 DEF DeskRows
  <2>14. DeskWrites' /\ DeskViews'
    BY <1>0, <2>5, <2>10, <2>12, RowsChange
  <2> QED BY <2>13, <2>14 DEF CatalogInv
<1> QED BY <1>1, <1>2

LEMMA DeletedKeeps ==
    ASSUME CatalogInv, NEW c \in writes, DeleteEntry(c)
    PROVE  CatalogInv'
<1>0. /\ DeskRows /\ c \in Write /\ Sound(c) /\ c.op = "delete" /\ c.at = "checked" /\ UNCHANGED pageState
      /\ entry \in [EntryIds -> Entry] /\ brandOf \in [Goods -> EntryIds \cup {0}]
  BY DEF CatalogInv, DeskRows, DeskWrites, DeleteEntry
<1>1. CASE c.id \notin Stored
  BY <1>0, <1>1, RefusedKeeps DEF DeleteEntry
<1>2. CASE c.id \in Stored
  <2>1. PICK i : i = c.id
    OBVIOUS
  <2>2. i \in Stored /\ i \in EntryIds /\ entry[i] \in Entry
    BY <1>0, <1>2, <2>1, CatalogDeskAssumption DEF DeskRows, EntryIds, Stored
  <2> DEFINE new == [entry[i] EXCEPT !.there = FALSE]
  <2>3. /\ entry' = [entry EXCEPT ![i] = new] /\ Succeeds(c)
        /\ brandOf' = [g \in Goods |-> IF brandOf[g] = i THEN 0 ELSE brandOf[g]]
        /\ UNCHANGED <<entries, said, given, deskRaced>>
    BY <1>0, <1>2, <2>1, <2>2 DEF DeleteEntry
  <2>4. new \in Entry /\ ~new.there /\ new.kind = entry[i].kind /\ new.slug = entry[i].slug
    BY <2>2 DEF Entry
  <2> HIDE DEF new
  <2>5. entry' \in [EntryIds -> Entry] /\ \A j \in EntryIds : entry'[j] = IF j = i THEN new ELSE entry[j]
    BY <1>0, <2>2, <2>3, <2>4
  <2>6. 1..entries \subseteq EntryIds
    BY <1>0, CatalogDeskAssumption DEF DeskRows, EntryIds
  <2>7. \A j \in 1..entries : /\ j \in 1..entries' /\ entry'[j].kind = entry[j].kind
                              /\ entry'[j].slug = entry[j].slug
                              /\ entry'[j].there => entry[j].there /\ entry'[j] = entry[j]
    BY <2>3, <2>4, <2>5, <2>6
  <2>8. \A j \in Stored' : j \in Stored /\ entry'[j] = entry[j]
    BY <2>3, <2>7 DEF Stored
  <2>9. \A kind, s : s \in SlugsIn(kind)' => s \in SlugsIn(kind)
    BY <2>8 DEF SlugsIn, Table
  <2>10. \A g \in Goods : brandOf'[g] \in {brandOf[g], 0}
    BY <2>3
  <2>11. DeskRows'
    <3>1. entries' \in EntryIds /\ rowChanges' \in Nat /\ brandOf' \in [Goods -> EntryIds \cup {0}]
      BY <1>0, <2>3 DEF DeskRows, Succeeds
    <3>2. \A g \in Goods : brandOf'[g] # 0 => (OfKind(brandOf[g], "brand"))'
      BY <1>0, <2>3, <2>7, <2>10 DEF DeskRows, OfKind
    <3>3. ColumnsAsSaid'
      BY <1>0, <2>3, <2>8 DEF ColumnsAsSaid, DeskRows
    <3>4. BrandsStay'
      <4>1. ~deskRaced => OfBrand(i) = {}
        BY <1>0, <2>1 DEF Sound
      <4>2. ~deskRaced => brandOf' = brandOf
        BY <4>1, <1>0, <2>3 DEF OfBrand
      <4> QED BY <4>2, <1>0, <2>3 DEF BrandsStay, DeskRows
    <3> QED BY <3>1, <3>2, <3>3, <3>4, <1>0, <2>3, <2>5 DEF DeskRows
  <2>12. DeskWrites' /\ DeskViews'
    BY <1>0, <2>3, <2>7, <2>9, <2>10, RowsChange
  <2> QED BY <2>11, <2>12 DEF CatalogInv
<1> QED BY <1>1, <1>2

(* A product gets a brand; a deletion that had found none knows of the race. *)
LEMMA GivenKeeps ==
    ASSUME CatalogInv, NEW g \in Goods, NEW i \in EntryIds \cup {0}, GiveBrand(g, i)
    PROVE  CatalogInv'
<1>0. /\ DeskRows /\ DeskWrites /\ DeskViews /\ clicks \in Nat
      /\ brandOf \in [Goods -> EntryIds \cup {0}] /\ given \in [Goods -> EntryIds \cup {0}]
  BY DEF CatalogInv, DeskRows, DeskViews
<1>1. /\ i \in Table("brand") \cup {0}
      /\ brandOf' = [brandOf EXCEPT ![g] = i] /\ given' = [given EXCEPT ![g] = i]
      /\ deskRaced' = (deskRaced \/ \E c \in writes : c.op = "delete" /\ c.at = "checked" /\ c.id = i)
      /\ UNCHANGED <<entry, entries, rowChanges, said, window, writes, lists, clicks, own>>
  BY DEF GiveBrand
<1>2. \A j, kind : OfKind(j, kind)' = OfKind(j, kind)
  BY <1>1 DEF OfKind
<1>3. DeskRows'
  <2>1. /\ brandOf' \in [Goods -> EntryIds \cup {0}] /\ given' \in [Goods -> EntryIds \cup {0}]
        /\ deskRaced' \in BOOLEAN
    BY <1>0, <1>1 DEF DeskRows
  <2>2. i # 0 => OfKind(i, "brand")
    BY <1>1 DEF Table, Stored, OfKind
  <2>3. \A h \in Goods : brandOf'[h] # 0 => (OfKind(brandOf[h], "brand"))'
    <3> SUFFICES ASSUME NEW h \in Goods, brandOf'[h] # 0 PROVE (OfKind(brandOf[h], "brand"))'
      OBVIOUS
    <3>1. PICK j : j = brandOf'[h]
      OBVIOUS
    <3>2. OfKind(j, "brand")
      BY <3>1, <1>0, <1>1, <2>2 DEF DeskRows
    <3> QED BY <3>1, <3>2, <1>1 DEF OfKind
  <2>4. ColumnsAsSaid'
    BY <1>0, <1>1 DEF DeskRows, ColumnsAsSaid, Stored
  <2>5. BrandsStay'
    BY <1>0, <1>1 DEF DeskRows, BrandsStay
  <2> QED BY <2>1, <2>3, <2>4, <2>5, <1>0, <1>1 DEF DeskRows
<1>4. DeskWrites'
  <2> SUFFICES ASSUME NEW c \in writes PROVE c \in Write /\ Sound(c)'
    BY <1>1 DEF DeskWrites
  <2>1. c \in Write /\ Sound(c)
    BY <1>0 DEF DeskWrites
  <2>2. SlugsIn(c.kind)' = SlugsIn(c.kind)
    BY <1>1 DEF SlugsIn, Table, Stored
  <2>3. c.op = "delete" /\ c.at = "checked" /\ ~deskRaced' => OfBrand(c.id)' = {}
    <3>1. SUFFICES ASSUME c.op = "delete", c.at = "checked", ~deskRaced' PROVE OfBrand(c.id)' = {}
      OBVIOUS
    <3>2. ~deskRaced /\ c.id # i /\ OfBrand(c.id) = {}
      BY <3>1, <1>1, <2>1 DEF Sound
    <3> QED BY <3>2, <1>0, <1>1 DEF OfBrand
  <2> QED BY <2>1, <2>2, <2>3, <1>1, <1>2 DEF Sound
<1>5. DeskViews'
  <2>1. \A rows, kind : Fits(rows, kind)' = Fits(rows, kind)
    BY <1>2 DEF Fits
  <2>2. \A t \in Windows : Follows(t)' = Follows(t)
    BY <1>1 DEF Follows, ListsOf
  <2>3. \A l \in lists : Fits(l.rows, l.kind)'
    BY <1>0, <2>1 DEF DeskViews
  <2>4. \A t \in Windows : (Fits(window[t].rows, window[t].kind))'
    BY <1>0, <1>1, <2>1 DEF DeskViews, Fits
  <2> QED BY <1>0, <1>1, <2>2, <2>3, <2>4 DEF DeskViews
<1> QED BY <1>3, <1>4, <1>5 DEF CatalogInv

LEMMA CatalogStarts == PageInit => CatalogInv
<1> SUFFICES ASSUME PageInit PROVE CatalogInv
  OBVIOUS
<1>1. PICK w \in Words, first \in EntryKinds, kind \in [Windows -> EntryKinds], brands \in [Goods -> {0, 1}] :
        /\ \A g \in Goods : brands[g] = 1 => first = "brand"
        /\ entry = [i \in EntryIds |-> [there |-> i = 1, kind |-> first, slug |-> <<w, 1>>,
                                        columns |-> NewColumns(w)]]
        /\ entries = 1
        /\ brandOf = brands /\ given = brands
        /\ window = [t \in Windows |->
                        [kind |-> kind[t], editor |-> Editor(0), failed |-> FALSE, version |-> 0,
                         outrun |-> FALSE,
                         rows |-> [i \in (IF kind[t] = first THEN {1} ELSE {}) |-> NewColumns(w)]]]
        /\ writes = {} /\ lists = {}
        /\ clicks = 0 /\ missed = 0 /\ givings = 0
        /\ rowChanges = 0 /\ own = [t \in Windows |-> 0]
        /\ said = [i \in EntryIds |-> NewColumns(w)]
        /\ deskRaced = FALSE
  BY DEF PageInit
<1>2. PICK columns \in EntryColumns : columns = NewColumns(w)
  BY DEF NewColumns, EntryColumns
<1>3. PICK s \in SlugOf : s = <<w, 1>>
  BY FirstSlug
<1>4. PICK e \in [id : 0..MaxEntries, saving : Nat] : e = Editor(0)
  BY EditorIs, CatalogDeskAssumption
<1>5. 1 \in EntryIds /\ 0 \notin EntryIds
  BY CatalogDeskAssumption DEF EntryIds
<1>6. /\ entry \in [EntryIds -> Entry]
      /\ \A i \in EntryIds : entry[i].kind = first /\ entry[i].columns = columns /\ said[i] = columns
  <2> DEFINE new(i) == [there |-> i = 1, kind |-> first, slug |-> s, columns |-> columns]
  <2>1. \A i : new(i) \in Entry /\ new(i).kind = first /\ new(i).columns = columns
    BY DEF Entry
  <2>2. entry = [i \in EntryIds |-> new(i)] /\ said = [i \in EntryIds |-> columns]
    BY <1>1, <1>2, <1>3
  <2> HIDE DEF new
  <2> QED BY <2>1, <2>2
<1>7. DeskRows
  <2>1. brandOf \in [Goods -> EntryIds \cup {0}] /\ given = brandOf
    BY <1>1, <1>5
  <2>2. \A g \in Goods : brandOf[g] # 0 => OfKind(brandOf[g], "brand")
    BY <1>1, <1>5, <1>6 DEF OfKind
  <2>3. said \in [EntryIds -> EntryColumns]
    BY <1>1, <1>2
  <2>4. ColumnsAsSaid
    BY <1>1, <1>5, <1>6 DEF ColumnsAsSaid, Stored
  <2>5. entries \in EntryIds /\ rowChanges \in Nat /\ deskRaced \in BOOLEAN /\ BrandsStay
    BY <1>1, <1>5 DEF BrandsStay
  <2> QED BY <2>1, <2>2, <2>3, <2>4, <2>5, <1>6 DEF DeskRows
<1>8. DeskWrites
  BY <1>1 DEF DeskWrites
<1>9. ASSUME NEW t \in Windows
      PROVE  /\ window[t] \in Window /\ Fits(window[t].rows, window[t].kind)
             /\ ~window[t].outrun /\ window[t].version = 0
  <2>1. PICK S \in SUBSET EntryIds : S = IF kind[t] = first THEN {1} ELSE {}
    BY <1>5
  <2>2. PICK rows : rows = [i \in S |-> columns]
    OBVIOUS
  <2>3. rows \in Listed2 /\ DOMAIN rows = S
    BY <2>2 DEF Listed2
  <2>4. PICK k \in EntryKinds : k = kind[t]
    BY <1>1
  <2>5. window[t] = [kind |-> k, editor |-> e, failed |-> FALSE, version |-> 0, outrun |-> FALSE,
                     rows |-> rows]
    BY <1>1, <1>2, <1>4, <2>1, <2>2, <2>4
  <2>6. /\ window[t] \in Window /\ window[t].rows = rows /\ window[t].kind = k
        /\ ~window[t].outrun /\ window[t].version = 0
    BY <2>3, <2>5 DEF Window
  <2> QED BY <2>1, <2>3, <2>4, <2>6, <1>1, <1>5, <1>6 DEF Fits, OfKind
<1>10. DeskViews
  <2>1. \A t \in Windows : Follows(t)
    BY <1>1, <1>9 DEF Follows, ListsOf
  <2>2. window \in [Windows -> Window]
    <3>1. window = [t \in Windows |-> window[t]]
      BY <1>1
    <3> QED BY <3>1, <1>9
  <2> QED BY <2>1, <2>2, <1>1, <1>9 DEF DeskViews
<1> QED BY <1>7, <1>8, <1>10 DEF CatalogInv

LEMMA CatalogSteps == CatalogInv /\ [PageNext]_pageVars => CatalogInv'
<1> SUFFICES ASSUME CatalogInv, [PageNext]_pageVars PROVE CatalogInv'
  OBVIOUS
<1>1. CASE UNCHANGED pageVars
  <2>1. UNCHANGED <<rowState, writes, lists, own, window>> /\ clicks' = clicks
    BY <1>1 DEF pageVars, rowState
  <2>2. clicks' \in Nat
    BY <2>1 DEF CatalogInv, DeskViews
  <2> QED BY <2>1, <2>2, PageStays, WritesMove DEF CatalogInv
<1>2. ASSUME NEW l \in lists, ReadEntries(l) \/ ListShown(l) \/ ListBreaks(l) PROVE CatalogInv'
  BY <1>2, ReadKeeps, ListEnds
<1>3. 1 \in EntryIds /\ "isFeatured" \in Flags
  BY CatalogDeskAssumption DEF EntryIds, Flags
<1>4. ASSUME NEW t \in Windows, add(t) \/ save(t) \/ (\E kind \in EntryKinds : setTab(t, kind))
      PROVE  CatalogInv'
  BY <1>3, <1>4, BrandClicksKeep, TabKeeps
<1>5. ASSUME NEW t \in Windows, NEW i \in EntryIds, PressDelete(t, i) \/ setEditing(t, i)
      PROVE  CatalogInv'
  BY <1>3, <1>5, BrandClicksKeep
<1>6. ASSUME NEW t \in Windows, NEW i \in EntryIds, NEW f \in {"isFeatured", "isActive"}, PressFlag(t, i, f)
      PROVE  CatalogInv'
  BY <1>6, BrandClicksKeep DEF Flags
<1>7. ASSUME NEW c \in writes,
             FindSlug(c) \/ CreateEntry(c) \/ UpdateEntry(c) \/ FindDeleted(c) \/ DeleteEntry(c)
      PROVE  CatalogInv'
  BY <1>7, SlugKeeps, CreatedKeeps, UpdatedKeeps, FoundKeeps, DeletedKeeps
<1>8. ASSUME NEW c \in writes, ClickAnswered(c) \/ ClickFails(c) PROVE CatalogInv'
  BY <1>8, AnsweredKeeps, FailsKeeps
<1>9. ASSUME NEW g \in Goods, NEW i \in EntryIds \cup {0}, GiveBrand(g, i) PROVE CatalogInv'
  BY <1>9, GivenKeeps
<1> QED BY <1>1, <1>2, <1>4, <1>5, <1>6, <1>7, <1>8, <1>9 DEF PageNext

LEMMA CatalogInvIs == CatalogInv => PageTypeOK /\ CatalogPageIsTrue
<1> SUFFICES ASSUME CatalogInv PROVE PageTypeOK /\ CatalogPageIsTrue
  OBVIOUS
<1>0. DeskRows /\ DeskWrites /\ DeskViews
  BY DEF CatalogInv
<1>1. PageTypeOK
  <2>1. \A i \in EntryIds : entry[i].slug \in SlugOf /\ entry[i].columns \in EntryColumns
    BY <1>0 DEF DeskRows, Entry
  <2>2. \A t \in Windows : window[t] \in Window
    BY <1>0 DEF DeskViews
  <2>3. \A t \in Windows : window[t].kind \in EntryKinds /\ window[t].editor.id \in {0} \cup EntryIds
    BY <2>2, CatalogDeskAssumption DEF Window, EntryIds
  <2>4. \A t \in Windows, i \in EntryIds :
            i \in DOMAIN window[t].rows => window[t].rows[i] \in EntryColumns
    BY RowsOfWindow
  <2>5. entries \in EntryIds /\ brandOf \in [Goods -> EntryIds \cup {0}]
    BY <1>0 DEF DeskRows
  <2> QED BY <2>1, <2>3, <2>4, <2>5 DEF PageTypeOK
<1>2. ColumnsAsSaid /\ BrandsStay
  BY <1>0 DEF DeskRows
<1>3. RefusedForCause
  BY <1>0 DEF DeskWrites, Sound, RefusedForCause
<1>4. ListsFollow
  BY <1>0 DEF DeskViews, Follows, ListsFollow
<1> QED BY <1>1, <1>2, <1>3, <1>4 DEF CatalogPageIsTrue

(* Brands, collections and the windows that show them keep their types, for *)
(* any rows, windows, requests and answers (catalog/page.tsx).              *)
THEOREM CatalogTypes == PageSpec => []PageTypeOK
<1> QED BY CatalogInvIs, CatalogStarts, CatalogSteps, PTL DEF PageSpec

(* Every column is what was last said of it, a name is refused only for a   *)
(* cause, products keep their brands but for the named race, and a window   *)
(* shows what its own requests did unless lists overtook each other or one  *)
(* failed, for any windows and requests at once (catalog/page.tsx,          *)
(* catalog-admin.service).                                                  *)
THEOREM CatalogHolds == PageSpec => []CatalogPageIsTrue
<1> QED BY CatalogInvIs, CatalogStarts, CatalogSteps, PTL DEF PageSpec

-----------------------------------------------------------------------------
(* The slides.  Rows that were never created have no place.                  *)

HeroTyped ==
    /\ position \in [SlideIds -> Nat \cup {Gone}] /\ slides \in 0 .. MaxSlides
    /\ \A i \in SlideIds : i > slides => position[i] = Gone
    /\ hero \in [Managers -> HeroRequest]
    /\ \A m \in Managers : HeroAt(m, "swap") => hero[m].pa \in Nat /\ hero[m].pb \in Nat
    /\ entangled \in BOOLEAN

(* A request that ran alone so far is the only one; and it did, unless what   *)
(* happened is remembered.                                                    *)
AloneIs ==
    \A m \in Managers : ~HeroAt(m, "idle") =>
        /\ hero[m].alone => \A n \in Managers : n # m => HeroAt(n, "idle")
        /\ ~entangled => hero[m].alone

(* The places that were read, of a row each: those written, and those left.   *)
Compact == {position[i] : i \in Slides} = 0 .. (Cardinality(Slides) - 1)
Ranks(s) == /\ s \in [1 .. Cardinality(Slides) -> Slides]
            /\ \A j, k \in 1 .. Cardinality(Slides) : j # k => s[j] # s[k]
Renumbers(m, s) ==
    /\ hero[m].left \subseteq {<<s[k], k - 1>> : k \in 1 .. Cardinality(Slides)}
    /\ \A k \in 1 .. Cardinality(Slides) : <<s[k], k - 1>> \in hero[m].left \/ position[s[k]] = k - 1

PlacesOK ==
    /\ HeroBusy = {} /\ ~entangled => Compact
    /\ \A m \in Managers :
          /\ HeroAt(m, "insert") /\ ~entangled =>
                Compact /\ (hero[m].byHand \/ hero[m].place = Cardinality(Slides))
          /\ HeroAt(m, "renumber") /\ hero[m].alone => \E s : Ranks(s) /\ Renumbers(m, s)
          /\ HeroAt(m, "swap") /\ ~entangled =>
                /\ Compact /\ hero[m].a \in Slides /\ hero[m].b \in Slides /\ hero[m].a # hero[m].b
                /\ hero[m].pa = position[hero[m].a] /\ hero[m].pb = position[hero[m].b]

HeroInv == HeroTyped /\ AloneIs /\ PlacesOK

LEMMA UpToHas ==
    ASSUME NEW n \in Nat
    PROVE  IsFiniteSet(1 .. n) /\ Cardinality(1 .. n) = n
<1> PICK a \in Int : a = 1
  OBVIOUS
<1>1. IsFiniteSet(a .. n) /\ Cardinality(a .. n) = IF a > n THEN 0 ELSE n - a + 1
  BY FS_Interval
<1> QED BY <1>1

(* The rows that are there are finitely many. *)
LEMMA SlidesFinite ==
    ASSUME HeroAssumption
    PROVE  /\ IsFiniteSet(Slides) /\ Cardinality(Slides) \in 0 .. MaxSlides
           /\ Slides \subseteq SlideIds
<1>1. IsFiniteSet(SlideIds) /\ Cardinality(SlideIds) = MaxSlides
  BY UpToHas DEF HeroAssumption, SlideIds
<1>2. Slides \in SUBSET SlideIds
  BY DEF Slides
<1>3. IsFiniteSet(Slides) /\ Cardinality(Slides) <= MaxSlides
  BY <1>1, <1>2, FS_Subset
<1> QED BY <1>2, <1>3, FS_CardinalityType DEF HeroAssumption

LEMMA HeroStarts == HeroInit => HeroInv
<1> SUFFICES ASSUME HeroInit PROVE HeroInv
  OBVIOUS
<1>0. MaxSlides \in Nat
  BY HeroAssumption DEF HeroAssumption
<1>1. NoHero \in HeroRequest /\ NoHero.at = "idle"
  BY <1>0 DEF NoHero, HeroRequest, HeroStage
<1>2. Slides = {} /\ Cardinality(Slides) = 0
  BY FS_EmptySet DEF HeroInit, Slides
<1>3. HeroTyped
  <2>1. Gone \in Nat \cup {Gone} /\ 0 \in 0 .. MaxSlides
    BY <1>0
  <2>2. position \in [SlideIds -> Nat \cup {Gone}] /\ slides \in 0 .. MaxSlides /\ entangled \in BOOLEAN
    BY <2>1 DEF HeroInit
  <2>3. hero \in [Managers -> HeroRequest] /\ \A m \in Managers : ~HeroAt(m, "swap")
    BY <1>1 DEF HeroInit, HeroAt
  <2> QED BY <2>2, <2>3 DEF HeroInit, HeroTyped
<1>4. AloneIs /\ PlacesOK
  BY <1>1, <1>2 DEF HeroInit, AloneIs, PlacesOK, HeroAt, Compact
<1> QED BY <1>3, <1>4 DEF HeroInv

(* A request begins: of others only that they ran alone is forgotten. *)
LEMMA HeroBegins ==
    ASSUME HeroInv, NEW m \in Managers, NEW asked \in HeroRequest, asked.at \in {"insert", "rest", "swap"},
           HeroBegin(m, asked)
    PROVE  /\ hero' \in [Managers -> HeroRequest] /\ entangled' \in BOOLEAN
           /\ HeroAt(m, "idle") /\ AloneIs'
           /\ hero'[m].at = asked.at /\ hero'[m].a = asked.a /\ hero'[m].b = asked.b
           /\ hero'[m].pa = asked.pa /\ hero'[m].pb = asked.pb
           /\ hero'[m].place = asked.place /\ hero'[m].byHand = asked.byHand
           /\ HeroBusy' # {} /\ (~entangled' => ~entangled /\ HeroBusy = {})
           /\ \A n \in Managers : n # m => /\ hero'[n].at = hero[n].at /\ hero'[n].pa = hero[n].pa
                                           /\ hero'[n].pb = hero[n].pb
                                           /\ hero'[n].alone => HeroAt(n, "idle")
<1> PICK b \in BOOLEAN : b <=> HeroBusy = {}
  OBVIOUS
<1>1. /\ HeroAt(m, "idle") /\ (entangled' <=> entangled \/ HeroBusy # {}) /\ entangled' \in BOOLEAN
      /\ entangled \in BOOLEAN /\ hero \in [Managers -> HeroRequest]
  BY DEF HeroBegin, HeroInv, HeroTyped
<1>2. PICK d : d = [asked EXCEPT !.alone = HeroBusy = {}]
  OBVIOUS
<1>3. /\ d \in HeroRequest /\ d.at = asked.at /\ d.a = asked.a /\ d.b = asked.b /\ d.pa = asked.pa
      /\ d.pb = asked.pb /\ d.place = asked.place /\ d.byHand = asked.byHand /\ (d.alone <=> HeroBusy = {})
  <2>1. (HeroBusy = {}) \in BOOLEAN
    OBVIOUS
  <2> QED BY <1>2, <2>1 DEF HeroRequest
<1>4. hero'[m] = d
  BY <1>2 DEF HeroBegin
<1>5. ASSUME NEW n \in Managers, n # m
      PROVE  /\ hero'[n] \in HeroRequest /\ hero'[n].at = hero[n].at /\ hero'[n].pa = hero[n].pa
             /\ hero'[n].pb = hero[n].pb /\ (hero'[n].alone <=> HeroAt(n, "idle"))
  <2>1. hero'[n] = [hero[n] EXCEPT !.alone = HeroAt(n, "idle")]
    BY <1>5 DEF HeroBegin, Overtaken
  <2>2. hero[n] \in HeroRequest /\ HeroAt(n, "idle") \in BOOLEAN
    BY <1>1 DEF HeroAt
  <2> QED BY <2>1, <2>2 DEF HeroRequest
<1>6. hero' \in [Managers -> HeroRequest]
  <2>1. hero' = [n \in Managers |-> hero'[n]]
    BY DEF HeroBegin, Overtaken
  <2> QED BY <1>3, <1>4, <1>5, <2>1
<1>7. AloneIs'
  <2>1. \A n \in Managers : n # m => (HeroAt(n, "idle")' <=> HeroAt(n, "idle"))
    BY <1>5 DEF HeroAt
  <2>2. ~HeroAt(m, "idle")'
    BY <1>3, <1>4 DEF HeroAt
  <2>3. HeroBusy = {} => \A n \in Managers : HeroAt(n, "idle")
    BY DEF HeroBusy, HeroAt
  <2>4. \A n \in Managers : ~HeroAt(n, "idle") => HeroBusy # {}
    BY DEF HeroBusy, HeroAt
  <2> QED BY <1>1, <1>3, <1>4, <1>5, <2>1, <2>2, <2>3, <2>4 DEF AloneIs
<1>8. HeroBusy' # {}
  BY <1>3, <1>4 DEF HeroBusy
<1> QED BY <1>1, <1>3, <1>4, <1>5, <1>6, <1>7, <1>8

(* A request ends. *)
LEMMA HeroEnds ==
    ASSUME HeroAssumption, HeroInv, NEW m \in Managers, ~HeroAt(m, "idle"), HeroEnd(m),
           entangled' \in BOOLEAN, entangled => entangled' \/ hero[m].alone
    PROVE  /\ hero' \in [Managers -> HeroRequest] /\ AloneIs' /\ HeroAt(m, "idle")'
           /\ \A n \in Managers : n # m => hero'[n] = hero[n]
           /\ ~entangled' \/ hero[m].alone => HeroBusy' = {}
<1>0. MaxSlides \in Nat
  BY DEF HeroAssumption
<1>1. PICK d : d = NoHero
  OBVIOUS
<1>2. d \in HeroRequest /\ d.at = "idle"
  BY <1>0, <1>1 DEF NoHero, HeroRequest, HeroStage
<1>3. hero' = [hero EXCEPT ![m] = d] /\ hero \in [Managers -> HeroRequest]
  BY <1>1 DEF HeroEnd, HeroInv, HeroTyped
<1>4. hero' \in [Managers -> HeroRequest] /\ hero'[m] = d /\ \A n \in Managers : n # m => hero'[n] = hero[n]
  BY <1>2, <1>3
<1>5. HeroAt(m, "idle")' /\ \A n \in Managers : n # m => (HeroAt(n, "idle")' <=> HeroAt(n, "idle"))
  BY <1>2, <1>4 DEF HeroAt
<1>6. ~entangled' => hero[m].alone
  BY DEF HeroInv, AloneIs
<1>7. hero[m].alone => HeroBusy' = {}
  BY <1>5 DEF HeroInv, AloneIs, HeroBusy, HeroAt
<1>8. AloneIs'
  BY <1>4, <1>5, <1>6, <1>7 DEF HeroInv, AloneIs, HeroAt, HeroBusy
<1> QED BY <1>4, <1>5, <1>6, <1>7, <1>8

(* The rows stay. *)
LEMMA SameSlides ==
    ASSUME position' = position
    PROVE  Slides' = Slides /\ (Compact' <=> Compact)
<1>1. Slides' = Slides
  BY DEF Slides
<1> QED BY <1>1 DEF Compact

(* Nobody's request. *)
LEMMA NoHeroIs ==
    ASSUME HeroAssumption
    PROVE  NoHero \in HeroRequest /\ NoHero.at = "idle" /\ NoHero.left = {}
<1>1. 0 \in 0 .. MaxSlides /\ {} \in SUBSET (SlideIds \X (0 .. MaxSlides))
  BY DEF HeroAssumption
<1> QED BY <1>1 DEF NoHero, HeroRequest, HeroStage

LEMMA CreateBegins ==
    ASSUME HeroAssumption, HeroInv, NEW m \in Managers, createHeroSlide(m)
    PROVE  HeroInv'
<1>0. PICK p \in Places \cup {Cardinality(Slides)} :
        HeroBegin(m, [NoHero EXCEPT !.at = "insert", !.place = p, !.byHand = p # Cardinality(Slides)])
  BY DEF createHeroSlide
<1>1. PICK byHand \in BOOLEAN : byHand = (p # Cardinality(Slides))
  OBVIOUS
<1> DEFINE asked == [NoHero EXCEPT !.at = "insert", !.place = p, !.byHand = byHand]
<1>2. /\ asked \in HeroRequest /\ asked.at = "insert"
      /\ asked.byHand \/ asked.place = Cardinality(Slides)
  <2>1. p \in Nat
    BY SlidesFinite DEF HeroAssumption
  <2>2. PICK z : z = NoHero
    OBVIOUS
  <2>3. z \in HeroRequest
    BY <2>2, NoHeroIs
  <2>4. asked = [z EXCEPT !.at = "insert", !.place = p, !.byHand = byHand]
    BY <2>2
  <2>5. byHand \/ p = Cardinality(Slides)
    BY <1>1
  <2> HIDE DEF asked
  <2> QED BY <2>1, <2>3, <2>4, <2>5 DEF HeroRequest, HeroStage
<1>3. HeroBegin(m, asked) /\ position' = position /\ slides' = slides
  BY <1>0, <1>1 DEF createHeroSlide
<1> HIDE DEF asked
<1>4. /\ hero' \in [Managers -> HeroRequest] /\ entangled' \in BOOLEAN /\ AloneIs'
      /\ hero'[m].at = "insert" /\ (hero'[m].byHand \/ hero'[m].place = Cardinality(Slides))
      /\ HeroBusy' # {} /\ (~entangled' => ~entangled /\ HeroBusy = {})
      /\ \A n \in Managers : n # m => /\ hero'[n].at = hero[n].at /\ hero'[n].pa = hero[n].pa
                                      /\ hero'[n].pb = hero[n].pb
                                      /\ hero'[n].alone => HeroAt(n, "idle")
  BY <1>2, <1>3, HeroBegins
<1>5. Slides' = Slides /\ (Compact' <=> Compact)
  BY <1>3, SameSlides
<1>6. HeroTyped'
  BY <1>3, <1>4 DEF HeroInv, HeroTyped, HeroAt
<1>7. PlacesOK'
  <2>1. ~entangled' => Compact
    BY <1>4 DEF HeroInv, PlacesOK
  <2>2. ~entangled' => \A n \in Managers : n # m => HeroAt(n, "idle")'
    BY <1>4 DEF HeroBusy, HeroAt
  <2>3. \A n \in Managers : HeroAt(n, "renumber")' => ~hero'[n].alone
    BY <1>4 DEF HeroAt
  <2> QED BY <1>4, <1>5, <2>1, <2>2, <2>3 DEF PlacesOK, HeroAt
<1> QED BY <1>4, <1>6, <1>7 DEF HeroInv

LEMMA DeleteBegins ==
    ASSUME HeroAssumption, HeroInv, NEW m \in Managers, NEW i \in SlideIds, deleteHeroSlide(m, i)
    PROVE  HeroInv'
<1>1. PICK asked : asked = [NoHero EXCEPT !.at = "rest"]
  OBVIOUS
<1>2. asked \in HeroRequest /\ asked.at = "rest"
  <2>2. PICK z : z = NoHero
    OBVIOUS
  <2>3. z \in HeroRequest
    BY <2>2, NoHeroIs
  <2>4. asked = [z EXCEPT !.at = "rest"]
    BY <1>1, <2>2
  <2> QED BY <2>3, <2>4 DEF HeroRequest, HeroStage
<1>3. HeroBegin(m, asked) /\ position' = [position EXCEPT ![i] = Gone] /\ slides' = slides
  BY <1>1 DEF deleteHeroSlide
<1>4. /\ hero' \in [Managers -> HeroRequest] /\ entangled' \in BOOLEAN /\ AloneIs'
      /\ hero'[m].at = "rest"
      /\ HeroBusy' # {} /\ (~entangled' => ~entangled /\ HeroBusy = {})
      /\ \A n \in Managers : n # m => /\ hero'[n].at = hero[n].at /\ hero'[n].pa = hero[n].pa
                                      /\ hero'[n].pb = hero[n].pb
                                      /\ hero'[n].alone => HeroAt(n, "idle")
  BY <1>2, <1>3, HeroBegins
<1>5. HeroTyped'
  <2>1. Gone \in Nat \cup {Gone}
    OBVIOUS
  <2> QED BY <1>3, <1>4, <2>1 DEF HeroInv, HeroTyped, HeroAt
<1>6. PlacesOK'
  <2>1. ~entangled' => \A n \in Managers : n # m => HeroAt(n, "idle")'
    BY <1>4 DEF HeroBusy, HeroAt
  <2>2. \A n \in Managers : HeroAt(n, "renumber")' => ~hero'[n].alone
    BY <1>4 DEF HeroAt
  <2> QED BY <1>4, <2>1, <2>2 DEF PlacesOK, HeroAt
<1> QED BY <1>4, <1>5, <1>6 DEF HeroInv

LEMMA MoveBegins ==
    ASSUME HeroAssumption, HeroInv, NEW m \in Managers, moveHeroSlide(m)
    PROVE  HeroInv'
<1>1. PICK s \in Orderings : \E k \in 1 .. (Len(s) - 1) :
        /\ HeroBegin(m, [NoHero EXCEPT !.at = "swap", !.a = s[k], !.b = s[k + 1],
                                       !.pa = position[s[k]], !.pb = position[s[k + 1]]])
        /\ UNCHANGED <<position, slides>>
  BY DEF moveHeroSlide
<1>2. PICK k \in 1 .. (Len(s) - 1) :
        /\ HeroBegin(m, [NoHero EXCEPT !.at = "swap", !.a = s[k], !.b = s[k + 1],
                                       !.pa = position[s[k]], !.pb = position[s[k + 1]]])
        /\ UNCHANGED <<position, slides>>
  BY <1>1
<1>3. /\ s[k] \in Slides /\ s[k + 1] \in Slides /\ s[k] # s[k + 1]
      /\ s[k] \in SlideIds /\ s[k + 1] \in SlideIds
  <2>1. s \in [1 .. Cardinality(Slides) -> Slides] /\ Cardinality(Slides) \in Nat
    BY SlidesFinite DEF Orderings, HeroAssumption
  <2>2. Len(s) = Cardinality(Slides)
    BY <2>1
  <2>3. k \in 1 .. Cardinality(Slides) /\ k + 1 \in 1 .. Cardinality(Slides) /\ k < k + 1
    BY <2>1, <2>2
  <2> QED BY <2>1, <2>3, SlidesFinite DEF Orderings
<1>4. /\ position[s[k]] \in Nat /\ position[s[k + 1]] \in Nat
      /\ s[k] \in 0 .. MaxSlides /\ s[k + 1] \in 0 .. MaxSlides
  BY <1>3 DEF HeroInv, HeroTyped, Slides, SlideIds, Gone, HeroAssumption
<1>5. PICK a, b, pa, pb : a = s[k] /\ b = s[k + 1] /\ pa = position[s[k]] /\ pb = position[s[k + 1]]
  OBVIOUS
<1>6. PICK asked : asked = [NoHero EXCEPT !.at = "swap", !.a = a, !.b = b, !.pa = pa, !.pb = pb]
  OBVIOUS
<1>7. asked \in HeroRequest /\ asked.at = "swap" /\ asked.a = a /\ asked.b = b /\ asked.pa = pa /\ asked.pb = pb
  <2>1. a \in 0 .. MaxSlides /\ b \in 0 .. MaxSlides /\ pa \in Int /\ pb \in Int /\ 0 \in 0 .. MaxSlides
    BY <1>4, <1>5 DEF HeroAssumption
  <2> QED BY <1>6, <2>1 DEF NoHero, HeroRequest, HeroStage
<1>8. HeroBegin(m, asked) /\ position' = position /\ slides' = slides
  BY <1>2, <1>5, <1>6
<1>9. /\ hero' \in [Managers -> HeroRequest] /\ entangled' \in BOOLEAN /\ AloneIs'
      /\ hero'[m].at = "swap" /\ hero'[m].a = a /\ hero'[m].b = b /\ hero'[m].pa = pa /\ hero'[m].pb = pb
      /\ HeroBusy' # {} /\ (~entangled' => ~entangled /\ HeroBusy = {})
      /\ \A n \in Managers : n # m => /\ hero'[n].at = hero[n].at /\ hero'[n].pa = hero[n].pa
                                      /\ hero'[n].pb = hero[n].pb
                                      /\ hero'[n].alone => HeroAt(n, "idle")
  BY <1>7, <1>8, HeroBegins
<1>10. Slides' = Slides /\ (Compact' <=> Compact)
  BY <1>8, SameSlides
<1>11. HeroTyped'
  BY <1>4, <1>5, <1>8, <1>9 DEF HeroInv, HeroTyped, HeroAt
<1>12. PlacesOK'
  <2>1. ~entangled' => Compact
    BY <1>9 DEF HeroInv, PlacesOK
  <2>2. ~entangled' => \A n \in Managers : n # m => HeroAt(n, "idle")'
    BY <1>9 DEF HeroBusy, HeroAt
  <2>3. \A n \in Managers : HeroAt(n, "renumber")' => ~hero'[n].alone
    BY <1>9 DEF HeroAt
  <2>4. a \in Slides /\ b \in Slides /\ a # b /\ pa = position[a] /\ pb = position[b]
    BY <1>3, <1>5
  <2> QED BY <1>8, <1>9, <1>10, <2>1, <2>2, <2>3, <2>4 DEF PlacesOK, HeroAt
<1> QED BY <1>9, <1>11, <1>12 DEF HeroInv

(* A request that ends, of which nothing is expected but the places. *)
LEMMA EndPlaces ==
    ASSUME HeroAssumption, HeroInv, NEW m \in Managers, ~HeroAt(m, "idle"), HeroEnd(m),
           entangled' \in BOOLEAN, entangled => entangled' \/ hero[m].alone,
           position' \in [SlideIds -> Nat \cup {Gone}], slides' \in 0 .. MaxSlides,
           \A i \in SlideIds : i > slides' => position'[i] = Gone,
           ~entangled' => Compact'
    PROVE  HeroInv'
<1>1. /\ hero' \in [Managers -> HeroRequest] /\ AloneIs' /\ HeroAt(m, "idle")'
      /\ \A n \in Managers : n # m => hero'[n] = hero[n]
      /\ ~entangled' \/ hero[m].alone => HeroBusy' = {}
  BY HeroEnds
<1>2. HeroTyped'
  BY <1>1 DEF HeroInv, HeroTyped, HeroAt
<1>3. PlacesOK'
  <2>1. \A n \in Managers : n # m /\ hero[n].alone => HeroAt(n, "idle")
    BY DEF HeroInv, AloneIs
  <2>2. \A n \in Managers : ~entangled' => HeroAt(n, "idle")'
    BY <1>1 DEF HeroBusy, HeroAt
  <2>3. \A n \in Managers : HeroAt(n, "renumber")' => ~hero'[n].alone
    BY <1>1, <2>1 DEF HeroAt
  <2> QED BY <2>2, <2>3 DEF PlacesOK, HeroAt
<1> QED BY <1>1, <1>2, <1>3 DEF HeroInv

LEMMA InsertKeeps ==
    ASSUME HeroAssumption, HeroInv, NEW m \in Managers, InsertSlide(m)
    PROVE  HeroInv'
<1> PICK n : n = hero[m].place
  OBVIOUS
<1> PICK i : i = slides + 1
  OBVIOUS
<1>0. MaxSlides \in Nat /\ slides \in 0 .. MaxSlides /\ slides < MaxSlides
  BY DEF HeroAssumption, HeroInv, HeroTyped, InsertSlide
<1>1. /\ HeroAt(m, "insert") /\ HeroEnd(m) /\ entangled' = (entangled \/ hero[m].byHand)
      /\ entangled' \in BOOLEAN
      /\ slides' = i /\ i \in SlideIds /\ i \in 0 .. MaxSlides
      /\ position' = [position EXCEPT ![i] = n] /\ n \in Nat
      /\ position \in [SlideIds -> Nat \cup {Gone}] /\ i \notin Slides
  BY <1>0 DEF InsertSlide, HeroInv, HeroTyped, HeroRequest, SlideIds, Slides
<1>2. /\ position' \in [SlideIds -> Nat \cup {Gone}]
      /\ \A j \in SlideIds : j > slides' => position'[j] = Gone
      /\ Slides' = Slides \cup {i}
      /\ position'[i] = n /\ \A j \in SlideIds : j # i => position'[j] = position[j]
  <2>1. n \in Nat \cup {Gone} /\ n # Gone
    BY <1>0, <1>1 DEF Gone
  <2>2. /\ position' \in [SlideIds -> Nat \cup {Gone}]
        /\ position'[i] = n /\ \A j \in SlideIds : j # i => position'[j] = position[j]
    BY <1>1, <2>1
  <2>3. \A j \in SlideIds : j > slides' => j # i /\ j > slides
    BY <1>0, <1>1 DEF SlideIds
  <2>4. Slides' = Slides \cup {i}
    BY <1>1, <2>1, <2>2 DEF Slides
  <2> QED BY <2>2, <2>3, <2>4 DEF HeroInv, HeroTyped
<1>3. ASSUME ~entangled' PROVE Compact'
  <2>1. Compact /\ n = Cardinality(Slides)
    BY <1>1, <1>3 DEF HeroInv, PlacesOK
  <2>2. IsFiniteSet(Slides) /\ Cardinality(Slides) \in Nat /\ Slides \subseteq SlideIds
    BY SlidesFinite DEF HeroAssumption
  <2>3. Cardinality(Slides \cup {i}) = Cardinality(Slides) + 1
    BY <1>1, <2>2, FS_AddElement
  <2>4. {position'[j] : j \in Slides'} = {position[j] : j \in Slides} \cup {n}
    BY <1>1, <1>2, <2>2
  <2>5. (0 .. (n - 1)) \cup {n} = 0 .. n
    BY <2>1, <2>2
  <2>6. Cardinality(Slides') = n + 1 /\ n \in Nat
    BY <1>2, <2>1, <2>2, <2>3
  <2>7. {position'[j] : j \in Slides'} = 0 .. n
    BY <2>1, <2>4, <2>5 DEF Compact
  <2>8. Cardinality(Slides') - 1 = n
    BY <2>6
  <2> QED BY <2>7, <2>8 DEF Compact
<1> QED BY <1>1, <1>2, <1>3, EndPlaces DEF HeroAt

(* A place that is given to a slide is remembered. *)
LEMMA UpdateKeeps ==
    ASSUME HeroAssumption, HeroInv, NEW m \in Managers, NEW i \in SlideIds, NEW p \in Places,
           updateHeroSlide(m, i, p)
    PROVE  HeroInv'
<1>1. /\ i \in Slides /\ position' = [position EXCEPT ![i] = p] /\ slides' = slides /\ entangled' = TRUE
      /\ hero' = [n \in Managers |-> Overtaken(n)] /\ p \in Nat
  BY DEF updateHeroSlide, HeroAssumption
<1>2. ASSUME NEW n \in Managers
      PROVE  /\ hero'[n] \in HeroRequest /\ hero'[n].at = hero[n].at /\ hero'[n].pa = hero[n].pa
             /\ hero'[n].pb = hero[n].pb /\ (hero'[n].alone <=> HeroAt(n, "idle"))
  <2>1. hero'[n] = [hero[n] EXCEPT !.alone = HeroAt(n, "idle")]
    BY <1>1 DEF Overtaken
  <2>2. hero[n] \in HeroRequest /\ HeroAt(n, "idle") \in BOOLEAN
    BY DEF HeroAt, HeroInv, HeroTyped
  <2> QED BY <2>1, <2>2 DEF HeroRequest
<1>3. hero' \in [Managers -> HeroRequest]
  <2>1. hero' = [n \in Managers |-> hero'[n]]
    BY <1>1
  <2> QED BY <1>2, <2>1
<1>4. HeroTyped'
  <2>1. position' \in [SlideIds -> Nat \cup {Gone}]
    BY <1>1 DEF HeroInv, HeroTyped
  <2>2. \A j \in SlideIds : j > slides' => position'[j] = Gone
    BY <1>1 DEF HeroInv, HeroTyped, Slides
  <2> QED BY <1>1, <1>2, <1>3, <2>1, <2>2 DEF HeroInv, HeroTyped, HeroAt
<1>5. AloneIs'
  BY <1>1, <1>2 DEF AloneIs, HeroAt
<1>6. PlacesOK'
  <2>1. \A n \in Managers : HeroAt(n, "renumber")' => ~hero'[n].alone
    BY <1>2 DEF HeroAt
  <2> QED BY <1>1, <2>1 DEF PlacesOK
<1> QED BY <1>4, <1>5, <1>6 DEF HeroInv

(* What is known of others while the request of m is in flight. *)
LEMMA OnlyOne ==
    ASSUME HeroInv, NEW m \in Managers, ~HeroAt(m, "idle")
    PROVE  /\ ~entangled => hero[m].alone
           /\ ~entangled \/ hero[m].alone => \A n \in Managers : n # m => HeroAt(n, "idle")
           /\ \A n \in Managers : n # m /\ hero[n].alone => HeroAt(n, "idle")
BY DEF HeroInv, AloneIs

(* The slides in an order, each at its place: no place is left over. *)
LEMMA PlacedIsCompact ==
    ASSUME HeroAssumption, NEW s, Ranks(s),
           \A k \in 1 .. Cardinality(Slides) : position[s[k]] = k - 1
    PROVE  Compact
<1> PICK n : n = Cardinality(Slides)
  OBVIOUS
<1>1. n \in Nat /\ IsFiniteSet(Slides)
  BY SlidesFinite DEF HeroAssumption
<1>2. Cardinality(1 .. n) = n
  BY <1>1, UpToHas
<1>3. s \in [1 .. n -> Slides] /\ \A j, k \in 1 .. n : j # k => s[j] # s[k]
  BY DEF Ranks
<1>4. s \in Injection(1 .. n, Slides)
  BY <1>3 DEF Injection, IsInjective
<1>5. s \in Surjection(1 .. n, Slides)
  BY <1>1, <1>2, <1>4, FS_Injection
<1>6. \A i \in Slides : \E k \in 1 .. n : s[k] = i
  BY <1>5 DEF Surjection
<1>7. \A k \in 1 .. n : position[s[k]] = k - 1 /\ s[k] \in Slides
  BY <1>3
<1>8. {position[i] : i \in Slides} \subseteq 0 .. (n - 1)
  BY <1>1, <1>6, <1>7
<1>9. 0 .. (n - 1) \subseteq {position[i] : i \in Slides}
  <2> SUFFICES ASSUME NEW j \in 0 .. (n - 1) PROVE j \in {position[i] : i \in Slides}
    OBVIOUS
  <2>1. j + 1 \in 1 .. n /\ (j + 1) - 1 = j
    BY <1>1
  <2>2. position[s[j + 1]] = j /\ s[j + 1] \in Slides
    BY <1>7, <2>1
  <2> QED BY <2>2
<1> QED BY <1>8, <1>9 DEF Compact

LEMMA RestKeeps ==
    ASSUME HeroAssumption, HeroInv, NEW m \in Managers, ReadRest(m)
    PROVE  HeroInv'
<1>1. PICK s \in Orderings :
        hero' = [hero EXCEPT ![m].at = "renumber", ![m].left = {<<s[k], k - 1>> : k \in DOMAIN s}]
  BY DEF ReadRest
<1>2. /\ HeroAt(m, "rest") /\ ~HeroAt(m, "idle") /\ position' = position /\ slides' = slides
      /\ entangled' = entangled /\ hero \in [Managers -> HeroRequest]
  BY DEF ReadRest, HeroAt, HeroInv, HeroTyped
<1>3. Slides' = Slides /\ (Compact' <=> Compact)
  BY <1>2, SameSlides
<1>4. PICK n : n = Cardinality(Slides)
  OBVIOUS
<1>5. n \in 0 .. MaxSlides /\ n \in Nat /\ Slides \subseteq SlideIds
  BY <1>4, SlidesFinite DEF HeroAssumption
<1>6. s \in [1 .. n -> Slides] /\ DOMAIN s = 1 .. n /\ \A j, k \in 1 .. n : j < k => s[j] # s[k]
  <2>1. s \in [1 .. n -> Slides] /\ DOMAIN s = 1 .. n
    BY <1>4 DEF Orderings
  <2> QED BY <2>1 DEF Orderings
<1>7. Ranks(s)
  <2>1. ASSUME NEW j \in 1 .. n, NEW k \in 1 .. n, j # k PROVE s[j] # s[k]
    <3>1. j < k \/ k < j
      BY <1>5, <2>1
    <3> QED BY <1>6, <3>1
  <2> QED BY <1>4, <1>6, <2>1 DEF Ranks
<1>8. PICK l : l = {<<s[k], k - 1>> : k \in 1 .. n}
  OBVIOUS
<1>9. l \in SUBSET (SlideIds \X (0 .. MaxSlides))
  <2>1. \A k \in 1 .. n : s[k] \in SlideIds /\ k - 1 \in 0 .. MaxSlides
    BY <1>5, <1>6
  <2> QED BY <1>8, <2>1
<1>10. PICK d : d = [hero[m] EXCEPT !.at = "renumber", !.left = l]
  OBVIOUS
<1>11. hero' = [hero EXCEPT ![m] = d]
  BY <1>1, <1>6, <1>8, <1>10
<1>12. d \in HeroRequest /\ d.at = "renumber" /\ d.left = l /\ d.alone = hero[m].alone
  BY <1>2, <1>9, <1>10 DEF HeroRequest, HeroStage
<1>13. /\ hero' \in [Managers -> HeroRequest] /\ hero'[m] = d
       /\ \A o \in Managers : o # m => hero'[o] = hero[o]
  BY <1>2, <1>11, <1>12
<1>14. HeroTyped'
  BY <1>2, <1>12, <1>13 DEF HeroInv, HeroTyped, HeroAt
<1>15. AloneIs'
  <2>1. \A o \in Managers : HeroAt(o, "idle")' <=> HeroAt(o, "idle")
    BY <1>2, <1>12, <1>13 DEF HeroAt
  <2>2. \A o \in Managers : hero'[o].alone = hero[o].alone
    BY <1>12, <1>13
  <2> QED BY <1>2, <2>1, <2>2 DEF HeroInv, AloneIs
<1>16. PlacesOK'
  <2>1. /\ ~entangled => \A o \in Managers : o # m => HeroAt(o, "idle")
        /\ \A o \in Managers : o # m /\ hero[o].alone => HeroAt(o, "idle")
    BY <1>2, OnlyOne
  <2>2. m \in HeroBusy'
    BY <1>12, <1>13 DEF HeroBusy
  <2>3. Ranks(s)' /\ Renumbers(m, s)'
    <3>1. Ranks(s)'
      BY <1>3, <1>7 DEF Ranks
    <3>2. Cardinality(Slides') = n /\ hero'[m].left = {<<s[k], k - 1>> : k \in 1 .. n}
      BY <1>3, <1>4, <1>8, <1>12, <1>13
    <3>3. Renumbers(m, s)'
      BY <3>2 DEF Renumbers
    <3> QED BY <3>1, <3>3
  <2>4. \A o \in Managers : o # m => hero'[o] = hero[o]
    BY <1>13
  <2>5. ASSUME NEW o \in Managers, o # m
        PROVE  /\ HeroAt(o, "insert")' => entangled' /\ ~hero'[o].alone
               /\ HeroAt(o, "renumber")' => ~hero'[o].alone
               /\ HeroAt(o, "swap")' => entangled'
    BY <1>2, <2>1, <2>4, <2>5 DEF HeroAt
  <2>6. ~HeroAt(m, "insert")' /\ ~HeroAt(m, "swap")'
    BY <1>12, <1>13 DEF HeroAt
  <2> QED BY <2>2, <2>3, <2>5, <2>6 DEF PlacesOK
<1> QED BY <1>14, <1>15, <1>16 DEF HeroInv

LEMMA RenumberKeeps ==
    ASSUME HeroAssumption, HeroInv, NEW m \in Managers, Renumber(m)
    PROVE  HeroInv'
<1>1. PICK u \in hero[m].left :
        /\ position' = IF u[1] \in Slides THEN [position EXCEPT ![u[1]] = u[2]] ELSE position
        /\ hero' = [hero EXCEPT ![m].left = @ \ {u}]
  BY DEF Renumber
<1>2. /\ HeroAt(m, "renumber") /\ ~HeroAt(m, "idle") /\ slides' = slides
      /\ entangled' = entangled /\ hero \in [Managers -> HeroRequest]
      /\ position \in [SlideIds -> Nat \cup {Gone}]
  BY DEF Renumber, HeroAt, HeroInv, HeroTyped
<1>3. PICK l : l = hero[m].left \ {u}
  OBVIOUS
<1>4. /\ u[1] \in SlideIds /\ u[2] \in 0 .. MaxSlides
      /\ l \in SUBSET (SlideIds \X (0 .. MaxSlides)) /\ u = <<u[1], u[2]>>
  <2>1. hero[m].left \in SUBSET (SlideIds \X (0 .. MaxSlides))
    BY <1>2 DEF HeroRequest
  <2>2. u \in SlideIds \X (0 .. MaxSlides)
    BY <2>1
  <2> QED BY <1>3, <2>1, <2>2
<1>5. PICK i, p : i = u[1] /\ p = u[2]
  OBVIOUS
<1>6. /\ position' \in [SlideIds -> Nat \cup {Gone}] /\ Slides' = Slides
      /\ \A j \in SlideIds : j # i => position'[j] = position[j]
      /\ \A j \in SlideIds : j > slides' => position'[j] = Gone
      /\ i \in Slides => position'[i] = p
  <2>1. p \in Nat \cup {Gone} /\ p # Gone
    BY <1>4, <1>5 DEF Gone
  <2>2. /\ position' \in [SlideIds -> Nat \cup {Gone}]
        /\ \A j \in SlideIds : j # i => position'[j] = position[j]
        /\ i \in Slides => position'[i] = p
        /\ i \notin Slides => position' = position
    BY <1>1, <1>2, <1>4, <1>5, <2>1
  <2>3. Slides' = Slides
    BY <1>4, <1>5, <2>1, <2>2 DEF Slides
  <2>4. \A j \in SlideIds : j > slides => j \notin Slides
    BY DEF HeroInv, HeroTyped, Slides
  <2>5. \A j \in SlideIds : j > slides' => position'[j] = Gone
    BY <1>2, <2>3, <2>4 DEF Slides
  <2> QED BY <2>2, <2>3, <2>5
<1>7. PICK d : d = [hero[m] EXCEPT !.left = l]
  OBVIOUS
<1>8. hero' = [hero EXCEPT ![m] = d]
  BY <1>1, <1>3, <1>7
<1>9. /\ d \in HeroRequest /\ d.at = hero[m].at /\ d.left = l /\ d.alone = hero[m].alone
      /\ d.pa = hero[m].pa /\ d.pb = hero[m].pb
  BY <1>2, <1>4, <1>7 DEF HeroRequest
<1>10. /\ hero' \in [Managers -> HeroRequest] /\ hero'[m] = d
       /\ \A o \in Managers : o # m => hero'[o] = hero[o]
  BY <1>2, <1>8, <1>9
<1>11. HeroTyped'
  BY <1>2, <1>6, <1>9, <1>10 DEF HeroInv, HeroTyped, HeroAt
<1>12. AloneIs'
  <2>1. \A o \in Managers : HeroAt(o, "idle")' <=> HeroAt(o, "idle")
    BY <1>2, <1>9, <1>10 DEF HeroAt
  <2>2. \A o \in Managers : hero'[o].alone = hero[o].alone
    BY <1>9, <1>10
  <2> QED BY <1>2, <2>1, <2>2 DEF HeroInv, AloneIs
<1>13. PlacesOK'
  <2>1. /\ ~entangled => \A o \in Managers : o # m => HeroAt(o, "idle")
        /\ \A o \in Managers : o # m /\ hero[o].alone => HeroAt(o, "idle")
    BY <1>2, OnlyOne
  <2>2. m \in HeroBusy' /\ ~HeroAt(m, "insert")' /\ ~HeroAt(m, "swap")'
    BY <1>2, <1>9, <1>10 DEF HeroBusy, HeroAt
  <2>3. ASSUME hero'[m].alone PROVE \E s : Ranks(s)' /\ Renumbers(m, s)'
    <3>1. PICK s : Ranks(s) /\ Renumbers(m, s)
      BY <1>2, <1>9, <1>10, <2>3 DEF HeroInv, PlacesOK
    <3>2. PICK n : n = Cardinality(Slides)
      OBVIOUS
    <3>3. s \in [1 .. n -> Slides] /\ \A j, k \in 1 .. n : j # k => s[j] # s[k]
      BY <3>1, <3>2 DEF Ranks
    <3>4. /\ hero[m].left \subseteq {<<s[k], k - 1>> : k \in 1 .. n}
          /\ \A k \in 1 .. n : <<s[k], k - 1>> \in hero[m].left \/ position[s[k]] = k - 1
      BY <3>1, <3>2 DEF Renumbers
    <3>5. PICK j \in 1 .. n : u = <<s[j], j - 1>>
      BY <3>4
    <3>6. i = s[j] /\ p = j - 1 /\ i \in Slides
      BY <1>5, <3>3, <3>5
    <3>7. ASSUME NEW k \in 1 .. n PROVE <<s[k], k - 1>> \in l \/ position'[s[k]] = k - 1
      <4>1. CASE k = j
        BY <1>6, <3>6, <4>1
      <4>2. CASE k # j
        <5>1. s[k] # i /\ s[k] \in SlideIds
          BY <3>3, <3>6, <4>2 DEF Slides
        <5>2. position'[s[k]] = position[s[k]] /\ <<s[k], k - 1>> # u
          BY <1>6, <3>5, <3>6, <5>1
        <5> QED BY <1>3, <3>4, <5>2
      <4> QED BY <4>1, <4>2
    <3>8. n = Cardinality(Slides') /\ hero'[m].left = l
      BY <1>6, <1>9, <1>10, <3>2
    <3>9. Ranks(s)'
      BY <1>6, <3>1 DEF Ranks
    <3>10. Renumbers(m, s)'
      <4>1. l \subseteq {<<s[k], k - 1>> : k \in 1 .. n}
        BY <1>3, <3>4
      <4> QED BY <3>7, <3>8, <4>1 DEF Renumbers
    <3> QED BY <3>9, <3>10
  <2>4. ASSUME NEW o \in Managers, o # m
        PROVE  /\ HeroAt(o, "insert")' => entangled'
               /\ HeroAt(o, "renumber")' => ~hero'[o].alone
               /\ HeroAt(o, "swap")' => entangled'
    BY <1>2, <1>10, <2>1, <2>4 DEF HeroAt
  <2> QED BY <2>2, <2>3, <2>4 DEF PlacesOK
<1> QED BY <1>11, <1>12, <1>13 DEF HeroInv

LEMMA RenumberedKeeps ==
    ASSUME HeroAssumption, HeroInv, NEW m \in Managers, Renumbered(m)
    PROVE  HeroInv'
<1>1. /\ HeroAt(m, "renumber") /\ ~HeroAt(m, "idle") /\ HeroEnd(m) /\ hero[m].left = {}
      /\ position' = position /\ slides' = slides /\ entangled' = (entangled /\ ~hero[m].alone)
  BY DEF Renumbered, HeroAt
<1>2. /\ position' \in [SlideIds -> Nat \cup {Gone}] /\ slides' \in 0 .. MaxSlides
      /\ entangled' \in BOOLEAN /\ \A i \in SlideIds : i > slides' => position'[i] = Gone
  <2>1. (entangled /\ ~hero[m].alone) \in BOOLEAN
    OBVIOUS
  <2> QED BY <1>1, <2>1 DEF HeroInv, HeroTyped
<1>3. ASSUME ~entangled' PROVE Compact'
  <2>1. hero[m].alone
    BY <1>1, <1>3, OnlyOne
  <2>2. PICK s : Ranks(s) /\ Renumbers(m, s)
    BY <1>1, <2>1 DEF HeroInv, PlacesOK
  <2>3. \A k \in 1 .. Cardinality(Slides) : position[s[k]] = k - 1
    BY <1>1, <2>2 DEF Renumbers
  <2>4. Compact
    BY <2>2, <2>3, PlacedIsCompact
  <2> QED BY <1>1, <2>4, SameSlides
<1>4. entangled => entangled' \/ hero[m].alone
  BY <1>1
<1> QED BY <1>1, <1>2, <1>3, <1>4, EndPlaces

LEMMA SwapKeeps ==
    ASSUME HeroAssumption, HeroInv, NEW m \in Managers, Swap(m)
    PROVE  HeroInv'
<1>1. PICK a, b, pa, pb : a = hero[m].a /\ b = hero[m].b /\ pa = hero[m].pa /\ pb = hero[m].pb
  OBVIOUS
<1>2. /\ HeroAt(m, "swap") /\ ~HeroAt(m, "idle") /\ HeroEnd(m) /\ slides' = slides
      /\ entangled' = entangled /\ entangled \in BOOLEAN
      /\ position' = IF {a, b} \subseteq Slides
                     THEN [position EXCEPT ![a] = pb, ![b] = pa] ELSE position
      /\ position \in [SlideIds -> Nat \cup {Gone}] /\ slides \in 0 .. MaxSlides
  BY <1>1 DEF Swap, HeroAt, HeroInv, HeroTyped
<1>3. pa \in Nat \cup {Gone} /\ pb \in Nat \cup {Gone} /\ pa # Gone /\ pb # Gone
  <2>1. pa \in Nat /\ pb \in Nat
    BY <1>1, <1>2 DEF HeroInv, HeroTyped
  <2> QED BY <2>1 DEF Gone
<1>4. position' \in [SlideIds -> Nat \cup {Gone}] /\ Slides' = Slides
  <2>1. CASE {a, b} \subseteq Slides
    <3>1. position' = [position EXCEPT ![a] = pb, ![b] = pa] /\ a \in SlideIds /\ b \in SlideIds
      BY <1>2, <2>1 DEF Slides
    <3>2. position' \in [SlideIds -> Nat \cup {Gone}]
      BY <1>2, <1>3, <3>1
    <3>3. /\ position'[a] # Gone /\ position'[b] # Gone
          /\ \A j \in SlideIds : j # a /\ j # b => position'[j] = position[j]
      BY <1>2, <1>3, <3>1
    <3> QED BY <2>1, <3>2, <3>3 DEF Slides
  <2>2. CASE ~({a, b} \subseteq Slides)
    BY <1>2, <2>2 DEF Slides
  <2> QED BY <2>1, <2>2
<1>5. \A j \in SlideIds : j > slides' => position'[j] = Gone
  <2>1. \A j \in SlideIds : j > slides => j \notin Slides
    BY DEF HeroInv, HeroTyped, Slides
  <2> QED BY <1>2, <1>4, <2>1 DEF Slides
<1>6. ASSUME ~entangled PROVE Compact'
  <2>1. /\ Compact /\ a \in Slides /\ b \in Slides /\ a # b /\ pa = position[a] /\ pb = position[b]
    BY <1>1, <1>2, <1>6 DEF HeroInv, PlacesOK
  <2>2. position' = [position EXCEPT ![a] = pb, ![b] = pa] /\ a \in SlideIds /\ b \in SlideIds
    BY <1>2, <2>1 DEF Slides
  <2>3. /\ position'[a] = pb /\ position'[b] = pa
        /\ \A j \in Slides : j # a /\ j # b => position'[j] = position[j]
    BY <1>2, <2>1, <2>2 DEF Slides
  <2>4. {position'[j] : j \in Slides} = {position[j] : j \in Slides}
    BY <2>1, <2>3
  <2> QED BY <1>4, <2>1, <2>4 DEF Compact
<1> QED BY <1>2, <1>4, <1>5, <1>6, EndPlaces

LEMMA HeroBreakKeeps ==
    ASSUME HeroAssumption, HeroInv, NEW m \in Managers, HeroBreaks(m)
    PROVE  HeroInv'
BY EndPlaces DEF HeroBreaks, HeroInv, HeroTyped

LEMMA HeroSteps == HeroInv /\ [HeroNext]_heroVars => HeroInv'
<1> USE HeroAssumption
<1>1. ASSUME HeroInv, HeroNext PROVE HeroInv'
  <2>1. PICK m \in Managers :
          \/ createHeroSlide(m) \/ InsertSlide(m)
          \/ (\E i \in SlideIds, p \in Places : updateHeroSlide(m, i, p))
          \/ (\E i \in SlideIds : deleteHeroSlide(m, i)) \/ ReadRest(m) \/ Renumber(m) \/ Renumbered(m)
          \/ moveHeroSlide(m) \/ Swap(m) \/ HeroBreaks(m)
    BY <1>1 DEF HeroNext
  <2> QED BY <1>1, <2>1, CreateBegins, InsertKeeps, UpdateKeeps, DeleteBegins, RestKeeps, RenumberKeeps,
             RenumberedKeeps, MoveBegins, SwapKeeps, HeroBreakKeeps
<1>2. ASSUME HeroInv, UNCHANGED heroVars PROVE HeroInv'
  <2>1. /\ position' = position /\ slides' = slides /\ hero' = hero /\ entangled' = entangled
    BY <1>2 DEF heroVars
  <2>2. Slides' = Slides /\ (Compact' <=> Compact)
    BY <2>1, SameSlides
  <2>3. HeroTyped' /\ AloneIs'
    BY <1>2, <2>1 DEF HeroInv, HeroTyped, AloneIs, HeroAt
  <2>4. PlacesOK'
    BY <1>2, <2>1, <2>2 DEF HeroInv, PlacesOK, HeroBusy, HeroAt, Ranks, Renumbers
  <2> QED BY <2>3, <2>4 DEF HeroInv
<1> QED BY <1>1, <1>2

(* The places of the slides are 0 .. n-1 whenever no request is under way,    *)
(* unless requests overlapped, one stopped half way or one gave a place by    *)
(* hand since the last deletion that ran alone, which puts any places right:  *)
(* whatever order the rows of equal place are read in, and in whatever order  *)
(* the updates of a deletion are carried out.                                 *)
THEOREM PlacesHold == HeroSpec => []PlacesAreCompact
<1>1. HeroInv => PlacesAreCompact
  BY DEF HeroInv, PlacesOK, PlacesAreCompact, Compact
<1> QED BY <1>1, HeroStarts, HeroSteps, PTL DEF HeroSpec

-----------------------------------------------------------------------------
(* What the slides of the home page and their requests keep stays in its     *)
(* types.                                                                   *)
THEOREM HeroTypes == HeroSpec => []HeroTypeOK
<1>1. HeroInv => HeroTypeOK
  <2> SUFFICES ASSUME HeroInv PROVE HeroTypeOK
    OBVIOUS
  <2>1. HeroTyped
    BY DEF HeroInv
  <2>2. \A m \in Managers : hero[m].at \in HeroStage
    BY <2>1 DEF HeroTyped, HeroRequest
  <2> QED BY <2>1, <2>2 DEF HeroTyped, HeroTypeOK
<1> QED BY <1>1, HeroStarts, HeroSteps, PTL DEF HeroSpec

(* The shop's scenes.  A behaviour of ShopSpec is one of each component: the *)
(* scenes that do not run rest.                                             *)
LEMMA ShopRuns ==
    ShopSpec => AccountsSpec /\ OtpSpec /\ WishSpec /\ ListSpec /\ TreeSpec /\ PageSpec /\ HeroSpec
<1>1. ShopInit => AccountsInit /\ OtpInit /\ WishInit /\ ListInit /\ TreeInit /\ PageInit /\ HeroInit
  BY DEF ShopInit
<1>2. Visiting => /\ [AccountsNext]_accountVars /\ [OtpNext]_otpVars /\ [WishNext]_wishVars
                  /\ UNCHANGED <<listVars, treeVars, pageVars, heroVars>>
  BY DEF Visiting, shelfSide
<1>3. Shelves => /\ [ListNext]_listVars /\ [TreeNext]_treeVars /\ [PageNext]_pageVars /\ [HeroNext]_heroVars
                 /\ UNCHANGED <<accountVars, otpVars, wishVars>>
  BY DEF Shelves, visitorSide
<1>4. ShopNext => /\ [AccountsNext]_accountVars /\ [OtpNext]_otpVars /\ [WishNext]_wishVars
                  /\ [ListNext]_listVars /\ [TreeNext]_treeVars /\ [PageNext]_pageVars /\ [HeroNext]_heroVars
  BY <1>2, <1>3 DEF ShopNext
<1>5. UNCHANGED <<visitorSide, shelfSide, scene>>
      => /\ UNCHANGED accountVars /\ UNCHANGED otpVars /\ UNCHANGED wishVars /\ UNCHANGED listVars
         /\ UNCHANGED treeVars /\ UNCHANGED pageVars /\ UNCHANGED heroVars
  BY DEF visitorSide, shelfSide
<1> QED BY <1>1, <1>4, <1>5, PTL
        DEF ShopSpec, AccountsSpec, OtpSpec, WishSpec, ListSpec, TreeSpec, PageSpec, HeroSpec

(* What each component of the shop keeps stays in its types, in every scene. *)
THEOREM ShopTypes == ShopSpec => []ShopTypeOK
<1>1. (AccountsTypeOK /\ OtpTypeOK /\ WishTypeOK /\ ListTypeOK /\ TreeTypeOK /\ PageTypeOK /\ HeroTypeOK)
      => ShopTypeOK
  BY DEF ShopTypeOK
<1> QED BY <1>1, ShopRuns, AccountTypes, SignInTypes, WishTypes, ListTypes, TreeTypes, CatalogTypes,
           HeroTypes, PTL

(* The tree is sound, and what the staff decides about brands and            *)
(* collections is what is stored and shown, in every scene of the shop.      *)
THEOREM ShelvesHold == ShopSpec => []ShelvesAreSound
<1>1. TreeIsSound /\ CatalogPageIsTrue => ShelvesAreSound
  BY DEF ShelvesAreSound
<1> QED BY <1>1, ShopRuns, TreeHolds, CatalogHolds, PTL

(* Accounts, the sign-in page, the wish list, listings and slides are right  *)
(* in every scene of the shop as they are alone.                            *)
THEOREM ShopHolds ==
    ShopSpec => []( OneTimeCodes /\ SessionsAreSound /\ SignInIsTrue /\ WishlistAgrees
                    /\ ListingIsUsable /\ PlacesAreCompact )
  BY ShopRuns, CodesAreSpent, SessionsHold, PageSignsIn, WishlistHolds, ListingHolds, PlacesHold, PTL

=============================================================================
