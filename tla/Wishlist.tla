------------------------------ MODULE Wishlist ------------------------------
(***************************************************************************)
(* The wishlist of one account (wishlist/wishlist.service) and of a browser *)
(* (web: wishlist-store), in tabs that share the browser's storage:         *)
(* wishlist-context shows the list, auth-context hands the guest's list to  *)
(* the account when the customer signs in.                                  *)
(*                                                                          *)
(* Requests run statement by statement, and a tab may have several in       *)
(* flight; what an answer says is what the list was when it was read.       *)
(***************************************************************************)
EXTENDS Integers, FiniteSets, Functions

CONSTANTS
    Products,    \* products, which are never hidden
    Tabs,        \* tabs of the browser
    Requests,    \* requests in flight at once
    MaxGestures, \* bound on clicks
    MaxLosses    \* bound on requests and counter updates that fail

ASSUME WishlistAssumption == Tabs # {} /\ MaxGestures \in Nat /\ MaxLosses \in Nat

VARIABLES
    wishRows,        \* rows[p]: WishlistItem rows of the account without a variant
    counter,     \* Product.wishlistCount
    counting,    \* fire-and-forget updates of it in flight
    local,       \* the browser's list of slugs
    hasToken,       \* the browser's bearer token is there
    tab,         \* what each tab shows
    request,     \* requests in flight
    gestures, losses,
    wanted,      \* history: saved, by whatever way, and not removed since
    guestSaved,  \* history: saved without an account in this browser
    merged,      \* history: rows that merges created
    lost,        \* history: sum of the updates of the counter that failed
    guestRaced,       \* history: the browser's list was written before a storage event came, or during a merge
    crossed,     \* history: a tab's list was overwritten by an older one, or is known to be old
    late,        \* history: an answer about the account came to a tab that had signed out
    doubled      \* history: two insertions of a product overlapped

wishVars == <<wishRows, counter, counting, local, hasToken, tab, request, gestures, losses, wanted,
              guestSaved, merged, lost, guestRaced, crossed, late, doubled>>

(* user: signed in; slugs: the hearts; shown: the products known by id;      *)
(* notified: a storage event is on its way.                                  *)
TabView == [user : BOOLEAN, slugs : SUBSET Products, shown : SUBSET Products, notified : BOOLEAN]
RequestKinds == {"signIn", "list", "add", "remove", "logout"}
Stages == {"find", "write", "read", "answer", "me"}
(* of: what it is about; found: what it read. *)
Request == [kind : RequestKinds \cup {"none"}, at : Stages, tab : Tabs, of : SUBSET Products,
            found : SUBSET Products]

SomeTab == CHOOSE t \in Tabs : TRUE
NoRequest == [kind |-> "none", at |-> "find", tab |-> SomeTab, of |-> {}, found |-> {}]

WishInit ==
    /\ wishRows = [p \in Products |-> 0] /\ counter = [p \in Products |-> 0] /\ counting = {}
    /\ local = {} /\ hasToken = FALSE
    /\ tab = [t \in Tabs |-> [user |-> FALSE, slugs |-> {}, shown |-> {}, notified |-> FALSE]]
    /\ request = [r \in Requests |-> NoRequest]
    /\ gestures = 0 /\ losses = 0
    /\ wanted = {} /\ guestSaved = {} /\ merged = [p \in Products |-> 0]
    /\ lost = [p \in Products |-> 0]
    /\ guestRaced = FALSE /\ crossed = FALSE /\ late = FALSE /\ doubled = FALSE

Account == {p \in Products : wishRows[p] > 0}
Runs(r, kind, stage) == request[r].kind = kind /\ request[r].at = stage
InFlightOf(t) == {r \in Requests : request[r].kind # "none" /\ request[r].tab = t}
SigningIn == {r \in Requests : request[r].kind = "signIn" /\ request[r].at # "me"}
Goes(r, stage) == request' = [request EXCEPT ![r].at = stage]

accountParts == <<wishRows, counter, counting>>
browserParts == <<local, hasToken, tab>>
wishBounds == <<gestures, losses>>
wishHistory == <<wanted, guestSaved, merged, lost, guestRaced, crossed, late, doubled>>

Gesture == gestures < MaxGestures /\ gestures' = gestures + 1
Loss == losses < MaxLosses /\ losses' = losses + 1

-----------------------------------------------------------------------------
(* The browser *)

(* writeLocalWishlist: this tab's listener runs at once, a storage event      *)
(* goes to the others; the tab writes what it shows, not what is stored.      *)
GuestToggle(t, p) ==
    LET v == tab[t]
        next == IF p \in v.slugs THEN v.slugs \ {p} ELSE v.slugs \cup {p}
    IN  /\ ~v.user /\ Gesture
        /\ local' = next
        /\ tab' = [u \in Tabs |-> IF u = t THEN [v EXCEPT !.slugs = next]
                                  ELSE [tab[u] EXCEPT !.notified = TRUE]]
        /\ wanted' = IF p \in next THEN wanted \cup {p} ELSE wanted \ {p}
        /\ guestSaved' = IF p \in next THEN guestSaved \cup {p} ELSE guestSaved \ {p}
        /\ guestRaced' = (guestRaced \/ v.notified \/ SigningIn # {})
        /\ UNCHANGED <<accountParts, hasToken, request, losses, merged, lost, crossed, late, doubled>>

StorageEvent(t) ==
    /\ tab[t].notified
    /\ tab' = [tab EXCEPT ![t].notified = FALSE, ![t].slugs = IF tab[t].user THEN @ ELSE local]
    /\ UNCHANGED <<accountParts, local, hasToken, request, wishBounds, wishHistory>>

Sends(t, kind, stage, of) ==
    \E r \in Requests :
        /\ request[r].kind = "none"
        /\ request' = [request EXCEPT ![r] = [kind |-> kind, at |-> stage, tab |-> t, of |-> of,
                                              found |-> {}]]

(* finishAuth: the token first, then the list as it is now. *)
SignIn(t) ==
    /\ ~tab[t].user /\ Gesture
    /\ \A r \in InFlightOf(t) : request[r].kind # "signIn"
    /\ hasToken' = TRUE
    /\ Sends(t, "signIn", IF local = {} THEN "me" ELSE "find", local)
    /\ UNCHANGED <<accountParts, local, tab, losses, wishHistory>>

(* toggle: a heart whose product is not known by its id does nothing. *)
UserToggle(t, p) ==
    /\ tab[t].user /\ Gesture
    /\ IF p \in tab[t].slugs
       THEN p \in tab[t].shown /\ Sends(t, "remove", "write", {p})
       ELSE Sends(t, "add", "find", {p})
    /\ UNCHANGED <<accountParts, browserParts, losses, wishHistory>>

SignOut(t) ==
    /\ tab[t].user /\ Gesture
    /\ Sends(t, "logout", "answer", {})
    /\ UNCHANGED <<accountParts, browserParts, losses, wishHistory>>

(* loadMe of a page that is loaded again: signed in if the token is there.   *)
Reload(t) ==
    /\ InFlightOf(t) = {} /\ Gesture
    /\ tab' = [tab EXCEPT ![t] = [user |-> hasToken, slugs |-> IF hasToken THEN {} ELSE local,
                                  shown |-> {}, notified |-> FALSE]]
    /\ IF hasToken THEN Sends(t, "list", "read", {}) ELSE UNCHANGED request
    /\ UNCHANGED <<accountParts, local, hasToken, losses, wishHistory>>

-----------------------------------------------------------------------------
(* wishlist.service *)

(* add: the row is looked for, and then created. *)
FindAdded(r) ==
    /\ Runs(r, "add", "find")
    /\ request' = [request EXCEPT ![r].found = Account \cap request[r].of,
                                  ![r].at = IF request[r].of \subseteq Account THEN "read" ELSE "write"]
    /\ wanted' = wanted \cup (request[r].of \cap Account)
    /\ UNCHANGED <<accountParts, browserParts, wishBounds, guestSaved, merged, lost, guestRaced, crossed,
                   late, doubled>>

Inserts(r, of) ==
    /\ wishRows' = [p \in Products |-> IF p \in of THEN wishRows[p] + 1 ELSE wishRows[p]]
    /\ doubled' = (doubled \/ of \cap Account # {})
    /\ crossed' = (crossed \/ \E t \in Tabs \ {request[r].tab} : tab[t].user)

Count(r, p, by) ==
    counting' = counting \cup {[by |-> by, product |-> p, gesture |-> gestures, request |-> r]}

CreateItem(r) ==
    /\ Runs(r, "add", "write")
    /\ Inserts(r, request[r].of)
    /\ \A p \in request[r].of : Count(r, p, 1)
    /\ wanted' = wanted \cup request[r].of
    /\ Goes(r, "read")
    /\ UNCHANGED <<counter, browserParts, wishBounds, guestSaved, merged, lost, guestRaced, late>>

(* Mutant: the counter goes down by one. *)
RemoveItem_ByOne(r) ==
    /\ Runs(r, "remove", "write")
    /\ \A p \in request[r].of :
          /\ wishRows' = [wishRows EXCEPT ![p] = 0]
          /\ IF wishRows[p] > 0 THEN Count(r, p, -1) ELSE UNCHANGED counting
    /\ crossed' = (crossed \/ \E t \in Tabs \ {request[r].tab} : tab[t].user)
    /\ wanted' = wanted \ request[r].of
    /\ Goes(r, "read")
    /\ UNCHANGED <<counter, browserParts, wishBounds, guestSaved, merged, lost, guestRaced, late, doubled>>

(* deleteMany, and the counter down by as many. *)
RemoveItem(r) ==
    /\ Runs(r, "remove", "write")
    /\ \A p \in request[r].of :
          /\ wishRows' = [wishRows EXCEPT ![p] = 0]
          /\ IF wishRows[p] > 0 THEN Count(r, p, -wishRows[p]) ELSE UNCHANGED counting
    /\ crossed' = (crossed \/ \E t \in Tabs \ {request[r].tab} : tab[t].user)
    /\ wanted' = wanted \ request[r].of
    /\ Goes(r, "read")
    /\ UNCHANGED <<counter, browserParts, wishBounds, guestSaved, merged, lost, guestRaced, late, doubled>>

(* merge: one read of what is there, one insertion of the rest. *)
FindMerged(r) ==
    /\ Runs(r, "signIn", "find")
    /\ request' = [request EXCEPT ![r].found = Account \cap request[r].of,
                                  ![r].at = IF request[r].of \subseteq Account THEN "answer" ELSE "write"]
    /\ UNCHANGED <<accountParts, browserParts, wishBounds, wishHistory>>

(* Mutant: what is there is not left out. *)
CreateMerged_All(r) ==
    /\ Runs(r, "signIn", "write")
    /\ wishRows' = [p \in Products |-> IF p \in request[r].of THEN wishRows[p] + 1 ELSE wishRows[p]]
    /\ merged' = [p \in Products |-> IF p \in request[r].of THEN merged[p] + 1 ELSE merged[p]]
    /\ doubled' = (doubled \/ (request[r].of \ request[r].found) \cap Account # {})
    /\ Goes(r, "answer")
    /\ UNCHANGED <<counter, counting, browserParts, wishBounds, wanted, guestSaved, lost, guestRaced, crossed,
                   late>>

(* createMany; the counters are left alone. *)
CreateMerged(r) ==
    LET new == request[r].of \ request[r].found
    IN  /\ Runs(r, "signIn", "write")
        /\ Inserts(r, new)
        /\ merged' = [p \in Products |-> IF p \in new THEN merged[p] + 1 ELSE merged[p]]
        /\ Goes(r, "answer")
        /\ UNCHANGED <<counter, counting, browserParts, wishBounds, wanted, guestSaved, lost, guestRaced,
                       late>>

(* list, at the end of every request. *)
ReadList(r) ==
    /\ request[r].kind \in {"list", "add", "remove"} /\ request[r].at = "read"
    /\ request' = [request EXCEPT ![r].found = Account, ![r].at = "answer"]
    /\ UNCHANGED <<accountParts, browserParts, wishBounds, wishHistory>>

CounterUpdated(c) ==
    /\ c \in counting
    /\ counting' = counting \ {c}
    /\ \/ /\ counter' = [counter EXCEPT ![c.product] = @ + c.by]
          /\ UNCHANGED <<losses, lost>>
       \/ /\ Loss
          /\ lost' = [lost EXCEPT ![c.product] = @ + c.by]
          /\ UNCHANGED counter
    /\ UNCHANGED <<wishRows, browserParts, request, gestures, wanted, guestSaved, merged, guestRaced, crossed,
                   late, doubled>>

-----------------------------------------------------------------------------
(* Answers *)

(* Mutant: what the tab showed is kept. *)
ShowAnswer_Adds(r) ==
    LET t == request[r].tab
    IN  /\ request[r].kind \in {"list", "add", "remove"} /\ request[r].at = "answer"
        /\ tab' = [tab EXCEPT ![t].slugs = @ \cup request[r].found,
                              ![t].shown = @ \cup request[r].found]
        /\ crossed' = (crossed \/ request[r].found # Account)
        /\ late' = (late \/ ~tab[t].user)
        /\ request' = [request EXCEPT ![r] = NoRequest]
        /\ UNCHANGED <<accountParts, local, hasToken, wishBounds, wanted, guestSaved, merged, lost, guestRaced,
                       doubled>>

(* setProducts, setSlugs: whoever is signed in by now. *)
ShowAnswer(r) ==
    LET t == request[r].tab
    IN  /\ request[r].kind \in {"list", "add", "remove"} /\ request[r].at = "answer"
        /\ tab' = [tab EXCEPT ![t].slugs = request[r].found, ![t].shown = request[r].found]
        /\ crossed' = (crossed \/ request[r].found # Account)
        /\ late' = (late \/ ~tab[t].user)
        /\ request' = [request EXCEPT ![r] = NoRequest]
        /\ UNCHANGED <<accountParts, local, hasToken, wishBounds, wanted, guestSaved, merged, lost, guestRaced,
                       doubled>>

(* clearLocalWishlist, when the merge was answered. *)
ClearGuestList(r) ==
    /\ Runs(r, "signIn", "answer")
    /\ local' = {} /\ guestSaved' = {}
    /\ tab' = [t \in Tabs |-> IF t = request[r].tab THEN [tab[t] EXCEPT !.slugs = {}]
                              ELSE [tab[t] EXCEPT !.notified = TRUE]]
    /\ Goes(r, "me")
    /\ UNCHANGED <<accountParts, hasToken, wishBounds, wanted, merged, lost, guestRaced, crossed, late, doubled>>

(* setUser, and the refresh that follows; or me fails and the token stays.   *)
FinishAuth(r) ==
    /\ Runs(r, "signIn", "me")
    /\ \/ /\ tab' = [tab EXCEPT ![request[r].tab].user = TRUE]
          /\ request' = [request EXCEPT ![r].kind = "list", ![r].at = "read"]
          /\ UNCHANGED losses
       \/ /\ Loss
          /\ request' = [request EXCEPT ![r] = NoRequest]
          /\ UNCHANGED tab
    /\ UNCHANGED <<accountParts, local, hasToken, gestures, wishHistory>>

(* Mutant: the hearts of the account stay on the screen. *)
LoggedOut_KeepsHearts(r) ==
    LET t == request[r].tab
    IN  /\ Runs(r, "logout", "answer")
        /\ hasToken' = FALSE
        /\ tab' = [tab EXCEPT ![t].user = FALSE]
        /\ request' = [request EXCEPT ![r] = NoRequest]
        /\ UNCHANGED <<accountParts, local, wishBounds, wishHistory>>

(* refresh of a tab without a user shows the browser's list. *)
LoggedOut(r) ==
    LET t == request[r].tab
    IN  /\ Runs(r, "logout", "answer")
        /\ hasToken' = FALSE
        /\ tab' = [tab EXCEPT ![t].user = FALSE, ![t].shown = {}, ![t].slugs = local]
        /\ request' = [request EXCEPT ![r] = NoRequest]
        /\ UNCHANGED <<accountParts, local, wishBounds, wishHistory>>

(* Mutant: the browser's list is cleared whatever became of the merge. *)
RequestFails_Clears(r) ==
    /\ request[r].kind # "none" /\ request[r].at # "me" /\ Loss
    /\ request' = [request EXCEPT ![r] = IF request[r].kind = "signIn" THEN [@ EXCEPT !.at = "me"]
                                         ELSE NoRequest]
    /\ local' = IF request[r].kind = "signIn" THEN {} ELSE local
    /\ crossed' = TRUE
    /\ UNCHANGED <<accountParts, hasToken, tab, gestures, wanted, guestSaved, merged, lost, guestRaced, late,
                   doubled>>

(* No answer, before or after a statement.  A merge that fails keeps the     *)
(* browser's list; every other request is given up.                          *)
RequestFails(r) ==
    /\ request[r].kind # "none" /\ request[r].at # "me" /\ Loss
    /\ request' = [request EXCEPT ![r] = IF request[r].kind = "signIn" THEN [@ EXCEPT !.at = "me"]
                                         ELSE NoRequest]
    /\ crossed' = TRUE
    /\ UNCHANGED <<accountParts, browserParts, gestures, wanted, guestSaved, merged, lost, guestRaced, late,
                   doubled>>

-----------------------------------------------------------------------------
TabActs(t) ==
    \/ \E p \in Products : GuestToggle(t, p) \/ UserToggle(t, p)
    \/ StorageEvent(t) \/ SignIn(t) \/ SignOut(t) \/ Reload(t)

RequestRuns(r) ==
    \/ FindAdded(r) \/ CreateItem(r) \/ RemoveItem(r) \/ FindMerged(r) \/ CreateMerged(r)
    \/ ReadList(r) \/ ShowAnswer(r) \/ ClearGuestList(r) \/ FinishAuth(r) \/ LoggedOut(r)
    \/ RequestFails(r)

WishNext ==
    \/ \E t \in Tabs : TabActs(t)
    \/ \E r \in Requests : RequestRuns(r)
    \/ \E c \in counting : CounterUpdated(c)

WishSpec == WishInit /\ [][WishNext]_wishVars
-----------------------------------------------------------------------------
(* Properties *)

(* Rows, tabs and requests keep their types; what was saved as a guest is a  *)
(* set of products.                                                          *)
WishTypeOK ==
    /\ wishRows \in [Products -> Nat] /\ counter \in [Products -> Int]
    /\ local \subseteq Products /\ hasToken \in BOOLEAN
    /\ tab \in [Tabs -> TabView] /\ request \in [Requests -> Request]
    /\ wanted \subseteq Products

(* Folding a guest's list into the account loses nothing: what was saved and *)
(* not removed is in the account or still in the browser, whatever fails     *)
(* between reading the list and clearing it; only a list that was written    *)
(* meanwhile, or from hearts that are not the browser's, can lose a product. *)
SavedIsKept == ~guestRaced /\ ~late => wanted \subseteq local \cup Account

(* What the updates in flight add up to. *)
BeingCounted(p) == SumFunctionOnSet([c \in counting |-> c.by], {c \in counting : c.product = p})

(* The product's counter is the number of rows but for those a merge created *)
(* (the code counts them when they are removed and not when they are added)  *)
(* and for updates that failed, whatever doubled a row.                      *)
CounterFollows ==
    \A p \in Products :
        counter[p] + BeingCounted(p) + lost[p] = wishRows[p] - merged[p]

(* A product is in the account once, unless two insertions of it overlapped. *)
OneRowEach == ~doubled => \A p \in Products : wishRows[p] <= 1

(* What the browser keeps for its guest never comes from the account, unless *)
(* an answer about the account came after the customer had signed out.       *)
GuestListIsOwn == ~late /\ ~guestRaced => local \subseteq guestSaved

(* Once no request is under way a signed-in tab shows the account's list,    *)
(* unless an answer was old when it came or a request failed.                *)
HeartsAreSaved ==
    \A t \in Tabs : tab[t].user /\ InFlightOf(t) = {} /\ ~crossed => tab[t].slugs = Account

(* The account's rows, the counters, the guest's list and the hearts agree. *)
WishlistAgrees == SavedIsKept /\ CounterFollows /\ OneRowEach /\ GuestListIsOwn /\ HeartsAreSaved
=============================================================================
