---------------------------- MODULE MCStorefront ----------------------------
(***************************************************************************)
(* Small instances of the shop around the purchase, for TLC: accounts and  *)
(* the steps of signing in, the wish list, listings, the tree of           *)
(* categories, the staff's page of brands and collections, and the slides  *)
(* of the home page.  These components share no state, and their product   *)
(* would only multiply their states: a behaviour runs one of them, its     *)
(* scene, and the others rest in an initial state.                         *)
(***************************************************************************)
EXTENDS Accounts, OtpSignIn, Wishlist, Listing, CategoryTree, CatalogDesk, HeroSlides,
    TLC

CONSTANTS p1, e1, d1, d2, n1, n2, g1, g2, t1, t2, r1, r2, w1, w2, x1, i1, i2, sa, sb, sc, m1, m2,
    y1, y2, u1, b1,
    CallsAndTicks   \* bound on the calls and the time of the scene of accounts

VARIABLE scene

visitorSide == <<accountVars, otpVars, wishVars>>
shelfSide == <<listVars, treeVars, pageVars, heroVars>>

(* What a product of a listing may be. *)
AKind(price, sizes, subs, stocked, belongs) ==
    [price |-> price, date |-> price \div 2, sizes |-> sizes, subs |-> subs, stocked |-> stocked, belongs |-> belongs]
PlainKind == AKind(2, {w2}, {}, TRUE, TRUE)
SomeKinds ==
    {PlainKind, AKind(1, {w1}, {x1}, TRUE, TRUE), AKind(3, {w1, w2}, {}, FALSE, TRUE),
     AKind(4, {}, {x1}, TRUE, FALSE), AKind(4, {w2}, {x1}, FALSE, TRUE)}

ShopInit ==
    /\ scene \in {"accounts", "signIn", "wishlist", "listing", "categories", "brands", "homepage"}
    /\ AccountsInit /\ OtpInit /\ WishInit /\ ListInit /\ TreeInit /\ PageInit /\ HeroInit
    /\ scene # "signIn" => mobile = n1
    /\ \A i, j \in Listed : i < j => item[i].price <= item[j].price   \* they may change places
    /\ scene # "listing" => listing = "shop" /\ 1 \in shown.items /\ \A i \in Listed : item[i] = PlainKind
    /\ scene = "brands" => \E t \in Windows : window[t].kind = entry[1].kind
    /\ scene # "brands" => brandOf = [g \in Goods |-> 0] /\ entry[1].kind = "brand"
                           /\ \A t \in Windows : window[t].kind = "brand"

Visiting ==
    /\ UNCHANGED shelfSide
    /\ \/ /\ scene = "accounts" /\ AccountsNext /\ sent' + clock' <= CallsAndTicks
          /\ UNCHANGED <<otpVars, wishVars>>
       \/ scene = "signIn" /\ OtpNext /\ UNCHANGED <<accountVars, wishVars>>
       \/ scene = "wishlist" /\ WishNext /\ UNCHANGED <<accountVars, otpVars>>

Shelves ==
    /\ UNCHANGED visitorSide
    /\ \/ scene = "listing" /\ ListNext /\ UNCHANGED <<treeVars, pageVars, heroVars>>
       \/ scene = "categories" /\ TreeNext /\ UNCHANGED <<listVars, pageVars, heroVars>>
       \/ scene = "brands" /\ PageNext /\ UNCHANGED <<listVars, treeVars, heroVars>>
       \/ scene = "homepage" /\ HeroNext /\ UNCHANGED <<listVars, treeVars, pageVars>>

ShopNext == UNCHANGED scene /\ (Visiting \/ Shelves)

ShopSpec == ShopInit /\ [][ShopNext]_<<visitorSide, shelfSide, scene>>

(* The two members of every symmetric set change places, all at once: a    *)
(* behaviour is about one scene, so this is as good as one set at a time.  *)
Exchange(S, really) == CHOOSE f \in Permutations(S) : (\E x \in S : f[x] # x) = really

ShopSymmetry ==
    {Exchange(AuthCalls, really) @@ Exchange(Products, really) @@ Exchange(Requests, really)
     @@ Exchange(Editors, really) @@ Exchange(Managers, really)
     @@ Exchange(Windows, really) : really \in BOOLEAN}

(* What each component keeps stays in its types. *)
ShopTypeOK ==
    /\ AccountsTypeOK /\ OtpTypeOK /\ WishTypeOK
    /\ ListTypeOK /\ TreeTypeOK /\ PageTypeOK /\ HeroTypeOK

(* The tree is sound, and what the staff decides about brands and            *)
(* collections is what is stored and shown (CategoryTree, CatalogDesk).      *)
ShelvesAreSound == TreeIsSound /\ CatalogPageIsTrue
=============================================================================
