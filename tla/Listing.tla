------------------------------ MODULE Listing ------------------------------
(***************************************************************************)
(* The product listings of the shop: the query of catalog.service, the     *)
(* facets it offers, the pages of c/[slug], shop and collections/[slug],   *)
(* and the filter bar (components/product-filters).  A click writes the    *)
(* URL from the parameters the page was rendered with; the server renders  *)
(* the page of the newest URL some time later.                             *)
(*                                                                         *)
(* A colour is handled as a size is, and a brand as both; gender and       *)
(* rating are part of no click.  Products do not change meanwhile, and     *)
(* differ in what they are sorted by.                                      *)
(***************************************************************************)
EXTENDS Naturals, Sequences, FiniteSets, FiniteSetsExt

CONSTANTS
    Shelved,    \* how many products are active, published and not deleted
    Kinds,      \* what they may be
    Sizes,      \* values of the option Size
    Subs,       \* categories that have a parent
    PriceSet,   \* sale prices
    Stops,      \* prices at which a price band may end
    PageSize,
    MaxMoves,   \* bound on clicks
    MaxNoFacets \* bound on calls for the facets that fail

(* belongs: to the category's subtree or to the collection; date: its place   *)
(* by another column than the price, publishedAt or one like it.             *)
Item == [price : PriceSet, date : Nat, sizes : SUBSET Sizes, subs : SUBSET Subs,
         stocked : BOOLEAN, belongs : BOOLEAN]

ASSUME ListingAssumption ==
    /\ PageSize \in Nat \ {0} /\ MaxMoves \in Nat /\ MaxNoFacets \in Nat
    /\ Shelved \in Nat /\ PriceSet \subseteq Nat \ {0} /\ Stops \subseteq Nat \ {0}
    /\ Kinds \subseteq Item

VARIABLES
    listing,   \* the listing: "shop", "category" or "collection"
    item,      \* the products
    url,       \* parameters of the URL
    rendered,  \* parameters of the page on the screen
    shown,     \* products, their pages and the facets on the screen
    moves, noFacets,
    seen       \* history: <<page, product>> shown since the filters or the sorting changed

Listed == 1..Shelved

listVars == <<listing, item, url, rendered, shown, moves, noFacets, seen>>

(* Nothing is 0: a price of the URL that is not there. *)
NoFilter == [sizes |-> {}, subs |-> {}, min |-> 0, max |-> 0, inStock |-> FALSE,
             sort |-> "latest", page |-> 1]
NoFacets == [sizes |-> {}, subs |-> {}, min |-> 0, max |-> 0]

(* The subcategories that were chosen replace the category, not a collection. *)
InPlace(i, q) ==
    \/ listing = "shop"
    \/ listing = "category" /\ q.subs # {}
    \/ item[i].belongs

buildProductWhere(q) ==
    {i \in Listed :
        /\ InPlace(i, q)
        /\ q.subs # {} => item[i].subs \cap q.subs # {}
        /\ q.sizes # {} => item[i].sizes \cap q.sizes # {}
        /\ q.min # 0 => item[i].price >= q.min
        /\ q.max # 0 => item[i].price <= q.max
        /\ q.inStock => item[i].stocked}

Pages(n) == (n + PageSize - 1) \div PageSize

(* SORT_MAP: one column, and rows with the same value in any order, another  *)
(* time in another.  A descending column is ordered from the other end.      *)
SortKeys == {"latest", "price"}
Key(q, i) == IF q.sort = "price" THEN item[i].price ELSE item[i].date
Orders(q, found) ==
    {s \in [1..Cardinality(found) -> found] :
        \A j, k \in DOMAIN s : j < k => s[j] # s[k] /\ Key(q, s[j]) <= Key(q, s[k])}

(* Mutant: one more is taken. *)
OnPage_OneMore(s, n) ==
    LET skip == (n - 1) * PageSize
    IN  {s[k] : k \in {k \in DOMAIN s : skip < k /\ k <= skip + PageSize + 1}}

(* skip and take. *)
OnPage(s, n) ==
    LET skip == (n - 1) * PageSize
    IN  {s[k] : k \in {k \in DOMAIN s : skip < k /\ k <= skip + PageSize}}

listProducts(q, s) == [items |-> OnPage(s, q.page), total |-> Len(s)]

(* Each page asks for the facets of its category or collection alone.      *)
FacetQuery_InStock(q) == [NoFilter EXCEPT !.inStock = q.inStock]
FacetQuery(q) == NoFilter

getFacets(q) ==
    LET products == buildProductWhere([q EXCEPT !.subs = {}, !.sizes = {}, !.min = 0, !.max = 0])
        prices == {item[i].price : i \in products}
    IN  IF products = {} THEN NoFacets
        ELSE [sizes |-> UNION {item[i].sizes : i \in products},
              subs |-> UNION {item[i].subs : i \in products},
              min |-> Min(prices), max |-> Max(prices)]

----------------------------------------------------------------------------
(* The filter bar. *)

(* Bands between the stops that lie inside the prices, each as the filter it sets. *)
buildPriceBands(facets) ==
    LET stops == {s \in Stops : facets.min < s /\ s < facets.max}
        Above(s) == {t \in stops : s < t}
    IN  IF facets.max <= facets.min THEN {}
        ELSE {[min |-> s, max |-> IF Above(s) = {} THEN 0 ELSE Min(Above(s))] : s \in stops \cup {0}}

(* Every change but a page link goes back to the first page. *)
apply_KeepsPage(next) == url' = next
apply(next) == url' = [next EXCEPT !.page = 1]

Click == moves < MaxMoves /\ moves' = moves + 1 /\ UNCHANGED <<listing, item, rendered, shown, noFacets, seen>>

toggleCsv(chosen, value) == IF value \in chosen THEN chosen \ {value} ELSE chosen \cup {value}

(* A pill that is offered, or the chip of a value that was chosen. *)
ToggleSize(v) ==
    /\ v \in shown.facets.sizes \cup rendered.sizes
    /\ apply([rendered EXCEPT !.sizes = toggleCsv(@, v)])
    /\ Click
ToggleSub(c) ==
    /\ c \in shown.facets.subs \cup rendered.subs
    /\ apply([rendered EXCEPT !.subs = toggleCsv(@, c)])
    /\ Click

ChooseBand(b) ==
    /\ LET active == rendered.min = b.min /\ rendered.max = b.max
       IN  apply([rendered EXCEPT !.min = IF active THEN 0 ELSE b.min,
                                  !.max = IF active THEN 0 ELSE b.max])
    /\ Click
ClearBand == rendered.min + rendered.max > 0 /\ apply([rendered EXCEPT !.min = 0, !.max = 0]) /\ Click

ToggleInStock == apply([rendered EXCEPT !.inStock = ~@]) /\ Click

(* The filters are cleared, not the sorting. *)
ClearAll ==
    LET cleared == [NoFilter EXCEPT !.sort = rendered.sort]
    IN  [rendered EXCEPT !.page = 1] # cleared /\ apply(cleared) /\ Click

(* Sorting keeps every filter. *)
Sort(key) == key # rendered.sort /\ apply([rendered EXCEPT !.sort = key]) /\ Click

PageLink(n) ==
    /\ Pages(shown.total) > 1 /\ n \in 1..Pages(shown.total)
    /\ url' = [rendered EXCEPT !.page = n]
    /\ Click

----------------------------------------------------------------------------
(* The server renders the page of the URL; facets that cannot be had are none. *)

Page(q, s, facets) ==
    LET list == listProducts(q, s) IN [items |-> list.items, total |-> list.total, facets |-> facets]

ListInit ==
    /\ listing \in {"shop", "category", "collection"}
    /\ item \in [Listed -> Kinds]
    /\ listing = "shop" => \A i \in Listed : item[i].belongs
    /\ url = NoFilter /\ rendered = NoFilter
    /\ \E s \in Orders(NoFilter, buildProductWhere(NoFilter)) :
          shown = Page(NoFilter, s, getFacets(NoFilter))
    /\ seen = {1} \X shown.items
    /\ moves = 0 /\ noFacets = 0

SameList(q, r) == [q EXCEPT !.page = 1] = [r EXCEPT !.page = 1]

Render ==
    /\ url # rendered
    /\ rendered' = url
    /\ \E s \in Orders(url, buildProductWhere(url)) :
          \/ shown' = Page(url, s, getFacets(FacetQuery(url))) /\ UNCHANGED noFacets
          \/ /\ noFacets < MaxNoFacets /\ noFacets' = noFacets + 1
             /\ shown' = Page(url, s, NoFacets)
    /\ seen' = (IF SameList(url, rendered) THEN seen ELSE {}) \cup ({url.page} \X shown'.items)
    /\ UNCHANGED <<listing, item, url, moves>>

ListNext ==
    \/ (\E v \in Sizes : ToggleSize(v)) \/ (\E c \in Subs : ToggleSub(c))
    \/ (\E b \in buildPriceBands(shown.facets) : ChooseBand(b)) \/ ClearBand
    \/ ToggleInStock \/ ClearAll \/ (\E key \in SortKeys : Sort(key))
    \/ \E n \in 1..Shelved : PageLink(n)
    \/ Render

ListSpec == ListInit /\ [][ListNext]_listVars

----------------------------------------------------------------------------
(* Filters, pages and facets stay in their types. *)
Filter == [sizes : SUBSET Sizes, subs : SUBSET Subs, min : Nat, max : Nat, inStock : BOOLEAN,
           sort : SortKeys, page : Nat \ {0}]
ListTypeOK ==
    /\ listing \in {"shop", "category", "collection"} /\ item \in [Listed -> Kinds]
    /\ url \in Filter /\ rendered \in Filter
    /\ shown.items \subseteq Listed /\ shown.total \in 0..Shelved
    /\ shown.facets \in [sizes : SUBSET Sizes, subs : SUBSET Subs, min : Nat, max : Nat]
    /\ moves \in 0..MaxMoves /\ noFacets \in 0..MaxNoFacets
    /\ seen \subseteq (Nat \ {0}) \X Listed

(* A page is never empty while products match: a filter that shrinks the   *)
(* list never leaves the customer behind its last page.                    *)
PageHasItems == shown.total > 0 => shown.items # {}

(* The sorting says on which page a product is: those that it puts at the    *)
(* same place are all there.                                                 *)
IsFor(n, i) ==
    LET found == buildProductWhere(rendered)
    IN  /\ (n - 1) * PageSize <= Cardinality({j \in found : Key(rendered, j) < Key(rendered, i)})
        /\ Cardinality({j \in found : Key(rendered, j) <= Key(rendered, i)}) <= n * PageSize

(* However the visitor walks through the pages of a list, and whatever order *)
(* each of them was fetched in, a product is never shown twice, and none is  *)
(* missed once he has been to its page, except among products that tie in    *)
(* the sorting across the end of a page (catalog.service.ts:20, 119-121).    *)
NothingMissed ==
    \A i \in buildProductWhere(rendered) : \A n \in 1..Pages(shown.total) : IsFor(n, i) =>
        /\ \A e \in seen : e[2] = i => e[1] = n
        /\ (\E e \in seen : e[1] = n) => <<n, i>> \in seen

(* catalog.service:137: facets are what is available before narrowing, so   *)
(* the controls stay usable: whatever was chosen, every size and            *)
(* subcategory of the listing is still offered, and each of them, and the   *)
(* lowest and the highest price band, finds something when chosen alone.    *)
FacetsStayUsable ==
    LET facets == shown.facets
        all == buildProductWhere(NoFilter)
        bands == buildPriceBands(facets)
    IN  facets # NoFacets =>
        /\ \A i \in all : item[i].sizes \subseteq facets.sizes /\ item[i].subs \subseteq facets.subs
        /\ \A v \in facets.sizes : buildProductWhere([NoFilter EXCEPT !.sizes = {v}]) # {}
        /\ \A c \in facets.subs : buildProductWhere([NoFilter EXCEPT !.subs = {c}]) # {}
        /\ \A b \in bands : b.min = 0 \/ b.max = 0 =>
              buildProductWhere([NoFilter EXCEPT !.min = b.min, !.max = b.max]) # {}

(* What a listing owes its visitor, whatever the clicks and however late   *)
(* the pages: no empty page, no product lost between pages, no dead filter. *)
ListingIsUsable == PageHasItems /\ NothingMissed /\ FacetsStayUsable
=============================================================================
