---------------------------- MODULE ProductAdmin ----------------------------
(***************************************************************************)
(* One product in the back office: the product form, bulk changes, the CSV *)
(* import and the status switch (admin/catalog-admin.service, admin.module)*)
(* with the search index they feed (search/search.service), while          *)
(* customers put the product's variants in carts and order them.           *)
(*                                                                         *)
(* A save is a list of statements outside a transaction.  It replaces each *)
(* list of the product by deleting the rows and creating new ones; the     *)
(* rows of a save are its number.  Prices, texts and images are reduced to *)
(* what the properties tell apart.                                         *)
(***************************************************************************)
EXTENDS Integers, Sequences, FiniteSets, FiniteSetsExt, Functions

CONSTANTS
    Admins,        \* saves in flight at once
    Skus,          \* SKUs the product form can list
    Prices,        \* MRP and sale price
    FormStatus,    \* statuses a form or a CSV row sends
    Statuses,      \* statuses the back office switches to
    MaxWork,       \* bound on saves, one-statement changes and customers' steps together
    MaxVariants,   \* bound: ids of ProductVariant rows
    MaxTasks       \* bound on updates of the index in flight

ASSUME ProductAssumption ==
    /\ FormStatus \cup Statuses \subseteq {"DRAFT", "ACTIVE", "ARCHIVED"}
    /\ Prices \subseteq Nat /\ Prices # {}
    /\ \A bound \in {MaxWork, MaxVariants, MaxTasks} : bound \in Nat
    /\ IsFiniteSet(Skus) /\ Cardinality(Skus) \in 1..MaxVariants

VARIABLES
    product,    \* the Product row
    list,       \* list[l]: saves whose rows the list holds
    variant,    \* ProductVariant rows; inCart: a cart line names it
    variants,   \* rows created so far
    orderLine,  \* OrderItem.variantId of the orders placed so far (0: null)
    saving,     \* saves in flight
    saves,      \* saves started
    changes,    \* bounded counter
    index,      \* the product's document in Elasticsearch
    tasks,      \* fire-and-forget updates of the index in flight
    mixed,      \* history: two saves overlapped, or one ended half way
    priceRaced, \* history: a price was set in bulk, or while a save was comparing prices
    rebuilt,    \* history: a save or an import began to replace the variants
    lineAdded,  \* history: a cart line came between a save's clearing carts and variants
    blocked,    \* history: a save of the form ended because a cart line was there
    unsynced    \* history: updates of the index overlapped, failed or were left out

prodVars == <<product, list, variant, variants, orderLine, saving, saves, changes, index, tasks,
              mixed, priceRaced, rebuilt, lineAdded, blocked, unsynced>>

ProductStatus == {"DRAFT", "ACTIVE", "ARCHIVED"}
Lists == {"categories", "collections", "tags", "seo", "options"}   \* media: as categories
SaveOps == {"create", "update", "import"}
VariantIds == 1..MaxVariants
SaveIds == 0..MaxWork
Missing == [there |-> FALSE]   \* no document

Product == [there : BOOLEAN, deleted : BOOLEAN, status : ProductStatus, mrp : Prices, sale : Prices]
Variant == [there : BOOLEAN, sku : Skus, by : SaveIds, inCart : BOOLEAN]
Document == [there : {TRUE}, status : ProductStatus, sale : Prices] \cup {Missing}
Task == [id : Nat, of : {"product", "all"}, at : {"read", "put", "remove"}, doc : Document]

Clear(l) == <<"clear", l>>
Fill(l) == <<"fill", l>>
Replace(l) == <<Clear(l), Fill(l)>>
Write == <<"write", "product">>
Lines == <<"clear", "lines">>
DropVariants == <<"clear", "variants">>
AddVariants == <<"fill", "variants">>
Reindex == <<"reindex", "product">>

(* applyRelations and rebuildVariants, statement by statement; the product   *)
(* form sends every list.  A new product has nothing to clear in its         *)
(* variants.  The import leaves collections and SEO texts, and carts, alone. *)
Relations == Replace("categories") \o Replace("collections") \o Replace("tags")
             \o <<Fill("seo")>>
Steps ==
    [create |-> <<Write>> \o Relations \o <<Fill("options"), AddVariants, Reindex>>,
     update |-> <<Write>> \o Relations
                \o <<Lines, DropVariants, Clear("options"), Fill("options"), AddVariants, Reindex>>,
     import |-> <<Write>> \o Replace("categories") \o Replace("tags")
                \o <<DropVariants, Clear("options"), Fill("options"), AddVariants, Reindex>>]

Saving == [op : SaveOps \cup {"none"}, step : 0..20, by : SaveIds, status : ProductStatus,
           mrp : Prices, sale : Prices, sent : SUBSET {"mrp", "sale"}, left : SUBSET Skus]
SomePrice == CHOOSE p \in Prices : TRUE
NoSave == [op |-> "none", step |-> 0, by |-> 0, status |-> "DRAFT", mrp |-> SomePrice,
           sale |-> SomePrice, sent |-> {}, left |-> {}]

(* No product yet, or one that was created, and indexed, before: rows of     *)
(* save 0, which customers may have in their carts.                          *)
ProductInit ==
    \E there, carted \in BOOLEAN, skus \in [1..Cardinality(Skus) -> Skus] :
        /\ IsInjective(skus)
        /\ product = [there |-> there, deleted |-> FALSE, status |-> "ACTIVE", mrp |-> SomePrice,
                      sale |-> SomePrice]
        /\ list = [l \in Lists |-> IF there THEN {0} ELSE {}]
        /\ variants = IF there THEN Cardinality(Skus) ELSE 0
        /\ variant = [i \in VariantIds |->
              [there |-> i <= variants, sku |-> IF i <= variants THEN skus[i] ELSE skus[1],
               by |-> 0, inCart |-> carted /\ i <= variants]]
        /\ index = IF there THEN [there |-> TRUE, status |-> "ACTIVE", sale |-> SomePrice] ELSE Missing
        /\ orderLine = << >> /\ tasks = {}
        /\ saving = [a \in Admins |-> NoSave]
        /\ saves = 0 /\ changes = 0
        /\ mixed = FALSE /\ priceRaced = FALSE /\ rebuilt = FALSE /\ lineAdded = FALSE
        /\ blocked = FALSE /\ unsynced = FALSE

Present == {i \in 1..variants : variant[i].there}
Busy == {a \in Admins : saving[a].op # "none"}
Step(a) == IF saving[a].op = "none" THEN Missing ELSE Steps[saving[a].op][saving[a].step]
At2(a, step) == saving[a].op # "none" /\ Step(a) = step
Onward(a) == saving' = [saving EXCEPT ![a].step = @ + 1]

productParts == <<product, list, variant, variants, orderLine>>
searchParts == <<index, tasks>>
productHistory == <<mixed, priceRaced, rebuilt, lineAdded, blocked, unsynced>>

(* A statement throws: what was written stays, the index is not told. *)
Throws(a) ==
    /\ saving' = [saving EXCEPT ![a] = NoSave]
    /\ mixed' = TRUE /\ unsynced' = TRUE

-----------------------------------------------------------------------------
(* search.service *)

SpawnFor(of, kind, id) ==
    /\ Cardinality(tasks) < MaxTasks
    /\ tasks' = tasks \cup {[id |-> id, of |-> of, at |-> kind, doc |-> Missing]}
    /\ unsynced' = (unsynced \/ tasks # {})

Spawn(kind, id) == SpawnFor("product", kind, id)

(* The document of the product as it is. *)
Current ==
    IF product.there /\ ~product.deleted
    THEN [there |-> TRUE, status |-> product.status, sale |-> product.sale] ELSE Missing

(* indexProduct reads the row: a deleted product is removed.  The rebuild    *)
(* of the whole index reads the products that are not deleted, and removes   *)
(* none.                                                                     *)
ReadForIndex(t) ==
    /\ t \in tasks /\ t.at = "read"
    /\ tasks' = (tasks \ {t}) \cup
          (IF ~product.deleted THEN {[t EXCEPT !.at = "put", !.doc = Current]}
           ELSE IF t.of = "all" THEN {} ELSE {[t EXCEPT !.at = "remove"]})
    /\ UNCHANGED <<productParts, saving, saves, changes, index, productHistory>>

(* A rebuild that was alone, and put what the product still is. *)
Repairs(t) == t.of = "all" /\ tasks = {t} /\ t.doc = Current

(* index, delete and the product's part of bulk: done, or failed and only    *)
(* logged.                                                                   *)
ApplyToIndex(t) ==
    /\ t \in tasks /\ t.at \in {"put", "remove"}
    /\ tasks' = tasks \ {t}
    /\ \/ index' = t.doc /\ unsynced' = (unsynced /\ ~Repairs(t))
       \/ UNCHANGED index /\ unsynced' = TRUE
    /\ UNCHANGED <<productParts, saving, saves, changes, mixed, priceRaced, rebuilt, lineAdded,
                   blocked>>

(* The rebuild of the whole index; its read and its bulk come later. *)
reindexAll ==
    /\ saves + changes < MaxWork /\ changes' = changes + 1
    /\ product.there
    /\ SpawnFor("all", "read", MaxWork + changes')
    /\ UNCHANGED <<productParts, saving, saves, index, mixed, priceRaced, rebuilt, lineAdded, blocked>>

-----------------------------------------------------------------------------
(* Saves.  What the form or the row of the CSV says is checked first.        *)

Comparing == {a \in Admins : saving[a].op # "none" /\ saving[a].step = 1}

Begin(a, op, mrp, sale, sent, status) ==
    /\ saving[a].op = "none"
    /\ saves + changes < MaxWork
    /\ saves' = saves + 1
    /\ saving' = [saving EXCEPT ![a] = [op |-> op, step |-> 1, by |-> saves + 1, status |-> status,
                                        mrp |-> mrp, sale |-> sale, sent |-> sent, left |-> Skus]]
    /\ mixed' = (mixed \/ Busy # {})
    /\ priceRaced' = (priceRaced \/ Comparing # {})
    /\ UNCHANGED <<productParts, changes, searchParts, rebuilt, lineAdded, blocked, unsynced>>

createProduct(a) ==
    \E mrp, sale \in Prices, status \in FormStatus :
        ~product.there /\ sale <= mrp /\ Begin(a, "create", mrp, sale, {"mrp", "sale"}, status)

(* A price that is not sent is compared as read, and not written.           *)
UpdateWith(a, Fits(_, _)) ==
    \E mrp, sale \in Prices, status \in FormStatus, sent \in SUBSET {"mrp", "sale"} :
        /\ product.there /\ ~product.deleted
        /\ "mrp" \notin sent => mrp = product.mrp
        /\ "sale" \notin sent => sale = product.sale
        /\ IF sent = {"mrp", "sale"} THEN sale <= mrp ELSE Fits(sale, mrp)
        /\ Begin(a, "update", mrp, sale, sent, status)

(* Mutant: prices are compared when both are sent only. *)
updateProduct_SentOnly(a) == UpdateWith(a, LAMBDA s, m : TRUE)

updateProduct(a) == UpdateWith(a, LAMBDA s, m : s <= m)

importProduct(a) ==
    \E mrp, sale \in Prices, status \in FormStatus :
        sale <= mrp /\ Begin(a, "import", mrp, sale, {"mrp", "sale"}, status)

(* product.create, refused by the unique slug if it is there by now; or     *)
(* product.update, which an import also does to a deleted product.  The      *)
(* prices and the status of the request are not looked at again.             *)
WriteProduct(a) ==
    LET s == saving[a]
    IN  /\ At2(a, Write)
        /\ IF s.op = "create" /\ product.there
           THEN Throws(a) /\ UNCHANGED product
           ELSE /\ product' = [there |-> TRUE, deleted |-> product.deleted, status |-> s.status,
                               mrp |-> IF "mrp" \in s.sent THEN s.mrp ELSE product.mrp,
                               sale |-> IF "sale" \in s.sent THEN s.sale ELSE product.sale]
                /\ saving' = [saving EXCEPT ![a] = [NoSave EXCEPT !.op = s.op, !.step = 2, !.by = s.by,
                                                                 !.left = s.left]]
                /\ UNCHANGED <<mixed, unsynced>>
        /\ UNCHANGED <<list, variant, variants, orderLine, saves, changes, searchParts, priceRaced,
                       rebuilt, lineAdded, blocked>>

(* Mutant: the categories of the earlier save stay. *)
ClearList_Kept(a) ==
    /\ \E l \in Lists :
          At2(a, Clear(l)) /\ list' = [list EXCEPT ![l] = IF l = "categories" THEN @ ELSE {}]
    /\ Onward(a)
    /\ UNCHANGED <<product, variant, variants, orderLine, saves, changes, searchParts, productHistory>>

ClearList(a) ==
    /\ \E l \in Lists :
          At2(a, Clear(l)) /\ list' = [list EXCEPT ![l] = {}]
    /\ Onward(a)
    /\ UNCHANGED <<product, variant, variants, orderLine, saves, changes, searchParts, productHistory>>

(* Categories and collections skip what is there; a tag or an option that is *)
(* there again is refused; the SEO texts are overwritten.                    *)
FillList(a) ==
    /\ \E l \in Lists :
          /\ At2(a, Fill(l))
          /\ IF l \in {"tags", "options"} /\ list[l] # {}
             THEN Throws(a) /\ UNCHANGED list
             ELSE /\ list' = [list EXCEPT ![l] = IF l = "seo" THEN {saving[a].by}
                                                ELSE @ \cup {saving[a].by}]
                  /\ Onward(a) /\ UNCHANGED <<mixed, unsynced>>
    /\ UNCHANGED <<product, variant, variants, orderLine, saves, changes, searchParts, priceRaced,
                   rebuilt, lineAdded, blocked>>

(* Mutant: the lines in carts are left. *)
ClearLines_Left(a) ==
    /\ At2(a, Lines)
    /\ Onward(a)
    /\ UNCHANGED <<productParts, saves, changes, searchParts, productHistory>>

(* cartItem.deleteMany *)
ClearLines(a) ==
    /\ At2(a, Lines)
    /\ variant' = [i \in VariantIds |-> [variant[i] EXCEPT !.inCart = FALSE]]
    /\ Onward(a)
    /\ UNCHANGED <<product, list, variants, orderLine, saves, changes, searchParts, productHistory>>

(* productVariant.deleteMany: a cart line refers to its variant and refuses  *)
(* it.  Stock and reservations go with the variant, an order's line is left  *)
(* without one.                                                              *)
ClearVariants(a) ==
    /\ At2(a, DropVariants)
    /\ IF \E i \in Present : variant[i].inCart
       THEN /\ Throws(a)
            /\ blocked' = (blocked \/ saving[a].op = "update")
            /\ UNCHANGED <<variant, orderLine, rebuilt>>
       ELSE /\ variant' = [i \in VariantIds |-> [variant[i] EXCEPT !.there = FALSE]]
            /\ orderLine' = [o \in DOMAIN orderLine |-> 0]
            /\ rebuilt' = TRUE
            /\ Onward(a)
            /\ UNCHANGED <<blocked, mixed, unsynced>>
    /\ UNCHANGED <<product, list, variants, saves, changes, searchParts, priceRaced, lineAdded>>

(* One ProductVariant with its stock; a SKU that is there is refused. *)
AddVariant(a) ==
    \E k \in saving[a].left :
        /\ At2(a, AddVariants)
        /\ IF \E i \in Present : variant[i].sku = k
           THEN Throws(a) /\ UNCHANGED <<variant, variants>>
           ELSE /\ variants < MaxVariants
                /\ variants' = variants + 1
                /\ variant' = [variant EXCEPT ![variants + 1] =
                      [there |-> TRUE, sku |-> k, by |-> saving[a].by,
                       inCart |-> FALSE]]
                /\ saving' = [saving EXCEPT ![a].left = @ \ {k},
                                            ![a].step = IF saving[a].left = {k} THEN @ + 1 ELSE @]
                /\ UNCHANGED <<mixed, unsynced>>
        /\ UNCHANGED <<product, list, orderLine, saves, changes, searchParts, priceRaced, rebuilt,
                       lineAdded, blocked>>

EndSave(a) ==
    /\ At2(a, Reindex)
    /\ Spawn("read", saving[a].by)
    /\ saving' = [saving EXCEPT ![a] = NoSave]
    /\ UNCHANGED <<productParts, saves, changes, index, mixed, priceRaced, rebuilt, lineAdded, blocked>>

(* The connection breaks or the process ends. *)
SaveBreaks(a) ==
    /\ saving[a].op # "none"
    /\ saves + changes < MaxWork /\ changes' = changes + 1
    /\ Throws(a)
    /\ UNCHANGED <<productParts, saves, searchParts, priceRaced, rebuilt, lineAdded, blocked>>

-----------------------------------------------------------------------------
(* Changes that are one statement *)

Change1(p) ==
    /\ saves + changes < MaxWork /\ changes' = changes + 1
    /\ product.there
    /\ product' = p
    /\ UNCHANGED <<list, variant, variants, orderLine, saving, saves, index, mixed, rebuilt,
                   lineAdded, blocked>>

(* bulkProduct: products that are not deleted; each is indexed again.        *)
BulkStatus(s) ==
    /\ s # product.status /\ ~product.deleted
    /\ Change1([product EXCEPT !.status = s])
    /\ Spawn("read", MaxWork + changes')
    /\ UNCHANGED priceRaced

(* The MRP is not compared. *)
BulkSalePrice(s) ==
    /\ ~product.deleted
    /\ Change1([product EXCEPT !.sale = s])
    /\ Spawn("read", MaxWork + changes')
    /\ priceRaced' = TRUE

(* Mutant: a deleted product stays in the index. *)
deleteProduct_StaysIndexed ==
    /\ ~product.deleted
    /\ Change1([product EXCEPT !.deleted = TRUE, !.status = "ARCHIVED"])
    /\ UNCHANGED <<tasks, priceRaced, unsynced>>

(* Mutant: the rows of the variants are deleted with the product. *)
deleteProduct_Hard ==
    /\ saves + changes < MaxWork /\ changes' = changes + 1
    /\ product.there /\ ~product.deleted
    /\ product' = [product EXCEPT !.deleted = TRUE, !.status = "ARCHIVED"]
    /\ variant' = [i \in VariantIds |-> [variant[i] EXCEPT !.there = FALSE]]
    /\ orderLine' = [o \in DOMAIN orderLine |-> 0]
    /\ Spawn("remove", MaxWork + changes')
    /\ UNCHANGED <<list, variants, saving, saves, index, mixed, priceRaced, rebuilt, lineAdded, blocked>>

(* deleteProduct and the bulk delete: soft. *)
deleteProduct ==
    /\ ~product.deleted
    /\ Change1([product EXCEPT !.deleted = TRUE, !.status = "ARCHIVED"])
    /\ Spawn("remove", MaxWork + changes')
    /\ UNCHANGED priceRaced

(* AdminController.setStatus: any product, and the index is not told.        *)
setStatus(s) ==
    /\ s # product.status
    /\ Change1([product EXCEPT !.status = s])
    /\ unsynced' = TRUE
    /\ UNCHANGED <<tasks, priceRaced>>

-----------------------------------------------------------------------------
(* Customers *)

Buyable == {i \in Present : product.status = "ACTIVE" /\ ~product.deleted}
ClearingLines == \E a \in Admins : At2(a, DropVariants) /\ saving[a].op = "update"

AddToCart(i) ==
    /\ saves + changes < MaxWork /\ changes' = changes + 1
    /\ i \in Buyable /\ ~variant[i].inCart
    /\ variant' = [variant EXCEPT ![i].inCart = TRUE]
    /\ lineAdded' = (lineAdded \/ ClearingLines)
    /\ UNCHANGED <<product, list, variants, orderLine, saving, saves, searchParts, mixed, priceRaced,
                   rebuilt, blocked, unsynced>>

PlaceOrder(i) ==
    /\ saves + changes < MaxWork /\ changes' = changes + 1
    /\ i \in Buyable /\ variant[i].inCart
    /\ variant' = [variant EXCEPT ![i].inCart = FALSE]
    /\ orderLine' = Append(orderLine, i)
    /\ UNCHANGED <<product, list, variants, saving, saves, searchParts, productHistory>>

-----------------------------------------------------------------------------
StartSave(a) == createProduct(a) \/ updateProduct(a) \/ importProduct(a)
RunSave(a) ==
    \/ WriteProduct(a) \/ ClearList(a) \/ FillList(a) \/ ClearLines(a) \/ ClearVariants(a)
    \/ AddVariant(a) \/ EndSave(a) \/ SaveBreaks(a)

ProductNext ==
    \/ \E a \in Admins : StartSave(a) \/ RunSave(a)
    \/ \E s \in Statuses : BulkStatus(s) \/ setStatus(s)
    \/ \E p \in Prices : BulkSalePrice(p)
    \/ deleteProduct
    \/ \E i \in VariantIds : AddToCart(i) \/ PlaceOrder(i)
    \/ \E t \in tasks : ReadForIndex(t) \/ ApplyToIndex(t)
    \/ reindexAll

ProductSpec == ProductInit /\ [][ProductNext]_prodVars
-----------------------------------------------------------------------------
(* Properties *)

(* Rows, saves and documents stay in their types. *)
ProductTypeOK ==
    /\ product \in Product /\ variant \in [VariantIds -> Variant] /\ variants \in 0..MaxVariants
    /\ list \in [Lists -> SUBSET SaveIds]
    /\ \A o \in DOMAIN orderLine : orderLine[o] \in 0..variants
    /\ saving \in [Admins -> Saving]
    /\ index \in Document /\ tasks \subseteq Task

(* "Full replace ... keeps state predictable": between saves, the lists of   *)
(* the product and its variants are those of one save, each SKU once,        *)
(* whatever was saved and imported before; only saves that overlap or stop   *)
(* half way mix them.                                                        *)
SavedWhole ==
    ~mixed /\ Busy = {} /\ product.there =>
        \E s \in 0..saves :
            /\ \A l \in Lists \ {"collections", "seo"} : list[l] = {s}
            /\ \A l \in {"collections", "seo"} : Cardinality(list[l]) <= 1
            /\ \A i \in Present : variant[i].by = s
            /\ {variant[i].sku : i \in Present} = Skus

(* "Sale price cannot exceed MRP", for every mixture of saves and imports,   *)
(* except a bulk price or one that changes between a save's look and its     *)
(* write.                                                                    *)
PriceWithinMrp == ~priceRaced => product.sale <= product.mrp

(* "Soft delete - keeps order history intact": an order's line keeps its     *)
(* variant until a save or an import replaces the variants.                  *)
OrdersKeepVariants ==
    ~rebuilt => \A o \in DOMAIN orderLine : orderLine[o] \in Present

(* "drop them first so a restructure never 500s": a save of the form is      *)
(* refused because of a cart line only if the line came in between.          *)
BlockedOnlyByNewLine == blocked => lineAdded

(* "reindex on catalog writes": once no update is under way the document is  *)
(* the product's, unless updates of the index overlapped, one failed, or the *)
(* status was switched alone; and not even then if a rebuild came after that *)
(* which was alone, did not fail and put what the product still was.         *)
IndexFollowsProduct == tasks = {} /\ Busy = {} /\ ~unsynced => index = Current

(* A product after its saves, imports, bulk changes and deletions, with the  *)
(* carts and orders that name its variants.                                  *)
ProductIsWhole == SavedWhole /\ PriceWithinMrp /\ OrdersKeepVariants /\ BlockedOnlyByNewLine
=============================================================================
