-------------------------------- MODULE Seed --------------------------------
(***************************************************************************)
(* The seed script (packages/db/prisma/seed.ts), run by hand against a      *)
(* database in use: it may be run again, may stop anywhere, repeats a       *)
(* statement whose connection was lost, and builds several products at      *)
(* once, while customers shop and administrators edit.                      *)
(*                                                                         *)
(* Rows are kept as far as the script tells them apart: how many there are  *)
(* of a kind it looks up before it creates one, whether a value is the      *)
(* seed's or an administrator's, which variants of a product exist.         *)
(***************************************************************************)
EXTENDS Integers, Sequences, FiniteSets

CONSTANTS
    SeedProducts,  \* products of CATALOG, all of one batch
    MaxRuns,       \* bound on runs
    MaxRetries,    \* bound on statements executed twice
    MaxStops,      \* bound on runs that stop half way
    MaxEditsMade,  \* bound on changes by administrators
    MaxShopped     \* bound on steps of customers

ASSUME SeedAssumption ==
    {MaxRuns, MaxRetries, MaxStops, MaxEditsMade, MaxShopped} \subseteq Nat

RowKinds == {"rate", "menuItem", "section", "slide", "testimonial"}   \* found, or created
ValueKinds == {"admin", "category", "setting"}                         \* upserted
SetKinds == {"grants", "grid"}                                         \* cleared and filled
Combos == 1 .. 2                                                   \* size and colour

Do(what, of) == [do |-> what, of |-> of]
Script == << Do("clear", "grants"), Do("fill", "grants"), Do("upsert", "admin"),
             Do("upsert", "category"), Do("find", "rate"), Do("create", "rate"),
             Do("upsert", "setting"), Do("find", "menuItem"), Do("create", "menuItem"),
             Do("find", "section"), Do("create", "section"), Do("clear", "grid"),
             Do("fill", "grid"), Do("retire", "slide"), Do("find", "slide"),
             Do("create", "slide"), Do("clearCarts", "items"), Do("clearCarts", "carts"),
             Do("build", "products"), Do("find", "testimonial"), Do("create", "testimonial") >>
NotRunning == 0
Finished == Len(Script) + 1

VARIABLES
    seedAt,      \* the statement the run has come to
    lookedUp,    \* rows its last look-up found
    rowsOf,      \* rowsOf[k]: rows of kind k
    autumn,      \* the slide of an earlier release is there
    valueOf,     \* valueOf[v]: missing, the seed's or an administrator's
    setOf,       \* setOf[s], likewise
    building,    \* building[p]: how far the building of p has come
    productRow,  \* productRow[p]: the Product row
    images,      \* images[p]: its media rows
    skuRows,     \* skuRows[p][c]: the variant, and the units reserved of it
    seedBag,     \* a customer's cart and its line, if there are any
    ordered,     \* an open order's line, and whether it names its variant
    runs, retries, stops, editsMade, shopped,   \* bounded counters
    touchedBy,     \* history: what administrators changed since the run began
    repeated     \* history: what a repeated statement may have created twice

seedVars == <<seedAt, lookedUp, rowsOf, autumn, valueOf, setOf, building, productRow, images,
              skuRows, seedBag, ordered, runs, retries, stops, editsMade, shopped, touchedBy,
              repeated>>

BuildSteps == {"wait", "clearMedia", "fillMedia", "drop", "create", "built"}
NoSku == [there |-> FALSE, reserved |-> 0]
NoSkuLine == [of |-> "none"]
SkuLine == [of : SeedProducts, combo : Combos]
NoBag == [cart |-> FALSE, line |-> NoSkuLine]
NoSeedOrder == [open |-> FALSE, line |-> NoSkuLine, linked |-> FALSE]

SeedInit ==
    /\ seedAt = NotRunning /\ lookedUp = 0
    /\ autumn \in BOOLEAN    \* a new database, or one an earlier release has seeded
    /\ rowsOf = [k \in RowKinds |-> IF autumn /\ k # "slide" THEN 1 ELSE 0]
    /\ valueOf = [v \in ValueKinds |-> IF autumn THEN "seeded" ELSE "missing"]
    /\ setOf = [s \in SetKinds |-> IF autumn THEN "seeded" ELSE "empty"]
    /\ building = [p \in SeedProducts |-> "wait"]
    /\ productRow = [p \in SeedProducts |-> "missing"]
    /\ images = [p \in SeedProducts |-> "empty"]
    /\ skuRows = [p \in SeedProducts |-> [c \in Combos |-> NoSku]]
    /\ seedBag = NoBag /\ ordered = NoSeedOrder
    /\ runs = 0 /\ retries = 0 /\ stops = 0 /\ editsMade = 0 /\ shopped = 0
    /\ touchedBy = {} /\ repeated = {}

structure == <<lookedUp, rowsOf, autumn, valueOf, setOf>>
products == <<building, productRow, images, skuRows>>
trade == <<seedBag, ordered>>
seedBounds == <<runs, retries, stops, editsMade, shopped>>

-----------------------------------------------------------------------------
(* The script *)

StartSeed ==
    /\ seedAt = NotRunning /\ runs < MaxRuns
    /\ seedAt' = 1 /\ runs' = runs + 1 /\ touchedBy' = {}
    /\ building' = [p \in SeedProducts |-> "wait"]
    /\ UNCHANGED <<structure, productRow, images, skuRows, trade, retries, stops, editsMade,
                   shopped, repeated>>

AtStatement(do) == seedAt \in 1 .. Len(Script) /\ Script[seedAt].do = do
Of == Script[seedAt].of
Proceeds == seedAt' = seedAt + 1
TwiceRun == retries < MaxRetries /\ retries' = retries + 1 /\ repeated' = repeated \cup {Of}
OnceRun == UNCHANGED <<retries, repeated>>
RestOfSeed == UNCHANGED <<products, runs, stops, editsMade, shopped, touchedBy>>

(* deleteMany *)
ClearSet ==
    /\ AtStatement("clear") /\ Proceeds
    /\ setOf' = [setOf EXCEPT ![Of] = "empty"]
    /\ UNCHANGED <<lookedUp, rowsOf, autumn, valueOf, trade, retries, repeated>> /\ RestOfSeed

(* createMany, of the grants with skipDuplicates. *)
FillSet ==
    /\ AtStatement("fill") /\ Proceeds
    /\ \/ setOf' = [setOf EXCEPT ![Of] = "seeded"] /\ OnceRun
       \/ Of = "grid" /\ setOf' = [setOf EXCEPT ![Of] = "twice"] /\ TwiceRun
    /\ UNCHANGED <<lookedUp, rowsOf, autumn, valueOf, trade>> /\ RestOfSeed

(* What update: writes of a row that is there; a setting keeps its value. *)
Rewritten == {"admin", "category"}

Upsert ==
    /\ AtStatement("upsert") /\ Proceeds
    /\ valueOf' = IF valueOf[Of] = "missing" \/ Of \in Rewritten
                 THEN [valueOf EXCEPT ![Of] = "seeded"] ELSE valueOf
    /\ UNCHANGED <<lookedUp, rowsOf, autumn, setOf, trade, retries, repeated>> /\ RestOfSeed

LookUp ==
    /\ AtStatement("find") /\ Proceeds
    /\ lookedUp' = rowsOf[Of] + (IF Of = "slide" /\ autumn THEN 1 ELSE 0)
    /\ UNCHANGED <<rowsOf, autumn, valueOf, setOf, trade, retries, repeated>> /\ RestOfSeed

(* Mutant: created whatever was found. *)
CreateMissing_Always ==
    /\ AtStatement("create") /\ Proceeds /\ OnceRun
    /\ rowsOf' = [rowsOf EXCEPT ![Of] = @ + 1]
    /\ UNCHANGED <<lookedUp, autumn, valueOf, setOf, trade>> /\ RestOfSeed

(* No key makes these rows unique: a repeated statement adds another. *)
CreateMissing ==
    /\ AtStatement("create") /\ Proceeds
    /\ \/ lookedUp > 0 /\ UNCHANGED rowsOf /\ OnceRun
       \/ lookedUp = 0 /\ rowsOf' = [rowsOf EXCEPT ![Of] = @ + 1] /\ OnceRun
       \/ lookedUp = 0 /\ rowsOf' = [rowsOf EXCEPT ![Of] = @ + 2] /\ TwiceRun
    /\ UNCHANGED <<lookedUp, autumn, valueOf, setOf, trade>> /\ RestOfSeed

Retire ==
    /\ AtStatement("retire") /\ Proceeds
    /\ autumn' = FALSE
    /\ UNCHANGED <<lookedUp, rowsOf, valueOf, setOf, trade, retries, repeated>> /\ RestOfSeed

ClearCarts ==
    /\ AtStatement("clearCarts") /\ Proceeds
    /\ seedBag' = IF Of = "items" THEN [seedBag EXCEPT !.line = NoSkuLine] ELSE NoBag
    /\ UNCHANGED <<structure, ordered, retries, repeated>> /\ RestOfSeed

(* buildOne *)

Building(p, s) == AtStatement("build") /\ building[p] = s
To(p, s) == building' = [building EXCEPT ![p] = s]
RestOfBuild == UNCHANGED <<seedAt, structure, seedBag, runs, stops, editsMade, shopped, touchedBy>>

UpsertProduct(p) ==
    /\ Building(p, "wait") /\ To(p, "clearMedia")
    /\ productRow' = [productRow EXCEPT ![p] = "seeded"]
    /\ UNCHANGED <<images, skuRows, ordered, retries, repeated>> /\ RestOfBuild

ClearImages(p) ==
    /\ Building(p, "clearMedia") /\ To(p, "fillMedia")
    /\ images' = [images EXCEPT ![p] = "empty"]
    /\ UNCHANGED <<productRow, skuRows, ordered, retries, repeated>> /\ RestOfBuild

FillImages(p) ==
    /\ Building(p, "fillMedia") /\ To(p, "drop")
    /\ \/ images' = [images EXCEPT ![p] = "seeded"] /\ OnceRun
       \/ images' = [images EXCEPT ![p] = "twice"] /\ TwiceRun
    /\ UNCHANGED <<productRow, skuRows, ordered>> /\ RestOfBuild

(* Options, levels and movements go with the variants, order lines lose their *)
(* link; a cart line that names one makes the database refuse (CartsRefused).*)
DropSkus(p) ==
    /\ Building(p, "drop") /\ seedBag.line.of # p /\ To(p, "create")
    /\ skuRows' = [skuRows EXCEPT ![p] = [c \in Combos |-> NoSku]]
    /\ ordered' = IF ordered.line.of = p THEN [ordered EXCEPT !.linked = FALSE] ELSE ordered
    /\ UNCHANGED <<productRow, images, retries, repeated>> /\ RestOfBuild

(* The SKU is unique. *)
CreateSku(p, c) ==
    /\ Building(p, "create")
    /\ ~skuRows[p][c].there /\ \A d \in 1 .. c - 1 : skuRows[p][d].there
    /\ skuRows' = [skuRows EXCEPT ![p][c] = [there |-> TRUE, reserved |-> 0]]
    /\ building' = IF c = Cardinality(Combos) THEN [building EXCEPT ![p] = "built"] ELSE building
    /\ UNCHANGED <<productRow, images, ordered, retries, repeated>> /\ RestOfBuild

CatalogBuilt ==
    /\ AtStatement("build") /\ \A p \in SeedProducts : building[p] = "built"
    /\ Proceeds
    /\ UNCHANGED <<structure, trade, retries, repeated>> /\ RestOfSeed

(* Refused by the database: a line was put into a new cart meanwhile, or a    *)
(* repeated create finds the key it has just taken.  Or the process is        *)
(* killed, anywhere.                                                         *)
CartsRefused ==
    AtStatement("build") /\ \E p \in SeedProducts : building[p] = "drop" /\ seedBag.line.of = p
Killed == stops < MaxStops

StopSeed ==
    /\ seedAt \in 1 .. Len(Script)
    /\ \/ CartsRefused /\ UNCHANGED stops
       \/ Killed /\ stops' = stops + 1
    /\ seedAt' = NotRunning
    /\ UNCHANGED <<structure, products, trade, runs, retries, editsMade, shopped, touchedBy, repeated>>

EndSeed ==
    /\ seedAt = Finished /\ seedAt' = NotRunning
    /\ UNCHANGED <<structure, products, trade, seedBounds, touchedBy, repeated>>

-----------------------------------------------------------------------------
(* Everybody else (external to the script) *)

(* An administrator edits a value or a set, or removes or adds a row. *)
EditSeeded ==
    /\ editsMade < MaxEditsMade /\ editsMade' = editsMade + 1
    /\ \/ \E v \in ValueKinds :
            /\ valueOf[v] # "missing" /\ valueOf' = [valueOf EXCEPT ![v] = "edited"]
            /\ touchedBy' = touchedBy \cup {v} /\ UNCHANGED <<rowsOf, setOf>>
       \/ \E s \in SetKinds :
            /\ setOf[s] # "empty" /\ setOf' = [setOf EXCEPT ![s] = "edited"]
            /\ touchedBy' = touchedBy \cup {s} /\ UNCHANGED <<rowsOf, valueOf>>
       \/ \E k \in RowKinds, n \in {-1, 1} :
            /\ rowsOf[k] + n \in 0 .. 2 /\ rowsOf' = [rowsOf EXCEPT ![k] = @ + n]
            /\ touchedBy' = touchedBy \cup {k} /\ UNCHANGED <<setOf, valueOf>>
    /\ UNCHANGED <<seedAt, lookedUp, autumn, products, trade, runs, retries, stops, shopped, repeated>>

Shopping == shopped < MaxShopped /\ shopped' = shopped + 1
RestOfShop == UNCHANGED <<seedAt, structure, building, productRow, images, runs, retries, stops, editsMade,
                          touchedBy, repeated>>

AddToBag(p, c) ==
    /\ Shopping /\ seedBag.line = NoSkuLine /\ skuRows[p][c].there
    /\ seedBag' = [cart |-> TRUE, line |-> [of |-> p, combo |-> c]]
    /\ UNCHANGED <<skuRows, ordered>> /\ RestOfShop

(* placeOrder, one transaction: the unit is reserved. *)
OrderBag ==
    /\ Shopping /\ seedBag.line # NoSkuLine /\ ~ordered.open
    /\ ordered' = [open |-> TRUE, line |-> seedBag.line, linked |-> TRUE]
    /\ skuRows' = [skuRows EXCEPT ![seedBag.line.of][seedBag.line.combo].reserved = @ + 1]
    /\ UNCHANGED seedBag /\ RestOfShop

(* finalizePayment: the reservation is committed, the cart is emptied. *)
PayOrder ==
    /\ Shopping /\ ordered.open
    /\ ordered' = NoSeedOrder
    /\ skuRows' = IF ordered.linked
                   THEN [skuRows EXCEPT ![ordered.line.of][ordered.line.combo].reserved = @ - 1]
                   ELSE skuRows
    /\ seedBag' = [seedBag EXCEPT !.line = NoSkuLine]
    /\ RestOfShop

-----------------------------------------------------------------------------
SeedNext ==
    \/ StartSeed \/ ClearSet \/ FillSet \/ Upsert \/ LookUp \/ CreateMissing \/ Retire \/ ClearCarts
    \/ CatalogBuilt \/ StopSeed \/ EndSeed
    \/ \E p \in SeedProducts :
         \/ UpsertProduct(p) \/ ClearImages(p) \/ FillImages(p) \/ DropSkus(p)
         \/ \E c \in Combos : CreateSku(p, c) \/ AddToBag(p, c)
    \/ EditSeeded \/ OrderBag \/ PayOrder

SeedSpec == SeedInit /\ [][SeedNext]_seedVars
-----------------------------------------------------------------------------
(* Properties *)

(* Rows, products, carts and the run keep their types. *)
SeedTypeOK ==
    /\ seedAt \in 0 .. Finished /\ lookedUp \in Nat /\ rowsOf \in [RowKinds -> Nat] /\ autumn \in BOOLEAN
    /\ valueOf \in [ValueKinds -> {"missing", "seeded", "edited"}]
    /\ setOf \in [SetKinds -> {"empty", "seeded", "twice", "edited"}]
    /\ building \in [SeedProducts -> BuildSteps] /\ productRow \in [SeedProducts -> {"missing", "seeded"}]
    /\ images \in [SeedProducts -> {"empty", "seeded", "twice"}]
    /\ skuRows \in [SeedProducts -> [Combos -> [there : BOOLEAN, reserved : Nat]]]
    /\ seedBag.line \in SkuLine \cup {NoSkuLine} /\ ordered.line \in SkuLine \cup {NoSkuLine}

(* A run that gets to its end repairs whatever earlier ones left half done:   *)
(* every row is there and every product can be bought.  A statement that was  *)
(* repeated may have doubled a row, and what administrators changed meanwhile *)
(* is theirs.                                                                *)
SeedRepairs ==
    seedAt = Finished =>
        /\ \A k \in RowKinds \ (touchedBy \cup repeated) : rowsOf[k] >= 1
        /\ \A s \in SetKinds \ (touchedBy \cup repeated) : setOf[s] = "seeded"
        /\ \A v \in ValueKinds : valueOf[v] # "missing"
        /\ \A p \in SeedProducts :
              /\ productRow[p] = "seeded" /\ images[p] # "empty"
              /\ images[p] = "twice" => "products" \in repeated
              /\ \A c \in Combos : skuRows[p][c].there

(* Without administrators and repeated statements there is one row of each    *)
(* kind at most, however often the script runs and wherever it stops.         *)
NothingTwice == editsMade = 0 /\ repeated = {} => \A k \in RowKinds : rowsOf[k] <= 1

(* An order line that still names its variant still has its unit reserved.    *)
LinkedIsReserved ==
    ordered.open /\ ordered.linked =>
        LET v == skuRows[ordered.line.of][ordered.line.combo] IN v.there /\ v.reserved = 1

(* Together: what a run may be relied on for. *)
SeedIsRepeatable == SeedRepairs /\ NothingTwice /\ LinkedIsReserved
=============================================================================
