---------------------------- MODULE ProductForm ----------------------------
(***************************************************************************)
(* The editor of a product (admin: ProductForm and the page that loads it): *)
(* a table of variants derived from two lists while the editor types, with  *)
(* SKUs, stock and prices kept by combination, loaded from a product that   *)
(* is sold and re-priced meanwhile, and saved as a whole.                   *)
(*                                                                          *)
(* A save is one step here; its statements are in ProductAdmin.  Nobody     *)
(* leaves the page, or saves from another one, while a save is in flight.   *)
(***************************************************************************)
EXTENDS Integers, FiniteSets, Functions

CONSTANTS
    Sizes, Colours,   \* values an editor lists
    SkuBases,         \* what slug or name contribute to a SKU
    TypedSkus,        \* SKUs an editor types
    Amounts,          \* prices; 0: blank, or null in a row
    Mrp,
    Counts,           \* stock an editor types
    MaxFormChanges    \* bound on changes of the form, sales and bulk prices together

ASSUME FormAssumption ==
    /\ SkuBases # {} /\ Sizes \cap Colours = {} /\ SkuBases \cap TypedSkus = {}
    /\ Amounts \subseteq Nat \ {0} /\ Counts \subseteq Nat
    /\ {Mrp, MaxFormChanges} \subseteq Nat

VARIABLES
    saved,         \* the product; sizes and colours: its options; unsent, of it and of a row:
                   \* what the form neither shows nor sends is not what a new one has
    editor,        \* the form on the page
    loaded,        \* the product when the page was opened
    request,       \* the save in flight
    asked,         \* the suggestion in flight: the text when it was asked for
    cellsTyped,    \* history: <<column, combination>> typed since the page was opened
    moved,         \* history: combinations sold since then
    textTyped,     \* history: the text on the page is the editor's
    asMeant,       \* history: every save kept what it should
    formChanges

formVars == <<saved, editor, loaded, request, asked, cellsTyped, moved, textTyped, asMeant, formChanges>>

NoValue == "none"
DefaultStock == 10
Axis(S) == IF S = {} THEN {NoValue} ELSE S
Unlabelled == [size |-> NoValue, colour |-> NoValue]
Combinations == [size : Sizes \cup {NoValue}, colour : Colours \cup {NoValue}] \ {Unlabelled}

(* Every size with every colour, or the one list there is. *)
Matrix(sizes, colours) == [size : Axis(sizes), colour : Axis(colours)] \ {Unlabelled}

Texts == {"", "typed", "suggested"}
SkuOf(base, c) == [from |-> base, of |-> c]
RowSkus == [from : SkuBases \cup TypedSkus, of : Combinations \cup {Unlabelled}]
TableRow == [sku : RowSkus, stock : Nat, price : Amounts \cup {0}, unsent : BOOLEAN]
Partial(D, R) == UNION {[S -> R] : S \in SUBSET D}

NoneAsked == "nothing"
NoneInFlight == [sent |-> FALSE]
Nothing == [c \in {} |-> 0]

FirstBase == CHOOSE b \in SkuBases : TRUE

(* The form of a product that is new. *)
EmptyForm ==
    [open |-> TRUE, base |-> FirstBase, price |-> 0, text |-> "",
     sizes |-> Sizes, colours |-> {}, stock |-> Nothing, skus |-> Nothing, prices |-> Nothing]

(* toForm: prices that differ from the product's are those of the row. *)
LoadedPrices_All(p) == [c \in {d \in DOMAIN p.rows : p.rows[d].price # 0} |-> p.rows[c].price]
LoadedPrices(p) ==
    [c \in {d \in DOMAIN p.rows : p.rows[d].price \notin {0, p.price}} |-> p.rows[c].price]

toForm(p) ==
    [open |-> TRUE, base |-> p.base, price |-> p.price, text |-> p.text,
     sizes |-> p.sizes, colours |-> p.colours,
     stock |-> [c \in DOMAIN p.rows |-> p.rows[c].stock],
     skus |-> [c \in DOMAIN p.rows |-> p.rows[c].sku],
     prices |-> LoadedPrices(p)]

NoProduct == [there |-> FALSE, base |-> FirstBase, price |-> 0, text |-> "",
              sizes |-> {}, colours |-> {}, rows |-> Nothing, unsent |-> FALSE]

Stored(p, own, sizes, colours, unsent) ==
    [there |-> TRUE, base |-> FirstBase, price |-> p, text |-> "", sizes |-> sizes, colours |-> colours,
     rows |-> [c \in Matrix(sizes, colours) |->
                  [sku |-> SkuOf(FirstBase, c), stock |-> 1, price |-> own, unsent |-> unsent]],
     unsent |-> unsent]

(* A new product, or one that was saved, imported or sent to the API: its    *)
(* rows have a price of their own, or none; only the API takes what the form *)
(* does not send: that a variant is not active, its MRP, cost and weight,    *)
(* and of an image the text and the type.                                    *)
FormInit ==
    /\ \/ saved = NoProduct
       \/ \E p \in Amounts, own \in Amounts \cup {0}, sizes \in (SUBSET Sizes) \ {{}}, colours \in {{}, Colours},
             unsent \in BOOLEAN :
             saved = Stored(p, own, sizes, colours, unsent)
    /\ saved.price <= Mrp
    /\ \A c \in DOMAIN saved.rows : saved.rows[c].price <= Mrp
    /\ editor = [EmptyForm EXCEPT !.open = FALSE]
    /\ loaded = NoProduct /\ request = NoneInFlight /\ asked = NoneAsked
    /\ cellsTyped = {} /\ moved = {} /\ textTyped = FALSE /\ asMeant = TRUE
    /\ formChanges = 0

-----------------------------------------------------------------------------
(* The page *)

OpenEditor ==
    /\ ~editor.open
    /\ editor' = IF saved.there THEN toForm(saved) ELSE EmptyForm
    /\ loaded' = saved /\ cellsTyped' = {} /\ moved' = {} /\ textTyped' = FALSE
    /\ UNCHANGED <<saved, request, asked, asMeant, formChanges>>

(* Another page: what was typed is gone, a suggestion finds no form. *)
LeaveEditor ==
    /\ editor.open /\ request = NoneInFlight
    /\ editor' = [EmptyForm EXCEPT !.open = FALSE] /\ asked' = NoneAsked /\ textTyped' = FALSE
    /\ UNCHANGED <<saved, loaded, request, cellsTyped, moved, asMeant, formChanges>>

Typing(f) ==
    /\ editor.open /\ formChanges < MaxFormChanges /\ formChanges' = formChanges + 1
    /\ f # editor /\ editor' = f
    /\ UNCHANGED <<saved, loaded, request, asked, moved, asMeant>>

(* The lists; a row that leaves the table is remembered. *)
EditLists ==
    /\ \/ \E sizes \in SUBSET Sizes : Typing([editor EXCEPT !.sizes = sizes])
       \/ \E colours \in SUBSET Colours : Typing([editor EXCEPT !.colours = colours])
    /\ UNCHANGED <<cellsTyped, textTyped>>

EditProduct ==
    /\ \/ \E b \in SkuBases : Typing([editor EXCEPT !.base = b])
       \/ \E p \in Amounts \cup {0} : Typing([editor EXCEPT !.price = p])
    /\ UNCHANGED <<cellsTyped, textTyped>>

EditText ==
    \E t \in {"", "typed"} :
        Typing([editor EXCEPT !.text = t]) /\ textTyped' = (t = "typed") /\ UNCHANGED cellsTyped

(* One cell, filled. *)
Filled(f, c, v) == [d \in DOMAIN f \cup {c} |-> IF d = c THEN v ELSE f[d]]

(* One cell of the table.  A blank SKU or price is none. *)
EditRow(c) ==
    /\ c \in Matrix(editor.sizes, editor.colours)
    /\ \E column \in {"sku", "stock", "price"} :
          /\ cellsTyped' = cellsTyped \cup {<<column, c>>}
          /\ \/ column = "sku"
                /\ \E s \in TypedSkus :
                      Typing([editor EXCEPT !.skus = Filled(@, c, SkuOf(s, Unlabelled))])
             \/ column = "sku" /\ Typing([editor EXCEPT !.skus = Restrict(@, DOMAIN @ \ {c})])
             \/ column = "stock" /\ \E n \in Counts : Typing([editor EXCEPT !.stock = Filled(@, c, n)])
             \/ column = "price" /\ \E p \in Amounts : Typing([editor EXCEPT !.prices = Filled(@, c, p)])
             \/ column = "price" /\ Typing([editor EXCEPT !.prices = Restrict(@, DOMAIN @ \ {c})])
    /\ UNCHANGED textTyped

-----------------------------------------------------------------------------
(* Suggestions for the texts: they fill what is blank when they arrive.      *)

runAiSuggest ==
    /\ editor.open /\ asked = NoneAsked
    /\ formChanges < MaxFormChanges /\ formChanges' = formChanges + 1
    /\ asked' = editor.text
    /\ UNCHANGED <<saved, editor, loaded, request, cellsTyped, moved, textTyped, asMeant>>

(* Mutant: what was blank when they were asked for. *)
Blank_WhenAsked == asked = ""
Blank == editor.text = ""

Suggested ==
    /\ editor.open /\ asked # NoneAsked
    /\ asked' = NoneAsked
    /\ editor' \in {editor, [editor EXCEPT !.text = IF Blank THEN "suggested" ELSE @]}
    /\ UNCHANGED <<saved, loaded, request, cellsTyped, moved, textTyped, asMeant, formChanges>>

-----------------------------------------------------------------------------
(* Saving *)

(* Mutants: SKUs are always made anew; a stock of 0 reads as none. *)
CellSku_Anew(c) == SkuOf(editor.base, c)
CellStock_Falsy(c) ==
    IF c \in DOMAIN editor.stock /\ editor.stock[c] # 0 THEN editor.stock[c] ELSE DefaultStock

CellSku(c) == IF c \in DOMAIN editor.skus THEN editor.skus[c] ELSE SkuOf(editor.base, c)
CellStock(c) == IF c \in DOMAIN editor.stock THEN editor.stock[c] ELSE DefaultStock
CellPrice(c) == IF c \in DOMAIN editor.prices THEN editor.prices[c] ELSE editor.price

(* What submit checks, and sends. *)
submit ==
    LET table == Matrix(editor.sizes, editor.colours)
    IN  /\ editor.open /\ request = NoneInFlight
        /\ editor.price # 0 /\ editor.price <= Mrp
        /\ table # {}
        /\ \A c \in table \cap DOMAIN editor.prices : editor.prices[c] <= Mrp
        /\ request' = [sent |-> TRUE, base |-> editor.base, price |-> editor.price, text |-> editor.text,
                       sizes |-> editor.sizes, colours |-> editor.colours,
                       rows |-> [c \in table |-> [sku |-> CellSku(c), stock |-> CellStock(c),
                                                  price |-> CellPrice(c), unsent |-> FALSE]],
                       touched |-> cellsTyped]
        /\ UNCHANGED <<saved, editor, loaded, asked, cellsTyped, moved, textTyped, asMeant, formChanges>>

(* For the combinations that were there when the page was opened and are     *)
(* there after the save: what the form shows and the editor did not type is  *)
(* as it was, a price follows the product's unless it was one of its own,    *)
(* and what the form does not send is what a new row has.                    *)
Meant(written) ==
    \A c \in DOMAIN written \cap DOMAIN loaded.rows :
        LET was == loaded.rows[c]
        IN  /\ <<"sku", c>> \notin request.touched => written[c].sku = was.sku
            /\ <<"stock", c>> \notin request.touched /\ c \in DOMAIN saved.rows \ moved =>
                  written[c].stock = saved.rows[c].stock
            /\ <<"price", c>> \notin request.touched =>
                  written[c].price = IF was.price \in {0, loaded.price} THEN request.price ELSE was.price
            /\ ~written[c].unsent

(* A blank text is not sent.  The images are sent as addresses only. *)
ProductAfter(written) ==
    [there |-> TRUE, base |-> request.base, price |-> request.price,
     text |-> IF request.text = "" THEN saved.text ELSE request.text,
     sizes |-> request.sizes, colours |-> request.colours, rows |-> written, unsent |-> FALSE]

(* A save that is carried out replaces the rows; the form of a new product   *)
(* gives way to that of the product, which is loaded.                        *)
SaveDone ==
    /\ request.sent /\ IsInjective([c \in DOMAIN request.rows |-> request.rows[c].sku])
    /\ saved' = ProductAfter(request.rows)
    /\ asMeant' = (asMeant /\ Meant(request.rows))
    /\ request' = NoneInFlight
    /\ IF loaded.there
       THEN UNCHANGED <<editor, loaded, asked, cellsTyped, moved, textTyped>>
       ELSE /\ editor' = toForm(saved') /\ loaded' = saved' /\ asked' = NoneAsked
            /\ cellsTyped' = {} /\ moved' = {} /\ textTyped' = FALSE
    /\ UNCHANGED formChanges

(* A SKU that is there is refused: the rows before it were written.  A new   *)
(* product whose save stopped half way is no longer this form's.             *)
SaveRefused ==
    /\ request.sent
    /\ \E done \in SUBSET DOMAIN request.rows :
          /\ IsInjective([c \in done |-> request.rows[c].sku])
          /\ \E c \in DOMAIN request.rows \ done, d \in done : request.rows[c].sku = request.rows[d].sku
          /\ saved' = IF loaded.there THEN ProductAfter(Restrict(request.rows, done)) ELSE saved
    /\ request' = NoneInFlight
    /\ UNCHANGED <<editor, loaded, asked, cellsTyped, moved, textTyped, asMeant, formChanges>>

(* It did not reach the server. *)
SaveLost ==
    /\ request.sent /\ request' = NoneInFlight
    /\ UNCHANGED <<saved, editor, loaded, asked, cellsTyped, moved, textTyped, asMeant, formChanges>>

-----------------------------------------------------------------------------
(* Meanwhile *)

SellUnit(c) ==
    /\ formChanges < MaxFormChanges /\ formChanges' = formChanges + 1
    /\ c \in DOMAIN saved.rows /\ saved.rows[c].stock > 0
    /\ saved' = [saved EXCEPT !.rows[c].stock = @ - 1]
    /\ moved' = moved \cup {c}
    /\ UNCHANGED <<editor, loaded, request, asked, cellsTyped, textTyped, asMeant>>

(* The bulk price is the product's: the rows keep theirs. *)
SetBulkPrice(p) ==
    /\ formChanges < MaxFormChanges /\ formChanges' = formChanges + 1
    /\ saved.there /\ saved' = [saved EXCEPT !.price = p]
    /\ UNCHANGED <<editor, loaded, request, asked, cellsTyped, moved, textTyped, asMeant>>

-----------------------------------------------------------------------------
FormNext ==
    \/ OpenEditor \/ LeaveEditor \/ EditLists \/ EditProduct \/ EditText
    \/ \E c \in Combinations : EditRow(c) \/ SellUnit(c)
    \/ runAiSuggest \/ Suggested
    \/ submit \/ SaveDone \/ SaveRefused \/ SaveLost
    \/ \E p \in Amounts : SetBulkPrice(p)

FormSpec == FormInit /\ [][FormNext]_formVars
-----------------------------------------------------------------------------
(* Properties *)

(* The product, the form and what is in flight stay in their types. *)
FormTypeOK ==
    /\ saved.there \in BOOLEAN /\ saved.price \in Amounts \cup {0} /\ saved.text \in Texts
    /\ DOMAIN saved.rows \subseteq Matrix(saved.sizes, saved.colours) /\ \A c \in DOMAIN saved.rows : saved.rows[c] \in TableRow
    /\ editor.sizes \subseteq Sizes /\ editor.colours \subseteq Colours /\ editor.text \in Texts
    /\ DOMAIN editor.skus \cup DOMAIN editor.stock \cup DOMAIN editor.prices \subseteq Combinations
    /\ asked \in Texts \cup {NoneAsked}
    /\ request.sent => DOMAIN request.rows \subseteq Combinations

(* A product after its editor's saves: of the SKUs, the stock and the prices *)
(* that the form shows, what the editor did not type is as it was when the   *)
(* page was opened, through every change of the lists, slug and prices,      *)
(* several saves of one form and sales and bulk prices in between (the stock *)
(* of what was sold excepted: the form's is written over it); and a          *)
(* suggestion replaces nothing the editor typed while it was on its way.     *)
(* What the form does not show is not kept: every save makes the variants    *)
(* active, without MRP, cost and weight, and the images without a text.      *)
FormKeepsProduct ==
    /\ asMeant
    /\ editor.open /\ textTyped => editor.text = "typed"
=============================================================================
