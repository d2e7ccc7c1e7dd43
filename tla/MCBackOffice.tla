---------------------------- MODULE MCBackOffice ----------------------------
(***************************************************************************)
(* Small instances of what goes on behind the shop, for TLC: parcels and   *)
(* the client that asks Shiprocket for them, products, their pictures and  *)
(* the file they are exported to, the seed, who of the staff may do what,  *)
(* an order's page, and the editor of a product.  These components share no state, and their        *)
(* product would only multiply their states: a behaviour runs one of them, *)
(* its scene, and the others rest in an initial state.                     *)
(***************************************************************************)
EXTENDS MCShipmentSync, ShiprocketClient, ProductAdmin, ProductCsv, MediaLibrary, Seed,
    StaffAccess, OrderDesk, ProductForm

CONSTANTS q1, s1, s2, a1, a2, k1, k2, f1, f2, h1, h2, j1, w1, w2, r1, r2, t1, t2,
    z1, z2, x1

VARIABLE scene

shippingSide == <<vars, clientVars>>
catalogueSide == <<prodVars, csvVars, mediaVars, seedVars, formVars>>
staffSide == <<accessVars, deskVars>>

(* One account with both permissions, and a customer's. *)
KeysGiven == [a \in People |-> IF a = w1 THEN Permissions ELSE {}]
EndpointsServed ==
    {[needs |-> {r1}, audited |-> TRUE], [needs |-> {r1, r2}, audited |-> FALSE]}

(* Products with a note of any two symbols; with every kind of tags,        *)
(* categories, images, options and values; and two in one file.             *)
ProductsOnFile ==
    LET Alphabet == {"x", ",", "\"", "\n", "\r", " "}
        Text == {<<>>} \cup {<<a>> : a \in Alphabet} \cup {<<a, b>> : a, b \in Alphabet}
        Sku(s, n, values) == [sku |-> <<s>>, stock |-> n, values |-> values]
        x == <<"x">>
        y == <<"y">>
        Plain == [slug |-> x, tags |-> <<x, y>>, categories |-> <<x, y>>, options |-> <<y>>,
                  variants |-> <<Sku("x", 2, <<x>>), Sku("y", 0, <<y>>)>>,
                  shortDescription |-> x, images |-> <<<<"h", ",">>, <<"h", "x">>>>]
        Variants1 == {<< >>, <<Sku("x", 1, << >>)>>, <<Sku("x", 1, <<x, y>>), Sku("y", 3, <<x, x>>)>>,
                      <<Sku("x", 2, <<<<"x", ",">>>>), Sku("y", 0, <<<<" ", "y">>>>)>>}
        Tags1 == {<< >>, <<y, <<"x", "y">>>>, <<<<"x", ",", "x">>>>, <<<<" ", "x">>, <<"y", "\"">>>>}
        Made(p) == \A k \in DOMAIN p.variants : Len(p.variants[k].values) <= Len(p.options)
    IN  {<<[Plain EXCEPT !.shortDescription = t]>> : t \in Text}
        \cup {c \in {<<[Plain EXCEPT !.variants = v, !.options = o, !.tags = t]>> :
                         v \in Variants1, o \in {<< >>, <<y>>, <<y, x>>}, t \in Tags1} : Made(c[1])}
        \cup {<<[Plain EXCEPT !.categories = c, !.images = i],
                 [Plain EXCEPT !.slug = y, !.variants = << >>, !.options = << >>]>> :
                  c \in {<< >>, <<y, x>>, <<y>>}, i \in {<< >>, <<<<"/", "x">>, <<"h">>>>}}
TwoCategories == <<<<"x">>, <<"y">>>>

BackInit ==
    /\ scene \in {"parcel", "client", "product", "csv", "media", "seed", "form", "staff", "desk"}
    /\ Init /\ ClientInit /\ ProductInit /\ CsvInit /\ MediaInit /\ SeedInit /\ FormInit /\ AccessInit
    /\ DeskInit
    /\ scene # "seed" => ~autumn
    /\ variant[1].sku = k1   \* the SKUs are alike
    /\ scene # "product" => ~product.there /\ \A i \in VariantIds : ~variant[i].inCart
    /\ scene # "form" => ~saved.there
    /\ scene # "csv" => catalogue = CHOOSE c \in Catalogues : TRUE
    /\ scene # "staff" => token = NoKey

(* Two calls at a time, of which the poller's may be one. *)
TwoAtATime == Cardinality({c \in AllSlots : slot'[c] # Idle}) <= 2

Shipping ==
    /\ UNCHANGED catalogueSide
    /\ \/ scene = "parcel" /\ Next /\ TwoAtATime /\ UNCHANGED clientVars
       \/ scene = "client" /\ ClientNext /\ UNCHANGED vars

Catalogue ==
    /\ UNCHANGED shippingSide
    /\ \/ scene = "product" /\ ProductNext /\ UNCHANGED <<csvVars, mediaVars, seedVars, formVars>>
       \/ scene = "csv" /\ CsvNext /\ UNCHANGED <<prodVars, mediaVars, seedVars, formVars>>
       \/ scene = "media" /\ MediaNext /\ UNCHANGED <<prodVars, csvVars, seedVars, formVars>>
       \/ scene = "seed" /\ SeedNext /\ UNCHANGED <<prodVars, csvVars, mediaVars, formVars>>
       \/ scene = "form" /\ FormNext /\ UNCHANGED <<prodVars, csvVars, mediaVars, seedVars>>

BackNext ==
    /\ UNCHANGED scene
    /\ \/ (Shipping \/ Catalogue) /\ UNCHANGED staffSide
       \/ scene = "staff" /\ AccessNext /\ UNCHANGED <<shippingSide, catalogueSide, deskVars>>
       \/ scene = "desk" /\ DeskNext /\ UNCHANGED <<shippingSide, catalogueSide, accessVars>>

BackSpec == BackInit /\ [][BackNext]_<<shippingSide, catalogueSide, staffSide, scene>>

(* The two members of every symmetric set change places, all at once: a    *)
(* behaviour is about one scene, so this is as good as one set at a time.  *)
Exchange(S, really) == CHOOSE f \in Permutations(S) : (\E x \in S : f[x] # x) = really

BackSymmetry ==
    {Exchange(Slots, really) @@ Exchange(ApiSends, really) @@ Exchange(Admins, really)
     @@ Exchange(Forms, really) @@ Exchange(Shelf, really) @@ Exchange(Tabs, really) : really \in BOOLEAN}

(* What each component keeps stays in its types. *)
BackTypeOK ==
    /\ TypeOK /\ ClientTypeOK /\ ProductTypeOK /\ CsvTypeOK
    /\ MediaTypeOK /\ SeedTypeOK /\ FormTypeOK /\ AccessTypeOK /\ DeskTypeOK

(* A product is whole after a save, as it was after a round through the      *)
(* file, and what its editor left alone stays (ProductAdmin, ProductCsv,     *)
(* ProductForm).                                                             *)
CatalogueIsWhole == ProductIsWhole /\ CsvTellsProducts /\ FormKeepsProduct

(* The administration writes for those who may, and its page of an order    *)
(* shows what it did (StaffAccess, OrderDesk).                              *)
StaffSideIsTrue == AccessIsHeld /\ DeskIsTrue
=============================================================================
