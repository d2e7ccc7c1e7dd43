----------------------------- MODULE ProductCsv -----------------------------
(***************************************************************************)
(* The catalogue as a CSV file (api: common/csv, CatalogAdminService's      *)
(* exportProductsCsv and importProductsCsv; admin: CsvTools): what a file   *)
(* says of the products it was written from, and what is left of them when  *)
(* it is read again.                                                        *)
(*                                                                          *)
(* A text is a sequence of symbols; a few columns stand for all of them.    *)
(* The import's statements, one by one, are in ProductAdmin: here a file is *)
(* imported at once.                                                        *)
(***************************************************************************)
EXTENDS Integers, Sequences, SequencesExt

CONSTANTS
    Catalogues,      \* sequences of products
    CategorySlugs,   \* slugs of the categories, in the order the database returns them
    MaxCsvSteps      \* bound on exports, imports and files that lose a column

ASSUME CsvAssumption == MaxCsvSteps \in Nat

VARIABLES catalogue, file, csvSteps,
    exported,        \* history: the catalogue the file was written from
    imported         \* history: the file has been imported

csvVars == <<catalogue, file, csvSteps, exported, imported>>

Quote == "\""
NewLine == {"\n", "\r"}
Blanks == {" "} \cup NewLine
NoText == << >>
NoFile == << >>

CsvInit ==
    /\ catalogue \in Catalogues /\ file = NoFile /\ csvSteps = 0
    /\ exported = << >> /\ imported = FALSE

-----------------------------------------------------------------------------
(* Texts *)

Trimmed(text) ==
    LET solid == {i \in DOMAIN text : text[i] \notin Blanks}
    IN  IF solid = {} THEN NoText
        ELSE LET first == CHOOSE i \in solid : \A j \in solid : i <= j
                 last == CHOOSE i \in solid : \A j \in solid : i >= j
             IN  SubSeq(text, first, last)

Joined(parts, separator) ==
    FoldLeft(LAMBDA text, i : text \o (IF i = 1 THEN NoText ELSE separator) \o parts[i],
             NoText, [i \in DOMAIN parts |-> i])

PartsOf(text, separators) ==
    FoldLeft(LAMBDA parts, c : IF c \in separators THEN Append(parts, NoText)
                               ELSE [parts EXCEPT ![Len(parts)] = Append(@, c)],
             <<NoText>>, text)

(* Mutant: a new line in a cell needs no quotes. *)
escapeCell_OneLine(text) ==
    IF \E i \in DOMAIN text : text[i] \in {Quote, ","}
      THEN <<Quote>> \o FoldLeft(LAMBDA t, c : t \o IF c = Quote THEN <<Quote, Quote>> ELSE <<c>>,
                                 NoText, text) \o <<Quote>>
      ELSE text

escapeCell(text) ==
    IF \E i \in DOMAIN text : text[i] \in {Quote, ","} \cup NewLine
      THEN <<Quote>> \o FoldLeft(LAMBDA t, c : t \o IF c = Quote THEN <<Quote, Quote>> ELSE <<c>>,
                                 NoText, text) \o <<Quote>>
      ELSE text

(* The first row is the header. *)
toCsv(table) ==
    LET Row(cells) == Joined([i \in DOMAIN cells |-> escapeCell(cells[i])], <<",">>)
    IN  Joined([i \in DOMAIN table |-> Row(table[i])], <<"\r", "\n">>)

(* parseCsv: one symbol, given the next; skip is the i += 1 of the loop. *)
Reading == [rows |-> << >>, row |-> << >>, field |-> NoText, quoted |-> FALSE, skip |-> FALSE]
EndField(r) == [r EXCEPT !.row = Append(@, r.field), !.field = NoText]
EndRow(r) == [EndField(r) EXCEPT !.rows = Append(@, EndField(r).row), !.row = << >>]

Take(r, c, next) ==
    CASE r.skip -> [r EXCEPT !.skip = FALSE]
      [] ~r.skip /\ r.quoted /\ c = Quote /\ next = Quote ->
            [r EXCEPT !.field = Append(@, Quote), !.skip = TRUE]
      [] ~r.skip /\ r.quoted /\ c = Quote /\ next # Quote -> [r EXCEPT !.quoted = FALSE]
      [] ~r.skip /\ ~r.quoted /\ c = Quote -> [r EXCEPT !.quoted = TRUE]
      [] ~r.skip /\ ~r.quoted /\ c = "," -> EndField(r)
      [] ~r.skip /\ ~r.quoted /\ c \in NewLine ->
            [EndRow(r) EXCEPT !.skip = c = "\r" /\ next = "\n"]
      [] OTHER -> [r EXCEPT !.field = Append(@, c)]

parseCsv(text) ==
    LET Next1(i) == IF i < Len(text) THEN text[i + 1] ELSE ""
        read[i \in 0 .. Len(text)] ==
            IF i = 0 THEN Reading ELSE Take(read[i - 1], text[i], Next1(i))
        end == read[Len(text)]
        all == IF end.field # NoText \/ end.row # << >> THEN EndRow(end).rows ELSE end.rows
    IN  SelectSeq(all, LAMBDA row : Len(row) > 1 \/ Trimmed(row[1]) # NoText)

(* parseCsvRecords: trimmed cells by the names in the header. *)
parseCsvRecords(text) ==
    LET table == parseCsv(text)
    IN  [i \in 1 .. (Len(table) - 1) |->
            [name \in {Trimmed(table[1][j]) : j \in DOMAIN table[1]} |->
                LET j == CHOOSE j \in DOMAIN table[1] : Trimmed(table[1][j]) = name
                IN  IF j <= Len(table[i + 1]) THEN Trimmed(table[i + 1][j]) ELSE NoText]]

(* splitList and parseImageUrls: a URL begins with h. *)
splitList(text) ==
    LET parts == PartsOf(text, {"|", ","})
    IN  SelectSeq([i \in DOMAIN parts |-> Trimmed(parts[i])], LAMBDA t : t # NoText)
IsUrl(t) == t # NoText /\ t[1] = "h" /\ \A i \in DOMAIN t : t[i] \notin Blanks
parseImageUrls(text) ==
    LET parts == PartsOf(text, {"|"})
    IN  SelectSeq([i \in DOMAIN parts |-> Trimmed(parts[i])], IsUrl)

-----------------------------------------------------------------------------
(* Export *)

Columns == <<"slug", "tags", "categories", "option", "optionValue", "sku", "stock",
             "shortDescription", "image_urls">>
(* The header's names, as texts of one symbol. *)
CSV_HEADERS == [i \in DOMAIN Columns |-> <<Columns[i]>>]
Digits == <<"0", "1", "2", "3">>
Written(n) == <<Digits[n + 1]>>
Number(text) == CHOOSE n \in 0 .. 3 : Written(n) = text

(* Mutant: only the first value of a variant is written. *)
ExportedValue_First(v) == IF v.values = << >> THEN NoText ELSE v.values[1]
ExportedValue(v) == Joined(v.values, <<"/">>)

(* What the rows of a product share, and what is a variant's own. *)
ExportedRow(p, value, sku, stock) ==
    <<p.slug, Joined(p.tags, <<"|">>), Joined(p.categories, <<"|">>),
      IF p.options = << >> THEN NoText ELSE p.options[1], value, sku, stock,
      p.shortDescription, Joined(p.images, <<"|">>)>>

ExportedRows(p) ==
    IF p.variants = << >> THEN <<ExportedRow(p, NoText, NoText, NoText)>>
    ELSE [i \in DOMAIN p.variants |->
            ExportedRow(p, ExportedValue(p.variants[i]), p.variants[i].sku,
                        Written(p.variants[i].stock))]

FileRows(goods) ==
    FoldLeft(LAMBDA table, p : table \o ExportedRows(p), <<CSV_HEADERS>>, goods)

(* doExport downloads exportProductsCsv. *)
doExport ==
    /\ csvSteps < MaxCsvSteps /\ csvSteps' = csvSteps + 1
    /\ file' = toCsv(FileRows(catalogue))
    /\ exported' = catalogue /\ imported' = FALSE
    /\ UNCHANGED catalogue

(* The column of the images, the last one, is taken out of the file by hand. *)
DropImages ==
    /\ csvSteps < MaxCsvSteps /\ file # NoFile
    /\ csvSteps' = csvSteps + 1
    /\ LET table == parseCsv(file)
       IN  /\ Len(table[1]) = Len(Columns)
           /\ file' = toCsv([i \in DOMAIN table |-> SubSeq(table[i], 1, Len(Columns) - 1)])
    /\ UNCHANGED <<catalogue, exported, imported>>

-----------------------------------------------------------------------------
(* Import *)

(* slugify, of a tag. *)
slugify(tag) == SelectSeq(tag, LAMBDA c : c \in {"x", "y"})

(* Tags are created one by one; a second one with the slug of a first breaks *)
(* the import of the product there.                                          *)
TagsFit(tags) == \A i, j \in DOMAIN tags : slugify(tags[i]) = slugify(tags[j]) => i = j
TagsUntil(tags) ==
    LET fit == {n \in 0 .. Len(tags) : TagsFit(SubSeq(tags, 1, n))}
    IN  SubSeq(tags, 1, CHOOSE n \in fit : \A m \in fit : m <= n)

(* Categories are found in the database's order, the first is the primary.   *)
resolveCategoryIds(text) ==
    LET wanted == splitList(text)
    IN  SelectSeq(CategorySlugs, LAMBDA c : \E i \in DOMAIN wanted : wanted[i] = c)

(* Mutant: a file without the column of images removes them. *)
ImportedImages_Always(p, first) ==
    IF <<"image_urls">> \in DOMAIN first THEN parseImageUrls(first[<<"image_urls">>]) ELSE << >>
(* Images are replaced only by a file that has the column. *)
ImportedImages(p, first) ==
    IF <<"image_urls">> \in DOMAIN first THEN parseImageUrls(first[<<"image_urls">>]) ELSE p.images

(* The rows with a SKU become the variants, under one option. *)
ImportedVariants(table) ==
    LET own == SelectSeq(table, LAMBDA r : r[<<"sku">>] # NoText)
    IN  [i \in DOMAIN own |->
            [values |-> IF own[i][<<"optionValue">>] = NoText THEN << >>
                        ELSE <<own[i][<<"optionValue">>]>>,
             sku |-> own[i][<<"sku">>], stock |-> Number(own[i][<<"stock">>])]]

ImportProduct(p, table) ==
    LET first == table[1]
        tags == splitList(first[<<"tags">>])
        begun == [p EXCEPT !.shortDescription = first[<<"shortDescription">>],
                           !.categories = resolveCategoryIds(first[<<"categories">>]),
                           !.tags = TagsUntil(tags)]
        made == ImportedVariants(table)
    IN  IF ~TagsFit(tags) THEN begun
        ELSE [begun EXCEPT !.images = ImportedImages(p, first),
                           !.variants = made,
                           !.options = IF made = << >> THEN << >>
                                       ELSE <<IF first[<<"option">>] = NoText THEN <<"Size">>
                                              ELSE first[<<"option">>]>>]

(* doImport sends the file; rows are grouped by slug, the products are those *)
(* that were exported.                                                       *)
doImport ==
    /\ csvSteps < MaxCsvSteps /\ file # NoFile
    /\ csvSteps' = csvSteps + 1
    /\ LET records == parseCsvRecords(file)
           RecordsOf(p) == SelectSeq(records, LAMBDA r : r[<<"slug">>] = p.slug)
       IN  catalogue' = [i \in DOMAIN catalogue |->
                            IF RecordsOf(catalogue[i]) = << >> THEN catalogue[i]
                            ELSE ImportProduct(catalogue[i], RecordsOf(catalogue[i]))]
    /\ imported' = TRUE
    /\ UNCHANGED <<file, exported>>

CsvNext == doExport \/ DropImages \/ doImport

CsvSpec == CsvInit /\ [][CsvNext]_csvVars
-----------------------------------------------------------------------------
(* Properties *)

(* The catalogue keeps its products, each with its slug. *)
CsvTypeOK ==
    /\ csvSteps \in 0 .. MaxCsvSteps /\ imported \in BOOLEAN
    /\ \A i \in DOMAIN catalogue : catalogue[i].slug = Trimmed(catalogue[i].slug)

(* A product the file can tell: one option, or none, which every variant has *)
(* a value of; tags without separators, URLs, no blanks at the ends of texts, *)
(* and categories in the database's order.                                    *)
Tellable(p) ==
    /\ p.variants = << >> => p.options = << >>
    /\ p.variants # << >> => Len(p.options) = 1
    /\ \A i \in DOMAIN p.variants : \A j \in DOMAIN p.variants[i].values :
          Trimmed(p.variants[i].values[j]) = p.variants[i].values[j]
    /\ splitList(Joined(p.tags, <<"|">>)) = p.tags
    /\ \A i \in DOMAIN p.images : IsUrl(p.images[i])
    /\ Trimmed(p.shortDescription) = p.shortDescription
    /\ resolveCategoryIds(Joined(p.categories, <<"|">>)) = p.categories

(* A file reads as it was written, whatever is in its cells, and importing it *)
(* leaves the SKUs, their stock and every value of every variant in place,    *)
(* the images too when their column is missing, and a product the file can     *)
(* tell as it was (csv.ts:6-79, catalog-admin.service.ts:865-921, 923-1100).   *)
CsvTellsProducts ==
    /\ file # NoFile /\ Len(parseCsv(file)[1]) = Len(Columns) => parseCsv(file) = FileRows(exported)
    /\ imported => \A i \in DOMAIN catalogue :
          LET before == exported[i]
              after == catalogue[i]
              Skus1(p) == [k \in DOMAIN p.variants |-> <<p.variants[k].sku, p.variants[k].stock>>]
              Value(p, k) == Trimmed(Joined(p.variants[k].values, <<"/">>))
          IN  /\ Skus1(after) = Skus1(before)
              /\ \A k \in DOMAIN after.variants : Value(after, k) = Value(before, k)
              /\ (\A k \in DOMAIN before.images : IsUrl(before.images[k])) => after.images = before.images
              /\ Tellable(before) => after = before
=============================================================================
