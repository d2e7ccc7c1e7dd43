------------------------------ MODULE CatalogDesk ------------------------------
(***************************************************************************)
(* The page of brands and collections in the administration (admin:        *)
(* catalog/page: Brands, Collections, CollectionEditor, useList) and the   *)
(* handlers behind it (CatalogAdminService: createBrand to                 *)
(* deleteCollection).  Several windows show a copy of a list each, which   *)
(* is loaded anew after a request that succeeded.                          *)
(*                                                                         *)
(* A name, a description and an image, which the editor of a collection    *)
(* always writes together, are one column, the words; different words have *)
(* different slugs.  Ranks, types, rules and lists of products are left    *)
(* out: the page sends none.                                               *)
(***************************************************************************)
EXTENDS Integers, Sequences, FiniteSets

CONSTANTS
    Windows,        \* windows of the administration
    NoWindow,       \* no window
    Words,          \* what is typed for a name or into an editor
    Goods,          \* products, which may carry a brand
    MaxEntries,     \* bound: ids of Brand and Collection rows
    MaxClicks,      \* bound on the requests and lists that windows ask for
    MaxGivings,     \* bound on saves of a product elsewhere
    MaxMissed       \* bound on lists and answers that do not come

ASSUME CatalogDeskAssumption ==
    /\ Words # {} /\ NoWindow \notin Windows
    /\ {MaxEntries, MaxClicks, MaxGivings, MaxMissed} \subseteq Nat /\ MaxEntries > 0

VARIABLES
    entry,        \* Brand and Collection rows
    entries,      \* rows created so far
    brandOf,      \* Product.brandId
    window,       \* what each window shows
    writes,       \* requests of the page in flight; cause (history): another creation took the slug
                  \* that was found free, or the name is a brand's
    lists,        \* loads of a list in flight
    clicks, missed, givings,
    rowChanges,   \* history: number of changes of the rows
    own,          \* history: rowChanges after the window's last request that succeeded
    said,         \* history: what the last request applied to a column asked of it
    given,        \* history: the brand a product was saved with last
    deskRaced     \* history: a product got a brand that was found without products

pageVars == <<entry, entries, brandOf, window, writes, lists, clicks, missed, givings, rowChanges, own,
              said, given, deskRaced>>

EntryKinds == {"brand", "collection"}
EntryIds == 1 .. MaxEntries
FlagsOf(kind) == IF kind = "brand" THEN {"isFeatured"} ELSE {"isFeatured", "isActive"}
SlugOf == Words \X (1 .. MaxEntries + 1)
EntryColumns == [words : Words, isFeatured : BOOLEAN, isActive : BOOLEAN]
NewColumns(w) == [words |-> w, isFeatured |-> FALSE, isActive |-> TRUE]

(* The row whose editor is open, and its save that is not answered, or 0. *)
Editor(i) == [id |-> i, saving |-> 0]
Stored == {i \in 1 .. entries : entry[i].there}
Table(kind) == {i \in Stored : entry[i].kind = kind}
OfBrand(i) == {g \in Goods : brandOf[g] = i}

(* A list as it is read. *)
ListNow(kind) == [i \in Table(kind) |-> entry[i].columns]

(* One row is there, and the windows have loaded. *)
PageInit ==
    \E w \in Words, first \in EntryKinds, kind \in [Windows -> EntryKinds], brands \in [Goods -> {0, 1}] :
        /\ \A g \in Goods : brands[g] = 1 => first = "brand"
        /\ entry = [i \in EntryIds |-> [there |-> i = 1, kind |-> first, slug |-> <<w, 1>>,
                                        columns |-> NewColumns(w)]]
        /\ entries = 1
        /\ brandOf = brands /\ given = brands
        /\ window = [t \in Windows |->
                        [kind |-> kind[t], editor |-> Editor(0), failed |-> FALSE, version |-> 0,
                         outrun |-> FALSE,
                         rows |-> [i \in (IF kind[t] = first THEN {1} ELSE {}) |-> NewColumns(w)]]]
        /\ writes = {} /\ lists = {}
        /\ clicks = 0 /\ missed = 0 /\ givings = 0
        /\ rowChanges = 0 /\ own = [t \in Windows |-> 0]
        /\ said = [i \in EntryIds |-> NewColumns(w)]
        /\ deskRaced = FALSE

rowState == <<entry, entries, brandOf, rowChanges, said, given, deskRaced>>

-----------------------------------------------------------------------------
(* Lists (useList) *)

Ended(c) == c.at \in {"ok", "error"}
ListsOf(t) == {l \in lists : l.window = t}
reload(t) ==
    /\ clicks < MaxClicks /\ clicks' = clicks + 1
    /\ lists' = lists \cup {[n |-> clicks + 1, window |-> t, kind |-> window[t].kind, read |-> FALSE,
                             rows |-> << >>, version |-> 0]}

ReadEntries(l) ==
    /\ ~l.read
    /\ lists' = (lists \ {l})
          \cup {[l EXCEPT !.read = TRUE, !.rows = ListNow(l.kind), !.version = rowChanges]}
    /\ UNCHANGED <<rowState, window, writes, clicks, missed, givings, own>>

(* Lists arrive in any order.  An editor stays as it is while its row is     *)
(* listed, and is opened anew with a row that comes back.                    *)
ListShown(l) ==
    LET t == l.window
    IN  /\ l.read
        /\ lists' = lists \ {l}
        /\ window' = [window EXCEPT ![t].rows = l.rows, ![t].version = l.version,
                          ![t].editor = IF @.id \in DOMAIN l.rows \ DOMAIN window[t].rows
                                        THEN Editor(@.id) ELSE @]
        /\ UNCHANGED <<rowState, writes, clicks, missed, givings, own>>

(* The message stays, whatever is loaded later. *)
ListBreaks(l) ==
    /\ missed < MaxMissed /\ missed' = missed + 1
    /\ lists' = lists \ {l}
    /\ window' = [window EXCEPT ![l.window].failed = TRUE]
    /\ UNCHANGED <<rowState, writes, clicks, givings, own>>

(* The other list is chosen: it starts empty, and hears no earlier answer. *)
setTab(t, kind) ==
    /\ kind # window[t].kind /\ clicks < MaxClicks
    /\ clicks' = clicks + 1
    /\ window' = [window EXCEPT ![t] = [kind |-> kind, editor |-> Editor(0), failed |-> FALSE,
                                        version |-> 0, outrun |-> FALSE, rows |-> << >>]]
    /\ lists' = (lists \ ListsOf(t))
          \cup {[n |-> clicks + 1, window |-> t, kind |-> kind, read |-> FALSE, rows |-> << >>,
                 version |-> 0]}
    /\ writes' = {[c EXCEPT !.window = IF @ = t THEN NoWindow ELSE @] :
                      c \in {d \in writes : d.window = t => ~Ended(d)}}
    /\ own' = [own EXCEPT ![t] = 0]
    /\ UNCHANGED <<rowState, missed, givings>>

-----------------------------------------------------------------------------
(* Clicks *)

NoColumns == [c \in {} |-> 0]
Send(t, op, id, columns) ==
    /\ clicks < MaxClicks /\ clicks' = clicks + 1
    /\ writes' = writes \cup {[n |-> clicks + 1, window |-> t, kind |-> window[t].kind, op |-> op,
                               id |-> id, columns |-> columns, at |-> "sent",
                               slug |-> <<CHOOSE w \in Words : TRUE, 1>>, version |-> 0, cause |-> FALSE]}
    /\ UNCHANGED <<rowState, lists, missed, givings, own>>

add(t) == \E w \in Words : Send(t, "create", 0, [words |-> w]) /\ UNCHANGED window

(* A button asks for the opposite of what the window shows. *)
PressFlag(t, i, flag) ==
    /\ i \in DOMAIN window[t].rows /\ flag \in FlagsOf(window[t].kind)
    /\ Send(t, "update", i, [f \in {flag} |-> ~window[t].rows[i][f]])
    /\ UNCHANGED window

PressDelete(t, i) ==
    /\ i \in DOMAIN window[t].rows
    /\ Send(t, "delete", i, NoColumns)
    /\ UNCHANGED window

setEditing(t, i) ==
    /\ window[t].kind = "collection" /\ i \in DOMAIN window[t].rows
    /\ window' = [window EXCEPT ![t].editor = Editor(IF @.id = i THEN 0 ELSE i)]
    /\ UNCHANGED <<rowState, writes, lists, clicks, missed, givings, own>>

(* Mutant: the editor sends the row as it is shown, with its words. *)
EditorSends_WholeRow(t, w) == [window[t].rows[window[t].editor.id] EXCEPT !.words = w]
(* The words it was opened with, or others that were typed since. *)
EditorSends(t, w) == [words |-> w]

save(t) ==
    /\ window[t].editor.id \in DOMAIN window[t].rows /\ window[t].editor.saving = 0
    /\ \E w \in Words : Send(t, "update", window[t].editor.id, EditorSends(t, w))
    /\ window' = [window EXCEPT ![t].editor.saving = clicks + 1]

-----------------------------------------------------------------------------
(* The server *)

SlugsIn(kind) == {entry[i].slug : i \in Table(kind)}

(* Mutant: only -2 is tried. *)
uniqueSlugIn_Once(kind, root) == <<root, IF <<root, 1>> \in SlugsIn(kind) THEN 2 ELSE 1>>
(* The root, or the first number that is free. *)
uniqueSlugIn(kind, root) ==
    CHOOSE s \in SlugOf \ SlugsIn(kind) :
        s[1] = root /\ \A n \in 1 .. s[2] - 1 : <<root, n>> \in SlugsIn(kind)

(* A request goes on; nobody waits for the end of one that has no window.   *)
With(d) == IF Ended(d) /\ d.window = NoWindow THEN {} ELSE {d}
Turn(c, d) == writes' = (writes \ {c}) \cup With(d)
Fails(c) == Turn(c, [c EXCEPT !.at = "error"]) /\ UNCHANGED rowState
(* c creates what d has found free. *)
TakesSlug(c, d) == {c.op, d.op} = {"create"} /\ d.at = "checked" /\ c.kind = d.kind /\ c.slug = d.slug
Succeeds(c) ==
    /\ rowChanges' = rowChanges + 1
    /\ writes' = {[d EXCEPT !.cause = @ \/ TakesSlug(c, d)] : d \in writes \ {c}}
                 \cup With([c EXCEPT !.at = "ok", !.version = rowChanges + 1])
pageState == <<window, lists, clicks, missed, givings, own>>

(* createBrand, createCollection: a slug that is free, then the row.  Slugs *)
(* are unique, and so are names of brands.                                  *)
FindSlug(c) ==
    /\ c.op = "create" /\ c.at = "sent"
    /\ Turn(c, [c EXCEPT !.slug = uniqueSlugIn(c.kind, c.columns.words), !.at = "checked"])
    /\ UNCHANGED <<rowState, pageState>>

NameTaken(c) == c.kind = "brand" /\ \E i \in Table("brand") : entry[i].slug[1] = c.columns.words

CreateEntry(c) ==
    /\ c.op = "create" /\ c.at = "checked"
    /\ IF c.slug \in SlugsIn(c.kind) \/ NameTaken(c)
       THEN Turn(c, [c EXCEPT !.at = "error", !.cause = @ \/ NameTaken(c)]) /\ UNCHANGED rowState
       ELSE LET columns == NewColumns(c.columns.words)
            IN  /\ entries < MaxEntries /\ entries' = entries + 1
                /\ entry' = [entry EXCEPT ![entries + 1] = [there |-> TRUE, kind |-> c.kind,
                                                            slug |-> c.slug, columns |-> columns]]
                /\ said' = [said EXCEPT ![entries + 1] = columns]
                /\ Succeeds(c)
                /\ UNCHANGED <<brandOf, given, deskRaced>>
    /\ UNCHANGED pageState

(* updateBrand, updateCollection: what is not sent stays. *)
Patched(columns, body) == [f \in DOMAIN columns |-> IF f \in DOMAIN body THEN body[f] ELSE columns[f]]

UpdateEntry(c) ==
    /\ c.op = "update" /\ c.at = "sent"
    /\ IF c.id \notin Stored THEN Fails(c)
       ELSE /\ entry' = [entry EXCEPT ![c.id].columns = Patched(@, c.columns)]
            /\ said' = IF "words" \in DOMAIN c.columns
                       THEN [said EXCEPT ![c.id].words = c.columns.words]
                       ELSE [said EXCEPT ![c.id] = Patched(@, c.columns)]
            /\ Succeeds(c)
            /\ UNCHANGED <<entries, brandOf, given, deskRaced>>
    /\ UNCHANGED pageState

(* Mutant: a brand is deleted as a collection is. *)
DeleteRefused_Never(c) == c.id \notin Stored
DeleteRefused(c) == c.id \notin Stored \/ (c.kind = "brand" /\ OfBrand(c.id) # {})

FindDeleted(c) ==
    /\ c.op = "delete" /\ c.at = "sent"
    /\ IF DeleteRefused(c) THEN Fails(c) ELSE Turn(c, [c EXCEPT !.at = "checked"]) /\ UNCHANGED rowState
    /\ UNCHANGED pageState

(* Products that carry the brand lose it with the row: the foreign key. *)
DeleteEntry(c) ==
    /\ c.op = "delete" /\ c.at = "checked"
    /\ IF c.id \notin Stored THEN Fails(c)
       ELSE /\ entry' = [entry EXCEPT ![c.id].there = FALSE]
            /\ brandOf' = [g \in Goods |-> IF brandOf[g] = c.id THEN 0 ELSE brandOf[g]]
            /\ Succeeds(c)
            /\ UNCHANGED <<entries, said, given, deskRaced>>
    /\ UNCHANGED pageState

(* A product is saved with a brand, or with none, elsewhere. *)
GiveBrand(g, i) ==
    /\ i \in Table("brand") \cup {0} /\ brandOf[g] # i
    /\ givings < MaxGivings /\ givings' = givings + 1
    /\ brandOf' = [brandOf EXCEPT ![g] = i] /\ given' = [given EXCEPT ![g] = i]
    /\ deskRaced' = (deskRaced \/ \E c \in writes : c.op = "delete" /\ c.at = "checked" /\ c.id = i)
    /\ UNCHANGED <<entry, entries, rowChanges, said, window, writes, lists, clicks, missed, own>>

-----------------------------------------------------------------------------
(* Answers *)

EditorFree(c) ==
    IF window[c.window].editor.saving = c.n
    THEN [window EXCEPT ![c.window].editor.saving = 0] ELSE window

(* Mutant: a flag is not followed by a load. *)
LoadsAgain_Saves(c) == "words" \in DOMAIN c.columns \/ c.op = "delete"
LoadsAgain(c) == TRUE

ClickAnswered(c) ==
    LET t == c.window
    IN  /\ t # NoWindow /\ c.at = "ok"
        /\ writes' = writes \ {c}
        /\ own' = [own EXCEPT ![t] = IF c.version > @ THEN c.version ELSE @]
        /\ IF LoadsAgain(c)
             THEN /\ reload(t)
                  /\ window' = [EditorFree(c) EXCEPT ![t].outrun = ListsOf(t) # {}]
             ELSE window' = EditorFree(c) /\ UNCHANGED <<clicks, lists>>
        /\ UNCHANGED <<rowState, missed, givings>>

(* An error, or no answer in time, which leaves the request to go on. *)
ClickFails(c) ==
    /\ c.window # NoWindow
    /\ IF c.at = "error" THEN writes' = writes \ {c} /\ UNCHANGED missed
       ELSE missed < MaxMissed /\ missed' = missed + 1 /\ Turn(c, [c EXCEPT !.window = NoWindow])
    /\ window' = EditorFree(c)
    /\ UNCHANGED <<rowState, lists, clicks, givings, own>>

PageNext ==
    \/ \E l \in lists : ReadEntries(l) \/ ListShown(l) \/ ListBreaks(l)
    \/ \E t \in Windows : add(t) \/ save(t) \/ (\E kind \in EntryKinds : setTab(t, kind))
    \/ \E t \in Windows, i \in EntryIds : PressDelete(t, i) \/ setEditing(t, i)
    \/ \E t \in Windows, i \in EntryIds, f \in {"isFeatured", "isActive"} : PressFlag(t, i, f)
    \/ \E c \in writes : FindSlug(c) \/ CreateEntry(c) \/ UpdateEntry(c) \/ FindDeleted(c) \/ DeleteEntry(c)
    \/ \E c \in writes : ClickAnswered(c) \/ ClickFails(c)
    \/ \E g \in Goods, i \in EntryIds \cup {0} : GiveBrand(g, i)

PageSpec == PageInit /\ [][PageNext]_pageVars
-----------------------------------------------------------------------------
(* Properties *)

(* Rows, windows and histories keep their types. *)
PageTypeOK ==
    /\ \A i \in EntryIds : entry[i].slug \in SlugOf /\ entry[i].columns \in EntryColumns
    /\ entries \in EntryIds /\ brandOf \in [Goods -> EntryIds \cup {0}]
    /\ \A t \in Windows : window[t].kind \in EntryKinds /\ window[t].editor.id \in {0} \cup EntryIds
    /\ \A t \in Windows, i \in EntryIds : i \in DOMAIN window[t].rows => window[t].rows[i] \in EntryColumns

(* A save of an editor that was opened before undoes no flag that was set   *)
(* meanwhile: each column is what was last said of it                       *)
(* (catalog/page.tsx:421-440, 475-490).                                     *)
ColumnsAsSaid == \A i \in Stored : entry[i].columns = said[i]

(* A name that is new to the brands, or any name of a collection, is refused *)
(* only if another creation takes its slug between the search and the row    *)
(* (catalog-admin.service.ts:703-718, 777-797).                              *)
RefusedForCause == \A c \in writes : c.op = "create" /\ c.at = "error" => c.cause

(* A product keeps the brand it was saved with, unless that was between the  *)
(* check of the brand's deletion and the deletion                           *)
(* (catalog-admin.service.ts:742-753).                                       *)
BrandsStay == ~deskRaced => brandOf = given

(* Once its lists are answered, a window shows what its own requests did, if *)
(* no two of them overtook each other and none failed                       *)
(* (catalog/page.tsx:72-82, 343-361).                                        *)
ListsFollow ==
    \A t \in Windows : ListsOf(t) = {} /\ ~window[t].outrun /\ ~window[t].failed
                          => window[t].version >= own[t]

(* What the staff decides about brands and collections is what is stored     *)
(* and what their page shows.                                               *)
CatalogPageIsTrue == ColumnsAsSaid /\ RefusedForCause /\ BrandsStay /\ ListsFollow
=============================================================================
