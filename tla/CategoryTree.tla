---------------------------- MODULE CategoryTree ----------------------------
(***************************************************************************)
(* The categories: admin/catalog-admin.service writes them, and every      *)
(* category keeps, besides its parent, a materialised path by which        *)
(* catalog/catalog.service finds a category's subtree.                     *)
(*                                                                         *)
(* A path is the sequence of slugs that the code joins with '/'.  An edit  *)
(* runs statement by statement outside a transaction; only a reorder is    *)
(* one.  Names, images and flags without a part in this are left out.      *)
(***************************************************************************)
EXTENDS Integers, Sequences, FiniteSets

CONSTANTS
    Slugs,          \* slugs of categories
    Editors,        \* edits in flight at once
    MaxCategories,  \* bound: ids of Category rows
    MaxEdits,       \* bound on edits
    MaxDepth        \* bound on the length of a path

ASSUME CategoryAssumption ==
    Slugs # {} /\ MaxCategories \in Nat /\ MaxEdits \in Nat /\ MaxDepth \in Nat

VARIABLES
    category,    \* Category rows
    categories,  \* rows created so far
    edit,        \* edits in flight
    edits,       \* edits started
    treeMoved,       \* history: a category with others below it got another slug or parent
    treeCrossed,     \* history: an edit wrote from what another had changed meanwhile
    looped       \* history: a category was put below itself

treeVars == <<category, categories, edit, edits, treeMoved, treeCrossed, looped>>

CategoryIds == 1..MaxCategories
Top == 0
Paths == UNION {[1..n -> Slugs] : n \in 0..MaxDepth}
Category == [there : BOOLEAN, slug : Slugs, parent : 0..MaxCategories, path : Paths, active : BOOLEAN]
EditStage == {"idle", "createSlug", "createPath", "createRow", "updateFind", "updateSlug",
              "updatePath", "updateRow", "deleteFind", "deleteRow"}
(* found: slug and parent of the parent row and the row as they were read. *)
Edit == [at : EditStage, id : 0..MaxCategories, slug : Slugs, keepSlug : BOOLEAN,
         parent : 0..MaxCategories, keepParent : BOOLEAN, path : Paths, parentPath : Paths]

NoSlug == CHOOSE s \in Slugs : TRUE
NoEdit == [at |-> "idle", id |-> 0, slug |-> NoSlug, keepSlug |-> TRUE, parent |-> Top,
           keepParent |-> TRUE, path |-> << >>, parentPath |-> << >>]

TreeInit ==
    /\ category = [i \in CategoryIds |-> [there |-> FALSE, slug |-> NoSlug, parent |-> Top,
                                          path |-> << >>, active |-> TRUE]]
    /\ categories = 0
    /\ edit = [e \in Editors |-> NoEdit]
    /\ edits = 0
    /\ treeMoved = FALSE /\ treeCrossed = FALSE /\ looped = FALSE

Existing == {i \in 1..categories : category[i].there}
Children(i) == {j \in Existing : category[j].parent = i}
Named(s) == {i \in Existing : category[i].slug = s}

(* i and everything below it: the least set with i and its members' children *)
Subtree(i) == {j \in Existing : \A S \in SUBSET Existing :
                  (i \in S /\ \A k \in S : Children(k) \subseteq S) => j \in S}

In(e, stage) == edit[e].at = stage
Next2(e, stage) == edit' = [edit EXCEPT ![e].at = stage]
Finish(e) == edit' = [edit EXCEPT ![e] = NoEdit]

treeRows == <<category, categories>>
treeHistory == <<treeMoved, treeCrossed, looped>>

-----------------------------------------------------------------------------
(* The back office sends an edit *)

Submit(e, asked) ==
    /\ In(e, "idle")
    /\ edits < MaxEdits
    /\ edits' = edits + 1
    /\ edit' = [edit EXCEPT ![e] = asked]
    /\ UNCHANGED <<treeRows, treeHistory>>

SubmitCreate(e) == \E s \in Slugs, p \in Existing \cup {Top} :
    Submit(e, [NoEdit EXCEPT !.at = "createSlug", !.slug = s, !.parent = p])
(* A slug and a parent that are not sent stay as they are. *)
SubmitUpdate(e) ==
    \E i \in Existing, s \in Slugs, p \in Existing \cup {Top}, ks, kp \in BOOLEAN :
        /\ ks => s = NoSlug
        /\ kp => p = Top
        /\ Submit(e, [NoEdit EXCEPT !.at = "updateFind", !.id = i, !.slug = s, !.keepSlug = ks,
                                    !.parent = p, !.keepParent = kp])
SubmitDelete(e) == \E i \in Existing : Submit(e, [NoEdit EXCEPT !.at = "deleteFind", !.id = i])

-----------------------------------------------------------------------------
(* uniqueSlug: the slug that is asked for, or the first numbered one that is *)
(* free, here any other slug.                                                *)
uniqueSlug(slugWanted, self) ==
    LET taken == {category[i].slug : i \in Existing \ self}
    IN  IF slugWanted \notin taken THEN {slugWanted} ELSE Slugs \ taken

(* computePath reads the parent's path, or its slug if there is none. *)
PathBelow(p) ==
    IF p \notin Existing THEN << >>
    ELSE IF category[p].path # << >> THEN category[p].path ELSE <<category[p].slug>>

ComputePath(e, stage) ==
    LET above == IF edit[e].parent = Top THEN << >> ELSE PathBelow(edit[e].parent)
    IN  /\ Len(above) < MaxDepth
        /\ edit' = [edit EXCEPT ![e].path = Append(above, edit[e].slug), ![e].parentPath = above,
                                ![e].at = stage]
        /\ UNCHANGED <<treeRows, edits, treeHistory>>

(* A row refers to a parent that exists, and its slug is its own: the       *)
(* foreign key and the unique index.                                        *)
Accepted(e, self) ==
    /\ edit[e].parent \in Existing \cup {Top}
    /\ Named(edit[e].slug) \subseteq self

(* The parent's path is not the one that was read. *)
ParentChanged(e) == edit[e].parent # Top /\ PathBelow(edit[e].parent) # edit[e].parentPath

(* createCategory *)
CreateSlug(e) ==
    /\ In(e, "createSlug")
    /\ \E s \in uniqueSlug(edit[e].slug, {}) :
          edit' = [edit EXCEPT ![e].slug = s, ![e].at = "createPath"]
    /\ UNCHANGED <<treeRows, edits, treeHistory>>

CreatePath(e) == In(e, "createPath") /\ ComputePath(e, "createRow")

CreateRow(e) ==
    /\ In(e, "createRow")
    /\ IF Accepted(e, {})
       THEN /\ categories < MaxCategories
            /\ categories' = categories + 1
            /\ category' = [category EXCEPT ![categories + 1] =
                  [there |-> TRUE, slug |-> edit[e].slug, parent |-> edit[e].parent,
                   path |-> edit[e].path, active |-> TRUE]]
            /\ treeCrossed' = (treeCrossed \/ ParentChanged(e))
       ELSE UNCHANGED <<treeRows, treeCrossed>>
    /\ Finish(e)
    /\ UNCHANGED <<edits, treeMoved, looped>>

(* updateCategory: the row as it is read supplies what was not sent. *)
FindRow(e, allowed) ==
    LET i == edit[e].id
    IN  /\ In(e, "updateFind")
        /\ IF i \notin Existing \/ ~allowed THEN Finish(e)
           ELSE edit' = [edit EXCEPT ![e].slug = IF edit[e].keepSlug THEN category[i].slug ELSE @,
                                     ![e].parent = IF edit[e].keepParent THEN category[i].parent
                                                   ELSE @,
                                     ![e].at = "updateSlug"]
        /\ UNCHANGED <<treeRows, edits, treeHistory>>

(* Mutant: a category may be its own parent. *)
UpdateFind_OwnParent(e) == FindRow(e, TRUE)

UpdateFind(e) == FindRow(e, edit[e].keepParent \/ edit[e].parent # edit[e].id)

UpdateSlug(e) ==
    /\ In(e, "updateSlug")
    /\ \E s \in uniqueSlug(edit[e].slug, {edit[e].id}) :
          edit' = [edit EXCEPT ![e].slug = IF edit[e].keepSlug THEN @ ELSE s, ![e].at = "updatePath"]
    /\ UNCHANGED <<treeRows, edits, treeHistory>>

UpdatePath(e) == In(e, "updatePath") /\ ComputePath(e, "updateRow")

(* Putting i below p closes a loop of more than i itself. *)
ClosesLoop(i, p) == p # i /\ p \in Subtree(i)

WriteRow(e, path) ==
    LET i == edit[e].id
        changed == edit[e].path # category[i].path \/ edit[e].parent # category[i].parent
    IN  /\ In(e, "updateRow")
        /\ IF i \in Existing /\ Accepted(e, {i})
           THEN /\ category' = [category EXCEPT ![i].slug = edit[e].slug,
                                    ![i].parent = edit[e].parent, ![i].path = path]
                /\ treeMoved' = (treeMoved \/ (Children(i) # {} /\ changed))
                /\ treeCrossed' = (treeCrossed \/ ParentChanged(e))
                /\ looped' = (looped \/ ClosesLoop(i, edit[e].parent))
           ELSE UNCHANGED <<category, treeMoved, treeCrossed, looped>>
        /\ Finish(e)
        /\ UNCHANGED <<categories, edits>>

(* Mutant: the path is not written with the parent. *)
UpdateRow_KeepsPath(e) == WriteRow(e, category[edit[e].id].path)

(* Only this row's path is written; the rows below keep theirs. *)
UpdateRow(e) == WriteRow(e, edit[e].path)

-----------------------------------------------------------------------------
(* deleteCategory: refused while it has sub-categories *)
DeleteFind(e) ==
    LET i == edit[e].id
    IN  /\ In(e, "deleteFind")
        /\ IF i \in Existing /\ Children(i) = {} THEN Next2(e, "deleteRow") ELSE Finish(e)
        /\ UNCHANGED <<treeRows, edits, treeHistory>>

(* The links to products, then the row.  What became a child meanwhile      *)
(* becomes a top category.                                                  *)
DeleteRow(e) ==
    LET i == edit[e].id
    IN  /\ In(e, "deleteRow")
        /\ IF i \in Existing
           THEN /\ category' = [j \in CategoryIds |->
                      IF j = i THEN [category[j] EXCEPT !.there = FALSE]
                      ELSE IF j \in Children(i) THEN [category[j] EXCEPT !.parent = Top]
                      ELSE category[j]]
                /\ treeCrossed' = (treeCrossed \/ Children(i) # {})
           ELSE UNCHANGED <<category, treeCrossed>>
        /\ Finish(e)
        /\ UNCHANGED <<categories, edits, treeMoved, looped>>

(* reorderCategories: one transaction of updates, which may move a category *)
(* (here one) and leaves every path alone.                                  *)
Reorder(i, p) ==
    /\ edits < MaxEdits
    /\ edits' = edits + 1
    /\ i \in Existing /\ p \in Existing \cup {Top} /\ category[i].parent # p
    /\ category' = [category EXCEPT ![i].parent = p]
    /\ treeMoved' = TRUE
    /\ looped' = (looped \/ p \in Subtree(i))
    /\ UNCHANGED <<categories, edit, treeCrossed>>

(* PATCH { isActive } *)
ToggleActive(i) ==
    /\ edits < MaxEdits
    /\ edits' = edits + 1
    /\ i \in Existing
    /\ category' = [category EXCEPT ![i].active = ~@]
    /\ UNCHANGED <<categories, edit, treeHistory>>

SubmitEdit(e) == SubmitCreate(e) \/ SubmitUpdate(e) \/ SubmitDelete(e)
RunCreate(e) == CreateSlug(e) \/ CreatePath(e) \/ CreateRow(e)
RunUpdate(e) == UpdateFind(e) \/ UpdateSlug(e) \/ UpdatePath(e) \/ UpdateRow(e)
RunDelete(e) == DeleteFind(e) \/ DeleteRow(e)

TreeNext ==
    \/ \E e \in Editors : SubmitEdit(e) \/ RunCreate(e) \/ RunUpdate(e) \/ RunDelete(e)
    \/ \E i \in CategoryIds, p \in CategoryIds \cup {Top} : Reorder(i, p)
    \/ \E i \in CategoryIds : ToggleActive(i)

TreeSpec == TreeInit /\ [][TreeNext]_treeVars
-----------------------------------------------------------------------------
(* What the shop reads *)

IsPrefixPath(p, q) == Len(p) <= Len(q) /\ SubSeq(q, 1, Len(p)) = p

(* categoryScopeIds *)
categoryScopeIds(i) == {j \in Existing : IsPrefixPath(category[i].path, category[j].path)}

(* categoryTree: the active categories, a category whose parent is not among *)
(* them at the top.  Vanished are those that no top reaches.                 *)
Active == {i \in Existing : category[i].active}
Vanished == UNION {S \in SUBSET Active : \A i \in S : category[i].parent \in S}

-----------------------------------------------------------------------------
(* Properties *)

(* Rows and edits stay in their types. *)
TreeTypeOK ==
    /\ category \in [CategoryIds -> Category] /\ categories \in 0..MaxCategories
    /\ \A e \in Editors : edit[e] \in Edit
    /\ treeMoved \in BOOLEAN /\ treeCrossed \in BOOLEAN /\ looped \in BOOLEAN

(* catalog.service "Category itself + every descendant, by materialised      *)
(* path": what a category's page lists is its subtree.                       *)
ScopeIsSubtree == \A i \in Existing : categoryScopeIds(i) = Subtree(i)

(* It is, as long as no category that has others below it was renamed or     *)
(* moved, and no edit wrote a path it computed from a parent that changed    *)
(* meanwhile or took a parent away from under a child.                       *)
ScopeIsSubtreeUntilMoved == ~treeMoved /\ ~treeCrossed => ScopeIsSubtree

(* The tree the shop shows has every active category, however they are       *)
(* edited at the same time, unless one was put below its own descendant.     *)
TreeShowsAll == ~looped => Vanished = {}

(* What both readers of the tree rely on: scopes by path, menus by parent. *)
TreeIsSound == ScopeIsSubtreeUntilMoved /\ TreeShowsAll
=============================================================================
