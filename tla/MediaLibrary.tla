---------------------------- MODULE MediaLibrary ----------------------------
(***************************************************************************)
(* Product images: the uploader of the product form (admin: media-uploader, *)
(* product-form), the media API (media.service) and the rows a save or an   *)
(* import replaces (admin/catalog-admin.service).  A file is the number of  *)
(* its upload; an upload never takes the name of another.                   *)
(***************************************************************************)
EXTENDS Integers, FiniteSets

CONSTANTS
    Shelf,           \* products
    Forms,           \* product forms open in browsers
    MaxUploads,      \* bound: ids of files
    MaxFormSteps,    \* bound on clicks in forms, and on imports
    MaxMediaFaults   \* bound on requests that fail

ASSUME MediaAssumption == {MaxUploads, MaxFormSteps, MaxMediaFaults} \subseteq Nat

VARIABLES
    files,         \* files in storage
    uploads,       \* files uploaded so far
    productMedia,  \* productMedia[p]: the files its rows name
    form,          \* form[f]
    adrift,        \* uploads in flight whose form was left
    deleting,      \* deletions in flight
    replacing,     \* saves and imports in flight, one per form
    formSteps, mediaFaults,
    copied,        \* history: files whose address was typed into a form or a CSV
    cutOut,        \* history: files deleted though a save named them or a form showed them
    interleaved,   \* history: replacements of one product overlapped or failed half way
    strayed        \* history: files whose form was left, before or after their upload ended,
                   \* or whose deletion or answer failed

mediaVars == <<files, uploads, productMedia, form, adrift, deleting, replacing, formSteps, mediaFaults,
               copied, cutOut, interleaved, strayed>>

Files == 1 .. MaxUploads
NotOpen == [open |-> FALSE]
ProductForm == [open : {TRUE}, of : Shelf, value : SUBSET Files, session : SUBSET Files,
                uploading : BOOLEAN] \cup {NotOpen}
Idling == [at |-> "idle"]
Replacement == [at : {"read", "clear", "fill"}, of : Shelf, urls : SUBSET Files,
                previous : SUBSET Files] \cup {Idling}

MediaInit ==
    /\ files = {} /\ uploads = 0 /\ productMedia = [p \in Shelf |-> {}]
    /\ form = [f \in Forms |-> NotOpen] /\ adrift = 0 /\ deleting = {} /\ replacing = [f \in Forms |-> Idling]
    /\ formSteps = 0 /\ mediaFaults = 0
    /\ copied = {} /\ cutOut = {} /\ interleaved = FALSE /\ strayed = {}

storage == <<files, uploads>>
mediaHistory == <<copied, cutOut, interleaved, strayed>>

FormStep == formSteps < MaxFormSteps /\ formSteps' = formSteps + 1
MediaFault == mediaFaults < MaxMediaFaults /\ mediaFaults' = mediaFaults + 1
IsOpen(f) == form[f].open
Shows(u) == {f \in Forms : IsOpen(f) /\ u \in form[f].value}
BeingSaved(u) == {f \in Forms : replacing[f].at # "idle" /\ u \in replacing[f].urls}
InRows(u) == {p \in Shelf : u \in productMedia[p]}

-----------------------------------------------------------------------------
(* The form *)

(* The page loads the product's images into the form. *)
OpenForm(f, p) ==
    /\ FormStep /\ ~IsOpen(f) /\ replacing[f] = Idling
    /\ form' = [form EXCEPT ![f] = [open |-> TRUE, of |-> p, value |-> productMedia[p],
                                    session |-> {}, uploading |-> FALSE]]
    /\ UNCHANGED <<adrift, storage, productMedia, deleting, replacing, mediaFaults, mediaHistory>>

(* Leaving the page forgets what was uploaded and not saved; nothing stops   *)
(* an upload that is on its way.                                             *)
LeaveForm(f) ==
    /\ FormStep /\ IsOpen(f)
    /\ adrift' = IF form[f].uploading THEN adrift + 1 ELSE adrift
    /\ form' = [form EXCEPT ![f] = NotOpen]
    /\ strayed' = strayed \cup form[f].session
    /\ UNCHANGED <<storage, productMedia, deleting, replacing, mediaFaults, copied, cutOut,
                   interleaved>>

handleFiles(f) ==
    /\ FormStep /\ IsOpen(f) /\ ~form[f].uploading
    /\ form' = [form EXCEPT ![f].uploading = TRUE]
    /\ UNCHANGED <<adrift, storage, productMedia, deleting, replacing, mediaFaults, mediaHistory>>

(* MediaService.store, and emit when it is answered; refused, or the answer *)
(* is lost, the form is told that it failed.                                *)
UploadEnds(f) ==
    /\ IsOpen(f) /\ form[f].uploading
    /\ \/ /\ uploads < MaxUploads
          /\ uploads' = uploads + 1 /\ files' = files \cup {uploads + 1}
          /\ \/ /\ form' = [form EXCEPT ![f].uploading = FALSE, ![f].value = @ \cup {uploads + 1},
                                        ![f].session = @ \cup {uploads + 1}]
                /\ UNCHANGED <<mediaFaults, strayed>>
             \/ /\ MediaFault
                /\ form' = [form EXCEPT ![f].uploading = FALSE]
                /\ strayed' = strayed \cup {uploads + 1}
       \/ /\ MediaFault
          /\ form' = [form EXCEPT ![f].uploading = FALSE]
          /\ UNCHANGED <<storage, strayed>>
    /\ UNCHANGED <<adrift, productMedia, deleting, replacing, formSteps, copied, cutOut, interleaved>>

(* An upload that ends after its form was left: nobody hears of the file.    *)
AdriftEnds ==
    /\ adrift > 0 /\ adrift' = adrift - 1
    /\ \/ /\ uploads < MaxUploads
          /\ uploads' = uploads + 1 /\ files' = files \cup {uploads + 1}
          /\ strayed' = strayed \cup {uploads + 1}
          /\ UNCHANGED mediaFaults
       \/ MediaFault /\ UNCHANGED <<storage, strayed>>
    /\ UNCHANGED <<productMedia, form, deleting, replacing, formSteps, copied, cutOut, interleaved>>

(* A file of this visit is deleted at once, another when the form is saved. *)
removeImage(f, u) ==
    /\ FormStep /\ IsOpen(f) /\ u \in form[f].value
    /\ LET ours == u \in form[f].session
       IN  /\ form' = [form EXCEPT ![f].value = @ \ {u}, ![f].session = @ \ {u}]
           /\ deleting' = IF ours THEN deleting \cup {u} ELSE deleting
           /\ cutOut' = IF ours /\ InRows(u) \cup BeingSaved(u) # {} THEN cutOut \cup {u} ELSE cutOut
    /\ UNCHANGED <<adrift, storage, productMedia, replacing, mediaFaults, copied, interleaved, strayed>>

(* The text field below the images takes any address. *)
TypeUrl(f, u) ==
    /\ FormStep /\ IsOpen(f) /\ u \in 1 .. uploads /\ u \notin form[f].value
    /\ form' = [form EXCEPT ![f].value = @ \cup {u}]
    /\ copied' = copied \cup {u}
    /\ UNCHANGED <<adrift, storage, productMedia, deleting, replacing, mediaFaults, cutOut, interleaved,
                   strayed>>

-----------------------------------------------------------------------------
(* The rows *)

Replacing(p) == {f \in Forms : replacing[f].at # "idle" /\ replacing[f].of = p}

Begins(f, p, urls) ==
    /\ FormStep /\ replacing[f] = Idling
    /\ replacing' = [replacing EXCEPT ![f] = [at |-> "read", of |-> p, urls |-> urls,
                                              previous |-> {}]]
    /\ interleaved' = (interleaved \/ Replacing(p) # {})

(* The form stays as it is: after the save the same page is shown again.    *)
SaveForm(f) ==
    /\ IsOpen(f) /\ Begins(f, form[f].of, form[f].value)
    /\ UNCHANGED <<adrift, storage, productMedia, form, deleting, mediaFaults, copied, cutOut, strayed>>

(* A CSV row that names images; what it drops is cleaned up too.            *)
ImportUrls(f, p, urls) ==
    /\ ~IsOpen(f) /\ urls \subseteq 1 .. uploads /\ Begins(f, p, urls)
    /\ copied' = copied \cup urls
    /\ UNCHANGED <<adrift, storage, productMedia, form, deleting, mediaFaults, cutOut, strayed>>

ReadPrevious(f) ==
    /\ replacing[f].at = "read"
    /\ replacing' = [replacing EXCEPT ![f].at = "clear", ![f].previous = productMedia[replacing[f].of]]
    /\ UNCHANGED <<adrift, storage, productMedia, form, deleting, formSteps, mediaFaults, mediaHistory>>

ClearMedia(f) ==
    /\ replacing[f].at = "clear"
    /\ productMedia' = [productMedia EXCEPT ![replacing[f].of] = {}]
    /\ replacing' = [replacing EXCEPT ![f].at = "fill"]
    /\ UNCHANGED <<adrift, storage, form, deleting, formSteps, mediaFaults, mediaHistory>>

(* Mutant: what is kept is deleted as well. *)
cleanupRemovedMedia_All(old, new) == deleting' = deleting \cup old

cleanupRemovedMedia(old, new) == deleting' = deleting \cup (old \ new)

FillMedia(f) ==
    LET r == replacing[f]
    IN  /\ r.at = "fill"
        /\ productMedia' = [productMedia EXCEPT ![r.of] = @ \cup r.urls]
        /\ cleanupRemovedMedia(r.previous, r.urls)
        /\ cutOut' = cutOut \cup {u \in r.previous \ r.urls : Shows(u) \cup BeingSaved(u) # {}}
        /\ replacing' = [replacing EXCEPT ![f] = Idling]
        /\ UNCHANGED <<adrift, storage, form, formSteps, mediaFaults, copied, interleaved, strayed>>

(* What was written stays, nothing is cleaned up. *)
ReplacementFails(f) ==
    /\ replacing[f] # Idling /\ MediaFault
    /\ replacing' = [replacing EXCEPT ![f] = Idling]
    /\ interleaved' = TRUE
    /\ UNCHANGED <<adrift, storage, productMedia, form, deleting, formSteps, copied, cutOut, strayed>>

(* MediaService.delete never throws. *)
DeleteEnds(u) ==
    /\ u \in deleting
    /\ deleting' = deleting \ {u}
    /\ \/ files' = files \ {u} /\ UNCHANGED <<mediaFaults, strayed>>
       \/ MediaFault /\ strayed' = strayed \cup {u} /\ UNCHANGED files
    /\ UNCHANGED <<adrift, uploads, productMedia, form, replacing, formSteps, copied, cutOut, interleaved>>

-----------------------------------------------------------------------------
MediaNext ==
    \/ \E f \in Forms :
         \/ LeaveForm(f) \/ handleFiles(f) \/ UploadEnds(f) \/ SaveForm(f)
         \/ ReadPrevious(f) \/ ClearMedia(f) \/ FillMedia(f) \/ ReplacementFails(f)
         \/ \E p \in Shelf : OpenForm(f, p) \/ \E urls \in SUBSET Files : ImportUrls(f, p, urls)
         \/ \E u \in Files : removeImage(f, u) \/ TypeUrl(f, u)
    \/ AdriftEnds
    \/ \E u \in deleting : DeleteEnds(u)

MediaSpec == MediaInit /\ [][MediaNext]_mediaVars
-----------------------------------------------------------------------------
(* Properties *)

(* Files, rows, forms and replacements keep their types. *)
MediaTypeOK ==
    /\ files \subseteq Files /\ uploads \in 0 .. MaxUploads
    /\ productMedia \in [Shelf -> SUBSET Files]
    /\ form \in [Forms -> ProductForm] /\ replacing \in [Forms -> Replacement]
    /\ deleting \subseteq Files /\ adrift \in Nat

(* A product's images are in storage, and what is in storage is some        *)
(* product's image, or on its way to be one or to be deleted.  Exceptions:   *)
(* an address that was typed by hand (nobody looks for other uses of it); a  *)
(* file deleted while another form shows it, or removed in the visit that    *)
(* uploaded and saved it (it goes at once, the row with the next save);      *)
(* replacements that overlap or fail; and, for what is left over, a form     *)
(* that was left, with files it had not saved or an upload that ended later. *)
(* Those files stay in storage for good: nothing else looks for them.        *)
StorageFollowsProducts ==
    ~interleaved =>
        /\ \A p \in Shelf : productMedia[p] \ (copied \cup cutOut) \subseteq files \ deleting
        /\ \A u \in files \ (copied \cup strayed) :
              InRows(u) # {} \/ Shows(u) # {} \/ BeingSaved(u) # {} \/ u \in deleting
              \/ \E f \in Forms : replacing[f].at = "fill" /\ u \in replacing[f].previous
=============================================================================
