---------------------------- MODULE PincodeCache ----------------------------
(***************************************************************************)
(* Looking up one PIN code (geo/pincode.service): in the memory of the      *)
(* process, in its ServiceablePincode row, at India Post, and in the map of *)
(* well-known PINs that is shipped with the code; and the check of an       *)
(* order's address that rests on it.                                        *)
(*                                                                          *)
(* City, district and state are reduced to where they come from, a district *)
(* matches or it does not; India Post may find the PIN, answer that there is *)
(* none (any 200 that is not a success with offices is read so) or fail, and *)
(* another time otherwise.  Time is in steps of the bounds below.           *)
(***************************************************************************)
EXTENDS Integers, FiniteSets

CONSTANTS
    Lookups,        \* lookups in flight at once
    MEM_TTL,        \* life of an entry in memory
    CACHE_TTL,      \* PINCODE_CACHE_TTL_DAYS
    LOOKUP_TIMEOUT, \* PINCODE_LOOKUP_TIMEOUT_MS
    MaxClock,       \* bound on time
    MaxLookups,     \* bound on lookups
    MaxEditsByHand, \* bound on edits of the row by hand
    MaxDbErrors     \* bound on failing statements

ASSUME PincodeAssumption ==
    /\ MEM_TTL \in Nat \ {0}
    /\ \A n \in {CACHE_TTL, LOOKUP_TIMEOUT, MaxClock, MaxLookups, MaxEditsByHand, MaxDbErrors} : n \in Nat

VARIABLES
    provider,   \* PINCODE_PROVIDER: "indiapost" or "none"
    inMap,      \* it is in PINCODE_FALLBACK
    row,        \* its ServiceablePincode row
    mem,        \* its entry in the memory of the process
    lookup,     \* lookups in flight
    answer,     \* answer[l]: the last one given to l
    pinClock, lookups, editsByHand, dbErrors,
    blockedAt,  \* history: since when prepaidAvailable has been false
    curated,    \* history: the row was written by hand
    editOverlapped, \* history: it was written by hand while a lookup was under way
    unread,     \* history: the row could not be read
    found,      \* history: the provider has found the PIN
    deniedAt    \* history: when it last said that there is none, and no row proved it real

pinVars == <<provider, inMap, row, mem, lookup, answer, pinClock, lookups, editsByHand, dbErrors,
             blockedAt, curated, editOverlapped, unread, found, deniedAt>>

Times == 0..MaxClock
Sources == {"indiapost", "manual"}
NoRow == [usable |-> FALSE]
PinRow == [usable : {TRUE}, source : Sources, verifiedAt : Times, prepaidAvailable : BOOLEAN]
          \cup {NoRow}
ResolvedSource == {"cache", "indiapost", "fallback"}
Resolved == [pin : {"resolved"}, serviceable : BOOLEAN, source : ResolvedSource]
Invalid == [pin |-> "invalid"]   \* null
Refused == [pin |-> "refused"]   \* ServiceUnavailableException
NotAsked == [pin |-> "unknown"]
NoEntry == [at |-> 0, value |-> NotAsked]
Lookup == [at : {"idle", "read", "fetch", "store"}, row : PinRow, since : Times]
NoLookup == [at |-> "idle", row |-> NoRow, since |-> 0]

PinInit ==
    /\ provider \in {"indiapost", "none"} /\ inMap \in BOOLEAN
    /\ row = NoRow /\ mem = NoEntry
    /\ lookup = [l \in Lookups |-> NoLookup] /\ answer = [l \in Lookups |-> NotAsked]
    /\ pinClock = 0 /\ lookups = 0 /\ editsByHand = 0 /\ dbErrors = 0
    /\ blockedAt = -1 /\ curated = FALSE /\ editOverlapped = FALSE /\ unread = FALSE
    /\ found = FALSE /\ deniedAt = -1

pinWorld == <<provider, inMap>>
pinBounds == <<pinClock, lookups, editsByHand>>
said == <<found, deniedAt>>
pinHistory == <<blockedAt, curated, editOverlapped, unread, said>>

Doing(l, stage) == lookup[l].at = stage
DbError == dbErrors < MaxDbErrors /\ dbErrors' = dbErrors + 1

(* build: without a row the PIN is served. *)
build(r, source) ==
    [pin |-> "resolved", serviceable |-> IF r.usable THEN r.prepaidAvailable ELSE TRUE,
     source |-> source]

Gives(l, value) ==
    /\ answer' = [answer EXCEPT ![l] = value]
    /\ lookup' = [lookup EXCEPT ![l] = NoLookup]

(* remember: and answer. *)
remember(l, value) == mem' = [at |-> pinClock, value |-> value] /\ Gives(l, value)

-----------------------------------------------------------------------------
(* resolve *)

(* Mutant: entries do not run out. *)
FreshInMemory_Forever == mem # NoEntry

FreshInMemory == mem # NoEntry /\ pinClock - mem.at < MEM_TTL

resolve(l) ==
    /\ Doing(l, "idle")
    /\ lookups < MaxLookups /\ lookups' = lookups + 1
    /\ IF FreshInMemory
       THEN Gives(l, mem.value)
       ELSE /\ lookup' = [lookup EXCEPT ![l] = [at |-> "read", row |-> NoRow, since |-> pinClock]]
            /\ answer' = [answer EXCEPT ![l] = NotAsked]
    /\ UNCHANGED <<pinWorld, row, mem, pinClock, editsByHand, dbErrors, pinHistory>>

(* Mutant: a row that was written by hand runs out like any other. *)
RowFresh_RunsOut(r) == r.usable /\ pinClock - r.verifiedAt < CACHE_TTL

RowFresh(r) == r.usable /\ (r.source = "manual" \/ pinClock - r.verifiedAt < CACHE_TTL)

(* The row, or null if it cannot be read: a fresh one is the answer. *)
ReadRow(l) ==
    \E failed \in BOOLEAN :
        LET r == IF failed THEN NoRow ELSE row
        IN  /\ Doing(l, "read")
            /\ IF failed THEN DbError ELSE UNCHANGED dbErrors
            /\ unread' = (unread \/ failed)
            /\ IF RowFresh(r)
               THEN remember(l, build(r, "cache"))
               ELSE /\ lookup' = [lookup EXCEPT ![l] = [at |-> "fetch", row |-> r, since |-> pinClock]]
                    /\ UNCHANGED <<mem, answer>>
            /\ UNCHANGED <<pinWorld, row, pinBounds, blockedAt, curated, editOverlapped, said>>

(* fetchFromIndiaPost; without a provider the map is asked. *)
FetchFound(l) ==
    /\ Doing(l, "fetch")
    /\ provider = "none" => inMap
    /\ lookup' = [lookup EXCEPT ![l].at = "store"]
    /\ found' = TRUE
    /\ UNCHANGED <<pinWorld, row, mem, answer, pinBounds, dbErrors, blockedAt, curated,
                   editOverlapped, unread, deniedAt>>

(* null: a stale row still proves that the PIN is real. *)
FetchNone(l) ==
    LET r == lookup[l].row
    IN  /\ Doing(l, "fetch")
        /\ provider = "none" => ~inMap
        /\ remember(l, IF r.usable THEN build(r, "cache") ELSE Invalid)
        /\ deniedAt' = IF r.usable THEN deniedAt ELSE pinClock
        /\ UNCHANGED <<pinWorld, row, pinBounds, dbErrors, blockedAt, curated,
                       editOverlapped, unread, found>>

(* Mutant: an outage is taken for "no such PIN". *)
FetchFails_None(l) ==
    /\ Doing(l, "fetch") /\ provider # "none"
    /\ remember(l, IF lookup[l].row.usable THEN build(lookup[l].row, "cache") ELSE Invalid)
    /\ UNCHANGED <<pinWorld, row, pinBounds, dbErrors, pinHistory>>

(* An error or the timeout: a stale row, the map, or a refusal; none of them *)
(* is remembered.                                                            *)
FetchFails(l) ==
    LET r == lookup[l].row
    IN  /\ Doing(l, "fetch") /\ provider # "none"
        /\ Gives(l, IF r.usable THEN build(r, "cache")
                    ELSE IF inMap THEN build(r, "fallback") ELSE Refused)
        /\ UNCHANGED <<pinWorld, row, mem, pinBounds, dbErrors, pinHistory>>

(* Mutant: the row is written as a new one. *)
upsertCache_Resets(l) ==
    /\ Doing(l, "store")
    /\ row' = [usable |-> TRUE, source |-> "indiapost", verifiedAt |-> pinClock,
               prepaidAvailable |-> TRUE]
    /\ remember(l, build(lookup[l].row, "indiapost"))
    /\ UNCHANGED <<pinWorld, pinBounds, dbErrors, pinHistory>>

(* upsertCache: over whatever the row is by now, but for its flags; the      *)
(* answer has the flags of the row that was read.                            *)
upsertCache(l) ==
    /\ Doing(l, "store")
    /\ \/ /\ row' = [usable |-> TRUE, source |-> "indiapost", verifiedAt |-> pinClock,
                     prepaidAvailable |-> IF row.usable THEN row.prepaidAvailable ELSE TRUE]
          /\ UNCHANGED dbErrors
       \/ DbError /\ UNCHANGED row   \* only logged
    /\ remember(l, build(lookup[l].row, "indiapost"))
    /\ UNCHANGED <<pinWorld, pinBounds, pinHistory>>

-----------------------------------------------------------------------------
(* The row is edited in the database; the code has no form for it.           *)
EditByHand ==
    \E prepaid \in BOOLEAN :
        /\ editsByHand < MaxEditsByHand /\ editsByHand' = editsByHand + 1
        /\ row' = [usable |-> TRUE, source |-> "manual", verifiedAt |-> pinClock,
                   prepaidAvailable |-> prepaid]
        /\ blockedAt' = IF prepaid THEN -1 ELSE IF blockedAt >= 0 THEN blockedAt ELSE pinClock
        /\ curated' = TRUE
        /\ editOverlapped' = (editOverlapped \/ \E l \in Lookups : ~Doing(l, "idle"))
        /\ UNCHANGED <<pinWorld, mem, lookup, answer, pinClock, lookups, dbErrors, unread, said>>

RestartApi ==
    /\ DbError
    /\ mem' = NoEntry /\ lookup' = [l \in Lookups |-> NoLookup]
    /\ UNCHANGED <<pinWorld, row, answer, pinBounds, pinHistory>>

(* A fetch ends by its timeout; the statements take no time. *)
PassTime ==
    /\ pinClock < MaxClock
    /\ \A l \in Lookups : Doing(l, "idle") \/ (Doing(l, "fetch") /\ pinClock - lookup[l].since < LOOKUP_TIMEOUT)
    /\ pinClock' = pinClock + 1
    /\ answer' = [l \in Lookups |-> NotAsked]
    /\ UNCHANGED <<pinWorld, row, mem, lookup, lookups, editsByHand, dbErrors, pinHistory>>

PinNext ==
    \/ \E l \in Lookups : \/ resolve(l) \/ ReadRow(l) \/ FetchFound(l) \/ FetchNone(l)
                          \/ FetchFails(l) \/ upsertCache(l)
    \/ EditByHand \/ RestartApi \/ PassTime

PinSpec == PinInit /\ [][PinNext]_pinVars
-----------------------------------------------------------------------------
(* assertDeliverableAddress: without its checks of the street and of the     *)
(* city's and state's names.                                                 *)
Deliverable(a) == a.pin = "resolved" /\ a.serviceable
-----------------------------------------------------------------------------
(* Properties *)

(* Rows, entries, lookups and answers keep their types. *)
PinTypeOK ==
    /\ row \in PinRow
    /\ mem.at \in Times /\ mem.value \in Resolved \cup {Invalid, NotAsked}
    /\ lookup \in [Lookups -> Lookup]
    /\ answer \in [Lookups -> Resolved \cup {Invalid, Refused, NotAsked}]

(* A PIN is called invalid only within the life of the memory after the      *)
(* provider said so, never after an outage, an error or a restart alone, and *)
(* not if its row, read without an error, is older than one fetch; and it is *)
(* served only if the provider, the map or the staff have it                 *)
(* (pincode.service.ts:89-142).                                              *)
AnswerIsProven ==
    /\ \A l \in Lookups :
          /\ answer[l] = Invalid => deniedAt >= 0 /\ pinClock - deniedAt < MEM_TTL
          /\ answer[l].pin = "resolved" => found \/ inMap \/ curated
    /\ deniedAt >= 0 /\ row.usable /\ ~unread => deniedAt - row.verifiedAt <= LOOKUP_TIMEOUT

(* A PIN that is blocked in its row is refused to orders after the life of   *)
(* the memory and one fetch at the latest, if its row can be read.           *)
BlockedIsRefused ==
    \A l \in Lookups :
        Deliverable(answer[l]) /\ blockedAt >= 0 /\ ~unread =>
            pinClock - blockedAt < MEM_TTL + LOOKUP_TIMEOUT

(* "leave curated serviceability flags untouched": a row written by hand     *)
(* stays as it is, unless a lookup was under way or could not read it, and   *)
(* its flag stays in any case.                                               *)
CuratedIsKept ==
    /\ curated /\ ~editOverlapped /\ ~unread => row.source = "manual"
    /\ blockedAt >= 0 => ~row.prepaidAvailable
(* What the lookup answers and keeps is proven, current and the staff's own. *)
PinAnswerHolds == AnswerIsProven /\ BlockedIsRefused /\ CuratedIsKept
=============================================================================
