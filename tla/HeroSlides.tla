----------------------------- MODULE HeroSlides -----------------------------
(***************************************************************************)
(* The slides of the home page (admin/homepage-admin.controller) and the    *)
(* order they play in: administrators add, move and delete slides, each     *)
(* request in several statements, only the swap of a move in a transaction. *)
(* Texts, images and the flag that hides a slide have no part in this.      *)
(***************************************************************************)
EXTENDS Integers, Sequences, FiniteSets

CONSTANTS
    Managers,    \* requests in flight at once
    Places,      \* positions a request may give by hand
    MaxSlides,   \* bound: ids of Banner rows
    MaxHeroEdits \* bound on requests

ASSUME HeroAssumption == Places \subseteq Nat /\ MaxSlides \in Nat /\ MaxHeroEdits \in Nat

VARIABLES
    position,    \* position[i] of the rows that are there, or Gone
    slides,      \* rows created so far
    hero,        \* requests in flight
    heroEdits,   \* requests so far
    entangled    \* history: requests overlapped, one failed half way, or a place was given by
                 \*          hand, since the last deletion that ran alone

heroVars == <<position, slides, hero, heroEdits, entangled>>

Gone == -1
SlideIds == 1..MaxSlides
HeroStage == {"idle", "insert", "rest", "renumber", "swap"}
(* A place to insert at; two slides and what was read of them; or what is    *)
(* left to renumber.                                                         *)
HeroRequest == [at : HeroStage, place : Nat, byHand : BOOLEAN, a : 0..MaxSlides, b : 0..MaxSlides,
                pa : Int, pb : Int, left : SUBSET (SlideIds \X (0..MaxSlides)), alone : BOOLEAN]
NoHero == [at |-> "idle", place |-> 0, byHand |-> FALSE, a |-> 0, b |-> 0, pa |-> 0, pb |-> 0, left |-> {},
           alone |-> TRUE]

HeroInit ==
    /\ position = [i \in SlideIds |-> Gone] /\ slides = 0
    /\ hero = [m \in Managers |-> NoHero]
    /\ heroEdits = 0 /\ entangled = FALSE

Slides == {i \in SlideIds : position[i] # Gone}
HeroBusy == {m \in Managers : hero[m].at # "idle"}
HeroAt(m, stage) == hero[m].at = stage

(* orderBy position: rows of equal position in any order. *)
Orderings == {s \in [1..Cardinality(Slides) -> Slides] :
              \A j, k \in DOMAIN s : j < k => s[j] # s[k] /\ position[s[j]] <= position[s[k]]}

Asked == heroEdits < MaxHeroEdits /\ heroEdits' = heroEdits + 1
Overtaken(n) == [hero[n] EXCEPT !.alone = HeroAt(n, "idle")]

(* A request begins: whoever is in flight is not alone any more. *)
HeroBegin(m, asked) ==
    /\ HeroAt(m, "idle") /\ Asked
    /\ hero' = [n \in Managers |->
          IF n = m THEN [asked EXCEPT !.alone = HeroBusy = {}] ELSE Overtaken(n)]
    /\ entangled' = (entangled \/ HeroBusy # {})

HeroEnd(m) == hero' = [hero EXCEPT ![m] = NoHero]

(* At the end, or at the place that the request gives. *)
createHeroSlide(m) ==
    /\ \E p \in Places \cup {Cardinality(Slides)} :
          HeroBegin(m, [NoHero EXCEPT !.at = "insert", !.place = p, !.byHand = p # Cardinality(Slides)])
    /\ UNCHANGED <<position, slides>>

InsertSlide(m) ==
    /\ HeroAt(m, "insert")
    /\ slides < MaxSlides
    /\ slides' = slides + 1
    /\ position' = [position EXCEPT ![slides + 1] = hero[m].place]
    /\ entangled' = (entangled \/ hero[m].byHand)
    /\ HeroEnd(m)
    /\ UNCHANGED heroEdits

(* Of an update, the place that it may give. *)
updateHeroSlide(m, i, p) ==
    /\ HeroAt(m, "idle") /\ i \in Slides /\ Asked
    /\ position' = [position EXCEPT ![i] = p]
    /\ hero' = [n \in Managers |-> Overtaken(n)]
    /\ entangled' = TRUE
    /\ UNCHANGED slides

deleteHeroSlide(m, i) ==
    /\ i \in Slides
    /\ position' = [position EXCEPT ![i] = Gone]
    /\ HeroBegin(m, [NoHero EXCEPT !.at = "rest"])
    /\ UNCHANGED slides

(* Mutant: the rest keeps its positions. *)
ReadRest_Kept(m) ==
    /\ HeroAt(m, "rest")
    /\ hero' = [hero EXCEPT ![m].at = "renumber"]
    /\ UNCHANGED <<position, slides, heroEdits, entangled>>

ReadRest(m) ==
    /\ HeroAt(m, "rest")
    /\ \E s \in Orderings :
          hero' = [hero EXCEPT ![m].at = "renumber", ![m].left = {<<s[k], k - 1>> : k \in DOMAIN s}]
    /\ UNCHANGED <<position, slides, heroEdits, entangled>>

(* One update for each, in any order; one whose row is gone fails, and the   *)
(* others are carried out all the same.                                      *)
Renumber(m) ==
    /\ HeroAt(m, "renumber")
    /\ \E u \in hero[m].left :
          /\ position' = IF u[1] \in Slides THEN [position EXCEPT ![u[1]] = u[2]] ELSE position
          /\ hero' = [hero EXCEPT ![m].left = @ \ {u}]
    /\ UNCHANGED <<slides, heroEdits, entangled>>

Renumbered(m) ==
    /\ HeroAt(m, "renumber") /\ hero[m].left = {}
    /\ entangled' = (entangled /\ ~hero[m].alone)
    /\ HeroEnd(m)
    /\ UNCHANGED <<position, slides, heroEdits>>

(* Two neighbours of the order as it is read. *)
moveHeroSlide(m) ==
    \E s \in Orderings : \E k \in 1..(Len(s) - 1) :
        /\ HeroBegin(m, [NoHero EXCEPT !.at = "swap", !.a = s[k], !.b = s[k + 1],
                                       !.pa = position[s[k]], !.pb = position[s[k + 1]]])
        /\ UNCHANGED <<position, slides>>

(* Mutant: each of the two takes the place it saw itself at. *)
Swap_Neither(m) ==
    LET h == hero[m]
    IN  /\ HeroAt(m, "swap")
        /\ position' = IF {h.a, h.b} \subseteq Slides
                       THEN [position EXCEPT ![h.a] = h.pb] ELSE position
        /\ HeroEnd(m)
        /\ UNCHANGED <<slides, heroEdits, entangled>>

(* $transaction: nothing, if one of the two is gone. *)
Swap(m) ==
    LET h == hero[m]
    IN  /\ HeroAt(m, "swap")
        /\ position' = IF {h.a, h.b} \subseteq Slides
                       THEN [position EXCEPT ![h.a] = h.pb, ![h.b] = h.pa] ELSE position
        /\ HeroEnd(m)
        /\ UNCHANGED <<slides, heroEdits, entangled>>

(* A statement fails, or the process ends. *)
HeroBreaks(m) ==
    /\ ~HeroAt(m, "idle") /\ Asked
    /\ entangled' = TRUE
    /\ HeroEnd(m)
    /\ UNCHANGED <<position, slides>>

HeroNext ==
    \E m \in Managers :
        \/ createHeroSlide(m) \/ InsertSlide(m)
        \/ (\E i \in SlideIds, p \in Places : updateHeroSlide(m, i, p))
        \/ (\E i \in SlideIds : deleteHeroSlide(m, i)) \/ ReadRest(m) \/ Renumber(m) \/ Renumbered(m)
        \/ moveHeroSlide(m) \/ Swap(m)
        \/ HeroBreaks(m)

HeroSpec == HeroInit /\ [][HeroNext]_heroVars
-----------------------------------------------------------------------------
(* Properties *)

(* Positions and requests keep their types.                                  *)
HeroTypeOK ==
    /\ position \in [SlideIds -> Nat \cup {Gone}] /\ slides \in 0..MaxSlides
    /\ \A m \in Managers : hero[m].at \in HeroStage

(* "Compact positions so the remaining slides stay 0..n-1": they are, while  *)
(* requests neither overlap nor stop half way nor give a place by hand, and  *)
(* again after the first deletion that runs alone, whatever had happened     *)
(* before and whatever places had been given.                                *)
PlacesAreCompact ==
    HeroBusy = {} /\ ~entangled =>
        {position[i] : i \in Slides} = 0..(Cardinality(Slides) - 1)
=============================================================================
