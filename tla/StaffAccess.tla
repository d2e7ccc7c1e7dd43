---------------------------- MODULE StaffAccess ----------------------------
(***************************************************************************)
(* Who may do what in the administration: the tabs of one browser (admin:   *)
(* client, login page, Shell), which share a token in localStorage, and the *)
(* guards and the audit log of the API (JwtAuthGuard, PermissionsGuard,     *)
(* AuditInterceptor).                                                       *)
(*                                                                          *)
(* A request reads the token when it is sent, the guards read the account   *)
(* when it arrives, and the handler writes after that; all of them          *)
(* interleave with other requests, with permissions that are taken or given *)
(* and with bans, which the database is given by hand or by the seed.       *)
(***************************************************************************)
EXTENDS Integers, FiniteSets

CONSTANTS
    Tabs,
    People, Staff, Super,       \* accounts; those of kind STAFF or with a role; super administrators
    Permissions, Granted,       \* Granted[a]: what an account's roles permit at first
    Endpoints,                  \* of mutations: [needs : set of permissions, audited : BOOLEAN]
    Nobody, NoTab,
    MaxSent,                    \* bound on requests
    MaxAccountEdits, MaxSilences, MaxReloads   \* bounds

ASSUME AccessAssumption ==
    /\ Super \subseteq Staff /\ Staff \subseteq People
    /\ Nobody \notin People /\ NoTab \notin Tabs
    /\ Granted \in [People -> SUBSET Permissions] /\ \A a \in People \ Staff : Granted[a] = {}
    /\ Endpoints \subseteq [needs : (SUBSET Permissions) \ {{}}, audited : BOOLEAN]
    /\ {MaxSent, MaxAccountEdits, MaxSilences, MaxReloads} \subseteq Nat

VARIABLES
    banned, held,      \* of the accounts
    token,             \* sj_admin_token in localStorage: [who, n], n = 0 for none
    expired,           \* tokens that are too old
    page, me,          \* of each tab: what it shows, and as whom
    fetches,           \* requests in flight
    auditQueue, auditLog,
    sent, accountEdits, silences, reloads,
    carriedOut, lostAudits   \* history: mutations that were made; entries that were not written

accessVars == <<banned, held, token, expired, page, me, fetches, auditQueue, auditLog, sent,
                accountEdits, silences, reloads, carriedOut, lostAudits>>
apiSide == <<banned, held, expired, auditQueue, auditLog, carriedOut, lostAudits>>
adminTabs == <<token, page, me>>
accessBounds == <<accountEdits, silences, reloads>>

NoKey == [who |-> Nobody, n |-> 0]
NoEndpoint == [needs |-> {}, audited |-> FALSE]

AccessInit ==
    /\ banned = {} /\ held = Granted
    /\ token \in {NoKey} \cup [who : People, n : {1}]   \* localStorage outlives the visit
    /\ sent = token.n /\ expired = {}
    /\ page = [t \in Tabs |-> "login"] /\ me = [t \in Tabs |-> Nobody]
    /\ fetches = {} /\ auditQueue = {} /\ auditLog = {}
    /\ accountEdits = 0 /\ silences = 0 /\ reloads = 0
    /\ carriedOut = {} /\ lostAudits = {}

(* What an account lacks when a request is sent, and still does, for the    *)
(* history.                                                                 *)
MayNot(a, needs) == a \in banned \/ (a \notin Super /\ ~(needs \subseteq held[a]))

Request(t, kind, who, key, end) ==
    [n |-> sent + 1, tab |-> t, kind |-> kind, who |-> who, key |-> key, end |-> end,
     at |-> "guard", answer |-> "none",
     forbidden |-> who # Nobody /\ MayNot(who, end.needs)]

(* apiFetch: the token is the one in localStorage now. *)
apiFetch(t, kind, end, others) ==
    /\ sent < MaxSent /\ sent' = sent + 1
    /\ fetches' = others \cup {Request(t, kind, token'.who, token'.n, end)}

(* A page that is left for good does not hear the answers any more. *)
Abandoned(t) == {IF c.tab = t THEN [c EXCEPT !.tab = NoTab] ELSE c : c \in fetches}
BecomesRequest(c, d) == fetches' = (fetches \ {c}) \cup {d}
ShowPage(t, what, who) == page' = [page EXCEPT ![t] = what] /\ me' = [me EXCEPT ![t] = who]

-----------------------------------------------------------------------------
(* The tabs *)

(* The button is disabled while the login and its confirmation are asked.   *)
onSubmit(t, a) ==
    /\ page[t] = "login" /\ sent < MaxSent
    /\ \A c \in fetches : c.tab = t => c.kind \notin {"login", "confirm"}
    /\ sent' = sent + 1
    /\ fetches' = fetches \cup {Request(t, "login", a, 0, NoEndpoint)}
    /\ UNCHANGED <<apiSide, adminTabs, accessBounds>>

(* login: the token is kept, and only then is it asked whose it is. *)
TokenArrives(c) ==
    /\ c.kind = "login" /\ c.at = "answer" /\ c.tab # NoTab
    /\ IF c.answer = "ok"
         THEN /\ token' = [who |-> c.who, n |-> c.n]
              /\ apiFetch(c.tab, "confirm", NoEndpoint, fetches \ {c})
         ELSE fetches' = fetches \ {c} /\ UNCHANGED <<token, sent>>
    /\ UNCHANGED <<apiSide, page, me, accessBounds>>

(* The Shell is mounted: no token, no question. *)
Mounts(t, others) ==
    IF token.n = 0
      THEN ShowPage(t, "login", Nobody) /\ fetches' = others /\ UNCHANGED sent
      ELSE ShowPage(t, "loading", Nobody) /\ apiFetch(t, "shell", NoEndpoint, others)

Confirmed(c) ==
    /\ c.kind = "confirm" /\ c.at = "answer" /\ c.answer = "staff" /\ c.tab # NoTab
    /\ UNCHANGED token
    /\ Mounts(c.tab, fetches \ {c})
    /\ UNCHANGED <<apiSide, accessBounds>>

(* The dashboard is rendered for an account that was answered to be staff.  *)
ShellAnswered(c) ==
    /\ c.kind = "shell" /\ c.at = "answer" /\ c.answer = "staff" /\ c.tab # NoTab
    /\ fetches' = fetches \ {c}
    /\ ShowPage(c.tab, "dashboard", c.who)
    /\ UNCHANGED <<apiSide, token, sent, accessBounds>>

(* Another answer, or none: whatever token there is now is removed.         *)
NotStaff(c) ==
    /\ token' = NoKey
    /\ fetches' = fetches \ {c}
    /\ ShowPage(c.tab, "login", Nobody)

TurnedAway(c) ==
    /\ c.kind \in {"confirm", "shell"} /\ c.at = "answer" /\ c.answer = "customer" /\ c.tab # NoTab
    /\ NotStaff(c)
    /\ UNCHANGED <<apiSide, sent, accessBounds>>

(* Mutant: the tab stays where it is. *)
SessionExpired_Stays(c) ==
    /\ c.answer = "401" /\ c.tab # NoTab
    /\ token' = NoKey
    /\ fetches' = Abandoned(c.tab) \ {[c EXCEPT !.tab = NoTab]}
    /\ UNCHANGED <<page, me, apiSide, sent, accessBounds>>

(* 401: the token is removed, and the tab loads the login page anew. *)
SessionExpired(c) ==
    /\ c.answer = "401" /\ c.tab # NoTab
    /\ token' = NoKey
    /\ fetches' = Abandoned(c.tab) \ {[c EXCEPT !.tab = NoTab]}
    /\ ShowPage(c.tab, "login", Nobody)
    /\ UNCHANGED <<apiSide, sent, accessBounds>>

(* Twenty seconds pass, or the network fails; a request that has arrived    *)
(* goes on without its tab.                                                 *)
FetchGivenUp(c) ==
    /\ silences < MaxSilences /\ silences' = silences + 1 /\ c.tab # NoTab
    /\ IF c.kind \in {"confirm", "shell"} THEN NotStaff(c)
       ELSE BecomesRequest(c, [c EXCEPT !.tab = NoTab]) /\ UNCHANGED adminTabs
    /\ UNCHANGED <<apiSide, sent, accountEdits, reloads>>

(* A screen of the dashboard saves something. *)
Save(t, end) ==
    /\ page[t] = "dashboard"
    /\ UNCHANGED token
    /\ apiFetch(t, "save", end, fetches)
    /\ UNCHANGED <<apiSide, page, me, accessBounds>>

(* An answer to a save; or one that nobody listens to. *)
Saved(c) ==
    /\ c.at = "answer"
    /\ c.tab = NoTab \/ (c.kind = "save" /\ c.answer \in {"ok", "403", "error"})
    /\ fetches' = fetches \ {c}
    /\ UNCHANGED <<apiSide, adminTabs, sent, accessBounds>>

(* Sign out leaves by the router: answers still arrive. *)
SignOut(t) ==
    /\ page[t] = "dashboard"
    /\ token' = NoKey
    /\ ShowPage(t, "login", Nobody)
    /\ UNCHANGED <<apiSide, fetches, sent, accessBounds>>

(* A tab is loaded anew, at the dashboard. *)
Reload(t) ==
    /\ reloads < MaxReloads /\ reloads' = reloads + 1
    /\ UNCHANGED token
    /\ Mounts(t, Abandoned(t))
    /\ UNCHANGED <<apiSide, accountEdits, silences>>

-----------------------------------------------------------------------------
(* The API *)

(* Mutant: a ban is not looked at, the token is still good. *)
canActivate_Banned(c) == c.key # 0 /\ c.key \notin expired

(* JwtAuthGuard: a token that verifies, of an account that is not banned.   *)
canActivate(c) == c.key # 0 /\ c.key \notin expired /\ c.who \notin banned

(* Mutant: one of the permissions is enough. *)
MissingKeys_Any(c) == c.who \notin Super /\ c.end.needs # {} /\ c.end.needs \cap held[c.who] = {}

(* PermissionsGuard: all of them, or a super administrator. *)
MissingKeys(c) == c.who \notin Super /\ ~(c.end.needs \subseteq held[c.who])

(* Mutant: /auth/me does not say what kind of account it is. *)
isStaff_Anyone(a) == "staff"
isStaff(a) == IF a \in Staff THEN "staff" ELSE "customer"

AnswerWith(c, said) == BecomesRequest(c, [c EXCEPT !.at = "answer", !.answer = said])

(* The login, which issues a token, checks the ban as well. *)
LoginServed(c) ==
    /\ c.kind = "login" /\ c.at = "guard"
    /\ AnswerWith(c, IF c.who \in banned THEN "refused" ELSE "ok")
    /\ UNCHANGED <<apiSide, adminTabs, sent, accessBounds>>

(* The guards, which read the account once; /auth/me answers from that.     *)
Guarded(c) ==
    /\ c.kind # "login" /\ c.at = "guard"
    /\ IF ~canActivate(c) THEN AnswerWith(c, "401")
       ELSE IF c.kind # "save" THEN AnswerWith(c, isStaff(c.who))
       ELSE IF MissingKeys(c) THEN AnswerWith(c, "403")
       ELSE BecomesRequest(c, [c EXCEPT !.at = "handle"])
    /\ UNCHANGED <<apiSide, adminTabs, sent, accessBounds>>

Entry(c) == [n |-> c.n, actor |-> c.who]

(* Mutant: the entry is made before the handler is asked. *)
Audited_Always(c, ok) == c.end.audited
(* AuditInterceptor: after a handler that did not throw; nobody waits for   *)
(* the entry.                                                               *)
Audited(c, ok) == c.end.audited /\ ok

Handled(c, ok) ==
    /\ c.at = "handle"
    /\ carriedOut' = IF ok THEN carriedOut \cup {c} ELSE carriedOut
    /\ auditQueue' = IF Audited(c, ok) THEN auditQueue \cup {Entry(c)} ELSE auditQueue
    /\ AnswerWith(c, IF ok THEN "ok" ELSE "error")
    /\ UNCHANGED <<banned, held, expired, auditLog, lostAudits, adminTabs, sent, accessBounds>>

(* Auditing must never break the request: an entry that fails is lost. *)
EntryEnds(e, written) ==
    /\ auditQueue' = auditQueue \ {e}
    /\ IF written THEN auditLog' = auditLog \cup {e} /\ UNCHANGED <<lostAudits, silences>>
       ELSE /\ lostAudits' = lostAudits \cup {e} /\ UNCHANGED auditLog
            /\ silences < MaxSilences /\ silences' = silences + 1
    /\ UNCHANGED <<banned, held, expired, carriedOut, adminTabs, fetches, sent, accountEdits, reloads>>

(* An account is banned, or is not any more; one loses a permission, or is  *)
(* given one; a token runs out.                                             *)
EditAccounts ==
    /\ accountEdits < MaxAccountEdits /\ accountEdits' = accountEdits + 1
    /\ \/ \E a \in People \ banned : banned' = banned \cup {a} /\ UNCHANGED <<held, expired>>
       \/ \E a \in banned : banned' = banned \ {a} /\ UNCHANGED <<held, expired>>
       \/ \E a \in People : \E p \in held[a] :
             held' = [held EXCEPT ![a] = @ \ {p}] /\ UNCHANGED <<banned, expired>>
       \/ \E a \in Staff : \E p \in Permissions \ held[a] :
             held' = [held EXCEPT ![a] = @ \cup {p}] /\ UNCHANGED <<banned, expired>>
       \/ /\ token.n # 0 /\ token.n \notin expired
          /\ expired' = expired \cup {token.n} /\ UNCHANGED <<banned, held>>
    /\ fetches' = {[c EXCEPT !.forbidden = @ /\ MayNot(c.who, c.end.needs)'] : c \in fetches}
    /\ UNCHANGED <<auditQueue, auditLog, carriedOut, lostAudits, adminTabs, sent, silences, reloads>>

-----------------------------------------------------------------------------
AccessNext ==
    \/ \E t \in Tabs : SignOut(t) \/ Reload(t)
    \/ \E t \in Tabs, a \in People : onSubmit(t, a)
    \/ \E t \in Tabs, end \in Endpoints : Save(t, end)
    \/ \E c \in fetches :
          \/ LoginServed(c) \/ TokenArrives(c) \/ Confirmed(c) \/ ShellAnswered(c) \/ TurnedAway(c)
          \/ SessionExpired(c) \/ FetchGivenUp(c) \/ Guarded(c) \/ Saved(c)
    \/ \E c \in fetches, ok \in BOOLEAN : Handled(c, ok)
    \/ \E e \in auditQueue, written \in BOOLEAN : EntryEnds(e, written)
    \/ EditAccounts

AccessSpec == AccessInit /\ [][AccessNext]_accessVars
-----------------------------------------------------------------------------
(* Properties *)

(* Accounts, tabs, requests and entries keep their types. *)
AccessTypeOK ==
    /\ banned \subseteq People /\ held \in [People -> SUBSET Permissions]
    /\ token \in [who : People \cup {Nobody}, n : 0 .. sent]
    /\ page \in [Tabs -> {"login", "loading", "dashboard"}]
    /\ me \in [Tabs -> People \cup {Nobody}]
    /\ \A c \in fetches : c.n \in 1 .. sent /\ c.at \in {"guard", "handle", "answer"}
    /\ auditQueue \cup auditLog \cup lostAudits \subseteq [n : 1 .. sent, actor : People]

(* A token is not enough: nothing is written for an account that was banned, *)
(* or lacked a permission, from when the request was sent until it was       *)
(* served, and nothing for an account that is not staff; the dashboard is    *)
(* shown to staff only and a tab that loads has an answer to come; and the   *)
(* log has an entry for each of the audited mutations that were made, and    *)
(* for no other, unless writing it failed (jwt-auth.guard.ts:24-72,          *)
(* permissions.guard.ts:14-30, audit.interceptor.ts:28-61, shell.tsx:29-50). *)
AccessIsHeld ==
    /\ \A c \in carriedOut : ~c.forbidden /\ c.who \in Staff
    /\ auditQueue \cup auditLog \cup lostAudits = {Entry(c) : c \in {d \in carriedOut : d.end.audited}}
    /\ \A t \in Tabs :
          /\ page[t] = "dashboard" => me[t] \in Staff
          /\ page[t] = "loading" => \E c \in fetches : c.tab = t /\ c.kind = "shell"
=============================================================================
