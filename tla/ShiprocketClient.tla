-------------------------- MODULE ShiprocketClient --------------------------
(***************************************************************************)
(* The HTTP client of Shiprocket (shipping/shiprocket.service), in one or   *)
(* more processes of the API: a bearer token kept in memory and in a row of *)
(* Integration, one shared login per process, requests that are repeated    *)
(* after a timeout, a 429 or a 5xx, and once after a 401.                   *)
(*                                                                          *)
(* A token is the number of the login that issued it.  What a request asks  *)
(* for is left out: all of them are sent in the same way.                   *)
(***************************************************************************)
EXTENDS Integers, FiniteSets

CONSTANTS
    Processes,   \* processes of the API
    ApiSends,    \* requests in flight at once
    MAX_RETRIES,
    MaxLogins,   \* bound on logins
    MaxRequests, \* bound on requests
    MaxFaults,   \* bound on lost answers and errors of Shiprocket and of the row
    MaxRevoked   \* bound on tokens that end early or run out

ASSUME ClientAssumption ==
    /\ Processes # {}
    /\ \A n \in {MAX_RETRIES, MaxLogins, MaxRequests, MaxFaults, MaxRevoked} : n \in Nat

VARIABLES
    accepted,    \* tokens Shiprocket accepts
    unexpired,   \* tokens whose expiresAt is ahead
    loginTokens,      \* tokens issued
    cached,      \* cached[p]: the process's token, or 0
    stored,      \* the row's token, or 0
    inFlightLogin, \* inFlightLogin[p]
    send,        \* requests
    requests, faults, revoked,
    unauthorised, \* history: a request gave up with a 401
    renewed,     \* history: a token ended while it was being issued or used to try again
    unstored,    \* history: a token was not written to the row
    overtaken    \* history: a token read from the row was used when a login had a newer one

clientVars == <<accepted, unexpired, loginTokens, cached, stored, inFlightLogin, send, requests, faults,
                revoked, unauthorised, renewed, unstored, overtaken>>

NoToken == 0
Tokens == 0..MaxLogins
LoginStage == {"none", "call", "store"}
SendStage == {"idle", "token", "row", "login", "reauth", "fetch"}
Sending == [at : SendStage, by : Processes, token : Tokens, read : Tokens, attempt : Nat,
            reauthed : BOOLEAN]

NotSending == [at |-> "idle", by |-> CHOOSE p \in Processes : TRUE, token |-> NoToken,
               read |-> NoToken, attempt |-> 0, reauthed |-> FALSE]
NoLogin == [at |-> "none", token |-> NoToken]

ClientInit ==
    /\ accepted = {} /\ unexpired = {} /\ loginTokens = 0
    /\ cached = [p \in Processes |-> NoToken] /\ stored = NoToken
    /\ inFlightLogin = [p \in Processes |-> NoLogin]
    /\ send = [s \in ApiSends |-> NotSending]
    /\ requests = 0 /\ faults = 0 /\ revoked = 0
    /\ unauthorised = FALSE /\ renewed = FALSE /\ unstored = FALSE /\ overtaken = FALSE

SendsAt(s, stage) == send[s].at = stage
Waiting(p) == {s \in ApiSends : send[s].by = p /\ send[s].at \in {"login", "reauth"}}
tokenParts == <<accepted, unexpired, loginTokens>>
clientBounds == <<requests, faults, revoked>>
clientHistory == <<unauthorised, renewed, unstored, overtaken>>

(* One turn of the loop more, or a failure after MAX_RETRIES of them. *)
Repeated(d) ==
    IF d.attempt <= MAX_RETRIES THEN [d EXCEPT !.at = "token", !.attempt = @ + 1] ELSE NotSending

-----------------------------------------------------------------------------
(* request *)

ApiRequest(s, p) ==
    /\ SendsAt(s, "idle")
    /\ requests < MaxRequests /\ requests' = requests + 1
    /\ send' = [send EXCEPT ![s] = [NotSending EXCEPT !.at = "token", !.by = p, !.attempt = 1]]
    /\ UNCHANGED <<tokenParts, cached, stored, inFlightLogin, faults, revoked, clientHistory>>

(* token, loadStoredToken: the process's own, if it has not run out. *)
CachedToken(s) ==
    LET own == cached[send[s].by]
    IN  /\ SendsAt(s, "token")
        /\ send' = [send EXCEPT ![s].at = IF own \in unexpired THEN "fetch" ELSE "row",
                                ![s].token = IF own \in unexpired THEN own ELSE NoToken,
                                ![s].read = NoToken]
        /\ UNCHANGED <<tokenParts, cached, stored, inFlightLogin, clientBounds, clientHistory>>

(* The row is read, at some time before its answer is used. *)
ReadStored(s) ==
    /\ SendsAt(s, "row") /\ send[s].read = NoToken
    /\ stored \in unexpired
    /\ send' = [send EXCEPT ![s].read = stored]
    /\ UNCHANGED <<tokenParts, cached, stored, inFlightLogin, clientBounds, clientHistory>>

UseStored(s) ==
    LET p == send[s].by
    IN  /\ SendsAt(s, "row") /\ send[s].read # NoToken
        /\ cached' = [cached EXCEPT ![p] = send[s].read]
        /\ overtaken' = (overtaken \/ send[s].read # stored
                             \/ inFlightLogin[p].token \notin {NoToken, send[s].read})
        /\ send' = [send EXCEPT ![s].at = "fetch", ![s].token = send[s].read]
        /\ UNCHANGED <<tokenParts, stored, inFlightLogin, clientBounds, unauthorised, renewed, unstored>>

(* login, from token: there is none to use, or the row cannot be read. *)
JoinLogin(p) ==
    inFlightLogin' = IF inFlightLogin[p].at = "none"
                     THEN [inFlightLogin EXCEPT ![p] = [at |-> "call", token |-> NoToken]]
                     ELSE inFlightLogin

NothingStored(s) ==
    /\ SendsAt(s, "row") /\ send[s].read = NoToken
    /\ IF stored \in unexpired THEN faults < MaxFaults /\ faults' = faults + 1 ELSE UNCHANGED faults
    /\ JoinLogin(send[s].by)
    /\ send' = [send EXCEPT ![s].at = "login"]
    /\ UNCHANGED <<tokenParts, cached, stored, requests, revoked, clientHistory>>

(* A token is issued and kept in memory before it is stored. *)
LoginAnswered(p) ==
    /\ inFlightLogin[p].at = "call" /\ loginTokens < MaxLogins
    /\ loginTokens' = loginTokens + 1
    /\ accepted' = accepted \cup {loginTokens + 1} /\ unexpired' = unexpired \cup {loginTokens + 1}
    /\ cached' = [cached EXCEPT ![p] = loginTokens + 1]
    /\ inFlightLogin' = [inFlightLogin EXCEPT ![p] = [at |-> "store", token |-> loginTokens + 1]]
    /\ UNCHANGED <<stored, send, clientBounds, clientHistory>>

(* Everyone who waits goes on: to the request, or to a turn with a new token. *)
AfterLogin(d) ==
    IF d.at = "login" THEN [d EXCEPT !.at = "fetch"]
    ELSE [d EXCEPT !.at = "token", !.reauthed = TRUE, !.attempt = @ + 1]

LoginStored(p) ==
    LET issued == inFlightLogin[p].token
    IN  /\ inFlightLogin[p].at = "store"
        /\ \/ stored' = issued /\ UNCHANGED <<faults, unstored>>
           \/ /\ faults < MaxFaults /\ faults' = faults + 1   \* only logged
              /\ unstored' = TRUE
              /\ UNCHANGED stored
        /\ inFlightLogin' = [inFlightLogin EXCEPT ![p] = NoLogin]
        /\ send' = [s \in ApiSends |-> IF s \in Waiting(p)
                                    THEN AfterLogin([send[s] EXCEPT !.token = issued]) ELSE send[s]]
        /\ UNCHANGED <<tokenParts, cached, requests, revoked, unauthorised, renewed, overtaken>>

(* Mutant: those who logged in after a 401 are forgotten. *)
LoginRefused_LeavesReauth(p) ==
    /\ inFlightLogin[p].at = "call"
    /\ faults < MaxFaults /\ faults' = faults + 1
    /\ inFlightLogin' = [inFlightLogin EXCEPT ![p] = NoLogin]
    /\ send' = [s \in ApiSends |-> IF s \in Waiting(p) /\ SendsAt(s, "login") THEN Repeated(send[s])
                                ELSE send[s]]
    /\ UNCHANGED <<tokenParts, cached, stored, requests, revoked, clientHistory>>

(* A refused login is, for a request in need of a token, an error of the     *)
(* network like any other; after a 401 the request fails.                    *)
LoginRefused(p) ==
    /\ inFlightLogin[p].at = "call"
    /\ faults < MaxFaults /\ faults' = faults + 1
    /\ inFlightLogin' = [inFlightLogin EXCEPT ![p] = NoLogin]
    /\ send' = [s \in ApiSends |-> IF s \notin Waiting(p) THEN send[s]
                                ELSE IF SendsAt(s, "login") THEN Repeated(send[s]) ELSE NotSending]
    /\ UNCHANGED <<tokenParts, cached, stored, requests, revoked, clientHistory>>

(* Shiprocket carries the request out and answers. *)
Answered(s) ==
    /\ SendsAt(s, "fetch") /\ send[s].token \in accepted
    /\ send' = [send EXCEPT ![s] = NotSending]
    /\ UNCHANGED <<tokenParts, cached, stored, inFlightLogin, clientBounds, clientHistory>>

(* A timeout, a 429 or a 5xx: sent again, whether or not it was carried out. *)
NotAnswered(s) ==
    /\ SendsAt(s, "fetch")
    /\ faults < MaxFaults /\ faults' = faults + 1
    /\ send' = [send EXCEPT ![s] = Repeated(@)]
    /\ UNCHANGED <<tokenParts, cached, stored, inFlightLogin, requests, revoked, clientHistory>>

(* Mutant: the second 401 is answered like the first. *)
Unauthorised_Again(s) ==
    /\ SendsAt(s, "fetch") /\ send[s].token \notin accepted
    /\ send' = [send EXCEPT ![s].at = "reauth"]
    /\ cached' = [cached EXCEPT ![send[s].by] = NoToken]
    /\ JoinLogin(send[s].by)
    /\ UNCHANGED <<tokenParts, stored, clientBounds, clientHistory>>

(* Mutant: the token is forgotten, and the row asked. *)
Unauthorised_NoLogin(s) ==
    /\ SendsAt(s, "fetch") /\ send[s].token \notin accepted
    /\ unauthorised' = send[s].reauthed
    /\ send' = [send EXCEPT ![s] = IF @.reauthed THEN NotSending
                                   ELSE [@ EXCEPT !.at = "token", !.reauthed = TRUE]]
    /\ cached' = [cached EXCEPT ![send[s].by] = NoToken]
    /\ UNCHANGED <<tokenParts, stored, inFlightLogin, clientBounds, renewed, unstored, overtaken>>

(* 401: the process forgets its token and logs in, once; the row still has it. *)
Unauthorised(s) ==
    /\ SendsAt(s, "fetch") /\ send[s].token \notin accepted
    /\ IF send[s].reauthed
       THEN /\ unauthorised' = TRUE
            /\ send' = [send EXCEPT ![s] = NotSending]
            /\ UNCHANGED <<cached, inFlightLogin>>
       ELSE /\ send' = [send EXCEPT ![s].at = "reauth"]
            /\ cached' = [cached EXCEPT ![send[s].by] = NoToken]
            /\ JoinLogin(send[s].by)
            /\ UNCHANGED unauthorised
    /\ UNCHANGED <<tokenParts, stored, clientBounds, renewed, unstored, overtaken>>

-----------------------------------------------------------------------------
(* Shiprocket and time *)

Revoke(t) ==
    /\ revoked < MaxRevoked /\ revoked' = revoked + 1
    /\ t \in accepted
    /\ accepted' = accepted \ {t}
    /\ renewed' = (renewed \/ (\E s \in ApiSends : send[s].reauthed \/ SendsAt(s, "reauth"))
                           \/ \E p \in Processes : inFlightLogin[p].token = t)
    /\ UNCHANGED <<unexpired, loginTokens, cached, stored, inFlightLogin, send, requests, faults,
                   unauthorised, unstored, overtaken>>

(* expiresAt is a day before Shiprocket's own limit. *)
RunOut(t) ==
    /\ revoked < MaxRevoked /\ revoked' = revoked + 1
    /\ t \in unexpired
    /\ unexpired' = unexpired \ {t}
    /\ UNCHANGED <<accepted, loginTokens, cached, stored, inFlightLogin, send, requests, faults,
                   clientHistory>>

(* The process starts again; what it had sent is not followed up. *)
Restart(p) ==
    /\ faults < MaxFaults /\ faults' = faults + 1
    /\ cached' = [cached EXCEPT ![p] = NoToken]
    /\ inFlightLogin' = [inFlightLogin EXCEPT ![p] = NoLogin]
    /\ send' = [s \in ApiSends |-> IF send[s].by = p THEN NotSending ELSE send[s]]
    /\ UNCHANGED <<tokenParts, stored, requests, revoked, clientHistory>>

ClientNext ==
    \/ \E s \in ApiSends :
          \/ \E p \in Processes : ApiRequest(s, p)
          \/ CachedToken(s) \/ ReadStored(s) \/ UseStored(s) \/ NothingStored(s)
          \/ Answered(s) \/ NotAnswered(s) \/ Unauthorised(s)
    \/ \E p \in Processes : LoginAnswered(p) \/ LoginStored(p) \/ LoginRefused(p) \/ Restart(p)
    \/ \E t \in Tokens : Revoke(t) \/ RunOut(t)

ClientSpec == ClientInit /\ [][ClientNext]_clientVars
-----------------------------------------------------------------------------
(* Properties *)

(* Tokens, logins and requests keep their types. *)
ClientTypeOK ==
    /\ accepted \subseteq Tokens /\ unexpired \subseteq Tokens /\ loginTokens \in Tokens
    /\ cached \in [Processes -> Tokens] /\ stored \in Tokens
    /\ inFlightLogin \in [Processes -> [at : LoginStage, token : Tokens]]
    /\ send \in [ApiSends -> Sending]

(* "Transparently re-authenticates once on a 401": a request gives up with a *)
(* 401 only if its new token ended as well, the row kept an old token, or a  *)
(* request used what it had read from the row before a login replaced it.    *)
ReauthSuffices == unauthorised => renewed \/ unstored \/ overtaken

(* Nobody waits for a login that is not under way.                           *)
WaitersAreServed ==
    \A p \in Processes : Waiting(p) # {} => inFlightLogin[p].at # "none"

(* A request, one that creates an order included, is sent at most            *)
(* MAX_RETRIES + 1 times, and once more after a 401.                         *)
AttemptsBounded == \A s \in ApiSends : send[s].attempt <= MAX_RETRIES + 2

(* Requests are neither left waiting nor given up for a token's sake, nor    *)
(* repeated without bound.                                                   *)
RequestsAreServed == ReauthSuffices /\ WaitersAreServed /\ AttemptsBounded
=============================================================================
