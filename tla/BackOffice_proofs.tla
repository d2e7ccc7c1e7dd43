------------------------- MODULE BackOffice_proofs -------------------------
(***************************************************************************)
(* Proofs about what goes on behind the shop: the client that keeps        *)
(* Shiprocket's token (ShiprocketClient), who may do what in the           *)
(* administration (StaffAccess), the images in storage (MediaLibrary), the *)
(* seed script on a shop in use (Seed), a product's saves and what follows *)
(* them (ProductAdmin), the editor of a product (ProductForm) and the page  *)
(* of one order (OrderDesk); for any number of processes, requests,        *)
(* people, forms, uploads, runs, saves and faults.                         *)
(***************************************************************************)
EXTENDS MCBackOffice, FiniteSetTheorems, SequenceTheorems, TLAPS

-----------------------------------------------------------------------------
(* The token of Shiprocket.                                                *)
(*                                                                         *)
(* Nothing happened that ReauthSuffices excuses.                           *)
Calm == ~renewed /\ ~unstored /\ ~overtaken

(* A login keeps its token in memory before it stores it, and the process  *)
(* has no other by then.                                                   *)
LoginsOK ==
    \A p \in Processes :
        /\ inFlightLogin[p].at # "store" => inFlightLogin[p].token = NoToken
        /\ Calm /\ inFlightLogin[p].at = "store" =>
              /\ inFlightLogin[p].token \in accepted
              /\ cached[p] \in {NoToken, inFlightLogin[p].token}

(* Once a request has logged in again, every token it can come by is good. *)
AgainOK ==
    Calm =>
        \A s \in ApiSends : send[s].reauthed =>
            /\ stored \in accepted
            /\ cached[send[s].by] \in accepted \cup {NoToken}
            /\ send[s].at = "fetch" => send[s].token \in accepted

(* A request logs in after a 401 once, and that turn is the only one that  *)
(* does not count.                                                         *)
TriesOK ==
    \A s \in ApiSends :
        /\ send[s].attempt <= MAX_RETRIES + 1 + (IF send[s].reauthed THEN 1 ELSE 0)
        /\ send[s].at = "reauth" => ~send[s].reauthed

ClientInv ==
    /\ ClientTypeOK /\ NoToken \notin unexpired \cup accepted /\ LoginsOK /\ AgainOK /\ TriesOK
    /\ WaitersAreServed /\ ReauthSuffices

LEMMA NotSendingTyped == ClientAssumption => NotSending \in Sending
  BY DEF ClientAssumption, NotSending, Sending, SendStage, Tokens, NoToken

LEMMA ClientStarts == ClientAssumption /\ ClientInit => ClientInv
<1> SUFFICES ASSUME ClientAssumption, ClientInit PROVE ClientInv
  OBVIOUS
<1>1. ClientTypeOK
  BY NotSendingTyped DEF ClientInit, ClientTypeOK, ClientAssumption, NoLogin, LoginStage, Tokens, NoToken
<1>2. \A s \in ApiSends : send[s].at = "idle" /\ send[s].attempt = 0 /\ ~send[s].reauthed
  BY DEF ClientInit, NotSending
<1> QED BY <1>1, <1>2
        DEF ClientInit, ClientInv, LoginsOK, NoLogin, NoToken, AgainOK, TriesOK, WaitersAreServed, Waiting,
            ReauthSuffices, ClientAssumption

(* The ways a request in flight is changed. *)
LEMMA SendingChanged ==
    ASSUME ClientAssumption, NEW d \in Sending, NEW a \in SendStage, NEW t \in Tokens, NEW r \in Tokens
    PROVE  /\ [d EXCEPT !.at = a] \in Sending /\ [d EXCEPT !.read = r] \in Sending
           /\ [d EXCEPT !.at = a, !.token = t] \in Sending
           /\ [d EXCEPT !.at = a, !.token = t, !.read = r] \in Sending
           /\ Repeated(d) \in Sending
           /\ AfterLogin([d EXCEPT !.token = t]) \in Sending
<1> USE DEF Sending
<1>1. [d EXCEPT !.at = a] \in Sending /\ [d EXCEPT !.read = r] \in Sending
  OBVIOUS
<1>2. [d EXCEPT !.at = a, !.token = t] \in Sending
  OBVIOUS
<1>3. [d EXCEPT !.at = a, !.token = t, !.read = r] \in Sending
  OBVIOUS
<1>4. Repeated(d) \in Sending
  <2>1. "token" \in SendStage /\ d.attempt + 1 \in Nat
    BY DEF SendStage
  <2>2. [d EXCEPT !.at = "token", !.attempt = d.attempt + 1] \in Sending
    BY <2>1
  <2> QED BY <2>2, NotSendingTyped DEF Repeated
<1>5. AfterLogin([d EXCEPT !.token = t]) \in Sending
  <2> DEFINE e == [d EXCEPT !.token = t]
  <2>1. e \in Sending
    OBVIOUS
  <2> HIDE DEF e
  <2>2. [e EXCEPT !.at = "fetch"] \in Sending
    BY <2>1 DEF SendStage
  <2>3. [e EXCEPT !.at = "token", !.reauthed = TRUE, !.attempt = @ + 1] \in Sending
    <3>1. "token" \in SendStage /\ e.attempt + 1 \in Nat
      BY <2>1 DEF SendStage
    <3>2. [e EXCEPT !.at = "token", !.reauthed = TRUE, !.attempt = e.attempt + 1] \in Sending
      BY <2>1, <3>1
    <3> QED BY <3>2
  <2>4. AfterLogin(e) \in Sending
    BY <2>2, <2>3 DEF AfterLogin
  <2> QED BY <2>4 DEF e
<1> QED BY <1>1, <1>2, <1>3, <1>4, <1>5

LEMMA ClientTyped ==
    ASSUME ClientAssumption, ClientTypeOK, ClientNext
    PROVE  ClientTypeOK'
<1> USE DEF ClientTypeOK, tokenParts, SendsAt
<1>0. NotSending \in Sending
  BY NotSendingTyped
<1>1. ASSUME NEW d \in Sending PROVE Repeated(d) \in Sending
  <2>1. NoToken \in Tokens /\ "token" \in SendStage
    BY DEF NoToken, Tokens, ClientAssumption, SendStage
  <2> QED BY <1>1, <2>1, SendingChanged
<1>2. ASSUME NEW p \in Processes, JoinLogin(p) PROVE inFlightLogin' \in [Processes -> [at : LoginStage, token : Tokens]]
  BY <1>2 DEF JoinLogin, LoginStage, Tokens, NoToken, ClientAssumption
<1>3. ASSUME NEW s \in ApiSends, NEW p \in Processes, ApiRequest(s, p) PROVE ClientTypeOK'
  BY <1>0, <1>3 DEF ApiRequest, Sending, SendStage
<1>4. ASSUME NEW s \in ApiSends, CachedToken(s) PROVE ClientTypeOK'
  <2> DEFINE own == cached[send[s].by]
             a == IF own \in unexpired THEN "fetch" ELSE "row"
             t == IF own \in unexpired THEN own ELSE NoToken
  <2>1. a \in SendStage /\ t \in Tokens /\ NoToken \in Tokens
    <3>1. NoToken \in Tokens /\ {"fetch", "row"} \subseteq SendStage
      BY DEF SendStage, NoToken, Tokens, ClientAssumption
    <3>2. unexpired \subseteq Tokens
      OBVIOUS
    <3> QED BY ONLY <3>1, <3>2
  <2>2. send' = [send EXCEPT ![s].at = a, ![s].token = t, ![s].read = NoToken]
    BY <1>4 DEF CachedToken
  <2> HIDE DEF a, t
  <2>3. [send[s] EXCEPT !.at = a, !.token = t, !.read = NoToken] \in Sending
    BY <2>1, SendingChanged
  <2>4. send' = [send EXCEPT ![s] = [send[s] EXCEPT !.at = a, !.token = t, !.read = NoToken]]
    BY <2>2
  <2>5. UNCHANGED <<accepted, unexpired, loginTokens, cached, stored, inFlightLogin>>
    BY <1>4 DEF CachedToken
  <2>6. send' \in [ApiSends -> Sending]
    BY <2>3, <2>4
  <2> QED BY <2>5, <2>6
<1>5. ASSUME NEW s \in ApiSends, ReadStored(s) \/ UseStored(s) PROVE ClientTypeOK'
  <2>1. [send[s] EXCEPT !.read = stored] \in Sending
    BY DEF Sending
  <2>2. [send[s] EXCEPT !.at = "fetch", !.token = send[s].read] \in Sending /\ send[s].read \in Tokens
    BY DEF Sending, SendStage
  <2> QED BY <1>5, <2>1, <2>2 DEF ReadStored, UseStored
<1>6. ASSUME NEW s \in ApiSends, NothingStored(s) PROVE ClientTypeOK'
  BY <1>2, <1>6 DEF NothingStored, Sending, SendStage
<1>7. ASSUME NEW s \in ApiSends, Answered(s) \/ NotAnswered(s) PROVE ClientTypeOK'
  BY <1>0, <1>1, <1>7 DEF Answered, NotAnswered
<1>8. ASSUME NEW s \in ApiSends, Unauthorised(s) PROVE ClientTypeOK'
  <2>1. /\ [send[s] EXCEPT !.at = "reauth"] \in Sending /\ send[s].by \in Processes
        /\ NoToken \in Tokens
    BY DEF Sending, SendStage, Tokens, NoToken, ClientAssumption
  <2>2. send' \in [ApiSends -> Sending]
    BY <1>0, <1>8, <2>1 DEF Unauthorised
  <2>3. cached' \in [Processes -> Tokens]
    BY <1>8, <2>1 DEF Unauthorised
  <2>4. inFlightLogin' \in [Processes -> [at : LoginStage, token : Tokens]]
    BY <1>2, <1>8, <2>1 DEF Unauthorised
  <2> QED BY <1>8, <2>2, <2>3, <2>4 DEF Unauthorised
<1>9. ASSUME NEW p \in Processes, LoginAnswered(p) PROVE ClientTypeOK'
  BY <1>9 DEF LoginAnswered, LoginStage, Tokens, ClientAssumption
<1>10. NoLogin \in [at : LoginStage, token : Tokens]
  BY DEF NoLogin, LoginStage, Tokens, NoToken, ClientAssumption
<1>11. ASSUME NEW p \in Processes, LoginStored(p) PROVE ClientTypeOK'
  <2>1. inFlightLogin[p].token \in Tokens
    OBVIOUS
  <2>2. ASSUME NEW d \in Sending, NEW t \in Tokens PROVE AfterLogin([d EXCEPT !.token = t]) \in Sending
    <3>1. "token" \in SendStage
      BY DEF SendStage
    <3> QED BY <2>2, <3>1, SendingChanged
  <2> QED BY <1>10, <1>11, <2>1, <2>2 DEF LoginStored
<1>12. ASSUME NEW p \in Processes, LoginRefused(p) PROVE ClientTypeOK'
  BY <1>0, <1>1, <1>10, <1>12 DEF LoginRefused
<1>13. ASSUME NEW p \in Processes, Restart(p) PROVE ClientTypeOK'
  BY <1>0, <1>10, <1>13 DEF Restart, Tokens, NoToken, ClientAssumption
<1>14. ASSUME NEW t \in Tokens, Revoke(t) \/ RunOut(t) PROVE ClientTypeOK'
  BY <1>14 DEF Revoke, RunOut
<1> QED BY <1>3, <1>4, <1>5, <1>6, <1>7, <1>8, <1>9, <1>11, <1>12, <1>13, <1>14 DEF ClientNext

(* What AgainOK and TriesOK ask of one request. *)
GoodAgain(d) ==
    Calm /\ d.reauthed =>
        /\ stored \in accepted
        /\ cached[d.by] \in accepted \cup {NoToken}
        /\ d.at = "fetch" => d.token \in accepted
GoodTries(d) ==
    /\ d.attempt <= MAX_RETRIES + 1 + (IF d.reauthed THEN 1 ELSE 0)
    /\ d.at = "reauth" => ~d.reauthed

LEMMA IdleIsGood == ClientAssumption => GoodAgain(NotSending) /\ GoodTries(NotSending)
  BY DEF GoodAgain, GoodTries, NotSending, ClientAssumption

LEMMA RepeatedIsGood ==
    ASSUME ClientAssumption, NEW d \in Sending
    PROVE  /\ GoodAgain(d) => GoodAgain(Repeated(d))
           /\ GoodTries(Repeated(d))
           /\ Repeated(d).at \notin {"login", "reauth"}
<1> DEFINE e == [d EXCEPT !.at = "token", !.attempt = d.attempt + 1]
<1>1. e.at = "token" /\ e.attempt = d.attempt + 1 /\ e.reauthed = d.reauthed /\ e.by = d.by
  BY DEF Sending
<1>2. CASE d.attempt <= MAX_RETRIES
  <2>1. Repeated(d) = e
    BY <1>2 DEF Repeated
  <2> HIDE DEF e
  <2>2. GoodAgain(d) => GoodAgain(e)
    BY <1>1 DEF GoodAgain
  <2>3. GoodTries(e)
    <3>1. d.attempt \in Nat /\ MAX_RETRIES \in Nat
      BY DEF Sending, ClientAssumption
    <3> QED BY <1>1, <1>2, <3>1 DEF GoodTries
  <2> QED BY <1>1, <2>1, <2>2, <2>3
<1>3. CASE ~(d.attempt <= MAX_RETRIES)
  BY <1>3, IdleIsGood DEF Repeated, NotSending
<1> QED BY <1>2, <1>3

(* A step of one request, which leaves the tokens and the logins alone. *)
LEMMA RequestStep ==
    ASSUME ClientAssumption, ClientInv, ClientTypeOK', NEW s \in ApiSends, NEW d \in Sending,
           send' = [send EXCEPT ![s] = d],
           UNCHANGED <<accepted, unexpired, loginTokens, stored, renewed, unstored>>,
           Calm' => Calm,
           UNCHANGED <<cached, inFlightLogin>>
               \/ \E p \in Processes :
                      /\ JoinLogin(p)
                      /\ cached' = cached \/ cached' = [cached EXCEPT ![p] = NoToken],
           d.at \in {"login", "reauth"} => inFlightLogin'[d.by].at # "none",
           Calm' => GoodAgain(d), GoodTries(d),
           unauthorised' => ~Calm' \/ unauthorised
    PROVE  ClientInv'
<1> USE DEF ClientInv, ClientTypeOK
<1>1. send'[s] = d /\ \A r \in ApiSends : r # s => send'[r] = send[r]
  OBVIOUS
<1>2. \A p \in Processes : cached'[p] \in {cached[p], NoToken}
  BY DEF JoinLogin
<1>3. \A p \in Processes : \/ inFlightLogin'[p] = inFlightLogin[p]
                           \/ /\ inFlightLogin[p].at = "none"
                              /\ inFlightLogin'[p] = [at |-> "call", token |-> NoToken]
  BY DEF JoinLogin
<1>4. LoginsOK'
  <2> SUFFICES ASSUME NEW p \in Processes
               PROVE  /\ inFlightLogin'[p].at # "store" => inFlightLogin'[p].token = NoToken
                      /\ Calm' /\ inFlightLogin'[p].at = "store" =>
                            /\ inFlightLogin'[p].token \in accepted
                            /\ cached'[p] \in {NoToken, inFlightLogin'[p].token}
    BY DEF LoginsOK
  <2>1. CASE inFlightLogin'[p] = inFlightLogin[p]
    BY <1>2, <2>1 DEF LoginsOK
  <2>2. CASE inFlightLogin'[p] = [at |-> "call", token |-> NoToken]
    BY <2>2
  <2> QED BY <1>3, <2>1, <2>2
<1>5. AgainOK'
  <2> SUFFICES ASSUME Calm', NEW r \in ApiSends, send'[r].reauthed
               PROVE  /\ stored \in accepted
                      /\ cached'[send'[r].by] \in accepted \cup {NoToken}
                      /\ send'[r].at = "fetch" => send'[r].token \in accepted
    BY DEF AgainOK
  <2>1. send'[r] \in Sending /\ send'[r].by \in Processes
    BY DEF Sending
  <2>2. GoodAgain(send'[r]) /\ Calm
    <3>1. CASE r = s
      BY <1>1, <3>1
    <3>2. CASE r # s
      BY <1>1, <3>2 DEF AgainOK, GoodAgain
    <3> QED BY <3>1, <3>2
  <2> QED BY <1>2, <2>1, <2>2 DEF GoodAgain
<1>6. TriesOK'
  BY <1>1 DEF TriesOK, GoodTries
<1>7. WaitersAreServed'
  <2> SUFFICES ASSUME NEW p \in Processes, NEW r \in ApiSends, send'[r].by = p,
                      send'[r].at \in {"login", "reauth"}
               PROVE  inFlightLogin'[p].at # "none"
    BY DEF WaitersAreServed, Waiting
  <2>1. CASE r = s
    BY <1>1, <2>1
  <2>2. CASE r # s
    <3>1. inFlightLogin[p].at # "none"
      BY <1>1, <2>2 DEF WaitersAreServed, Waiting
    <3> QED BY <1>3, <3>1
  <2> QED BY <2>1, <2>2
<1>8. ReauthSuffices'
  BY DEF ReauthSuffices, Calm
<1> QED BY <1>4, <1>5, <1>6, <1>7, <1>8

LEMMA RequestsKeep ==
    ASSUME ClientAssumption, ClientInv, ClientTypeOK', NEW s \in ApiSends,
           \/ \E p \in Processes : ApiRequest(s, p)
           \/ CachedToken(s) \/ ReadStored(s) \/ NothingStored(s)
           \/ Answered(s) \/ NotAnswered(s) \/ Unauthorised(s)
    PROVE  ClientInv'
<1> USE DEF tokenParts, clientHistory, clientBounds, SendsAt
<1>0. /\ send[s] \in Sending /\ send[s].by \in Processes /\ send \in [ApiSends -> Sending]
      /\ NotSending \in Sending
  BY NotSendingTyped DEF ClientInv, ClientTypeOK, Sending
<1>1. GoodAgain(send[s]) /\ GoodTries(send[s])
  BY DEF ClientInv, AgainOK, TriesOK, GoodAgain, GoodTries
<1>2. ASSUME NEW p \in Processes, ApiRequest(s, p) PROVE ClientInv'
  <2> DEFINE d == [NotSending EXCEPT !.at = "token", !.by = p, !.attempt = 1]
  <2>1. d.at = "token" /\ d.attempt = 1 /\ ~d.reauthed
    BY DEF NotSending
  <2>2. send' = [send EXCEPT ![s] = d] /\ d \in Sending
    BY <1>0, <1>2 DEF ApiRequest, Sending, SendStage
  <2> HIDE DEF d
  <2>3. GoodAgain(d) /\ GoodTries(d)
    BY <2>1 DEF GoodAgain, GoodTries, ClientAssumption
  <2> QED BY <1>2, <2>1, <2>2, <2>3, RequestStep DEF ApiRequest, Calm
<1>3. CASE CachedToken(s)
  <2>1. PICK own, a, t : /\ own = cached[send[s].by]
                         /\ a = (IF own \in unexpired THEN "fetch" ELSE "row")
                         /\ t = (IF own \in unexpired THEN own ELSE NoToken)
    OBVIOUS
  <2> DEFINE d == [send[s] EXCEPT !.at = a, !.token = t, !.read = NoToken]
  <2>2. send' = [send EXCEPT ![s] = d]
    BY <1>0, <1>3, <2>1 DEF CachedToken
  <2>3. /\ d.at = a /\ d.token = t /\ d.reauthed = send[s].reauthed /\ d.attempt = send[s].attempt
        /\ d.by = send[s].by
    BY <1>0 DEF Sending
  <2>4. d \in Sending
    <3>1. send'[s] \in Sending /\ send'[s] = d
      BY <1>0, <2>2 DEF ClientTypeOK
    <3> QED BY <3>1
  <2> HIDE DEF d
  <2>5. GoodAgain(d) /\ GoodTries(d)
    BY <1>1, <2>1, <2>3 DEF GoodAgain, GoodTries, ClientInv
  <2> QED BY <1>3, <2>1, <2>2, <2>3, <2>4, <2>5, RequestStep DEF CachedToken, Calm
<1>4. CASE ReadStored(s)
  <2> DEFINE d == [send[s] EXCEPT !.read = stored]
  <2>1. send' = [send EXCEPT ![s] = d]
    BY <1>4 DEF ReadStored
  <2>2. /\ d.at = "row" /\ d.reauthed = send[s].reauthed /\ d.attempt = send[s].attempt
        /\ d.by = send[s].by
    BY <1>0, <1>4 DEF Sending, ReadStored
  <2>3. d \in Sending
    <3>1. send'[s] \in Sending /\ send'[s] = d
      BY <1>0, <2>1 DEF ClientTypeOK
    <3> QED BY <3>1
  <2> HIDE DEF d
  <2>4. GoodAgain(d) /\ GoodTries(d)
    BY <1>1, <2>2 DEF GoodAgain, GoodTries
  <2> QED BY <1>4, <2>1, <2>2, <2>3, <2>4, RequestStep DEF ReadStored, Calm
<1>5. CASE NothingStored(s)
  <2> DEFINE d == [send[s] EXCEPT !.at = "login"]
  <2>1. send' = [send EXCEPT ![s] = d]
    BY <1>5 DEF NothingStored
  <2>2. /\ d.at = "login" /\ d.reauthed = send[s].reauthed /\ d.attempt = send[s].attempt
        /\ d.by = send[s].by
    BY <1>0 DEF Sending
  <2>3. d \in Sending
    <3>1. send'[s] \in Sending /\ send'[s] = d
      BY <1>0, <2>1 DEF ClientTypeOK
    <3> QED BY <3>1
  <2> HIDE DEF d
  <2>4. GoodAgain(d) /\ GoodTries(d)
    BY <1>1, <2>2 DEF GoodAgain, GoodTries
  <2>5. JoinLogin(d.by) /\ d.by \in Processes
    BY <1>0, <1>5, <2>2 DEF NothingStored
  <2>6. inFlightLogin'[d.by].at # "none"
    BY <2>5 DEF JoinLogin, ClientInv, ClientTypeOK
  <2> QED BY <1>5, <2>1, <2>3, <2>4, <2>5, <2>6, RequestStep DEF NothingStored, Calm
<1>6. CASE Answered(s)
  BY <1>0, <1>6, IdleIsGood, RequestStep DEF Answered, Calm, NotSending
<1>7. CASE NotAnswered(s)
  <2> DEFINE d == Repeated(send[s])
  <2>1. send' = [send EXCEPT ![s] = d]
    BY <1>7 DEF NotAnswered
  <2>2. GoodAgain(d) /\ GoodTries(d) /\ d.at \notin {"login", "reauth"}
    BY <1>0, <1>1, RepeatedIsGood
  <2> HIDE DEF d
  <2>3. d \in Sending
    <3>1. send'[s] \in Sending /\ send'[s] = d
      BY <1>0, <2>1 DEF ClientTypeOK
    <3> QED BY <3>1
  <2> QED BY <1>7, <2>1, <2>2, <2>3, RequestStep DEF NotAnswered, Calm
<1>8. CASE Unauthorised(s)
  <2>1. send[s].at = "fetch" /\ send[s].token \notin accepted
    BY <1>8 DEF Unauthorised
  <2>2. CASE send[s].reauthed
    <3>1. ~Calm
      BY <1>1, <2>1, <2>2 DEF GoodAgain
    <3>2. send' = [send EXCEPT ![s] = NotSending] /\ ~Calm'
      BY <1>8, <2>2, <3>1 DEF Unauthorised, Calm
    <3> QED BY <1>0, <1>8, <2>2, <3>1, <3>2, IdleIsGood, RequestStep DEF Unauthorised, NotSending
  <2>3. CASE ~send[s].reauthed
    <3> DEFINE d == [send[s] EXCEPT !.at = "reauth"]
    <3>1. send' = [send EXCEPT ![s] = d]
      BY <1>8, <2>3 DEF Unauthorised
    <3>2. /\ d.at = "reauth" /\ d.reauthed = send[s].reauthed /\ d.attempt = send[s].attempt
          /\ d.by = send[s].by
      BY <1>0 DEF Sending
    <3>3. d \in Sending
      <4>1. send'[s] \in Sending /\ send'[s] = d
        BY <1>0, <3>1 DEF ClientTypeOK
      <4> QED BY <4>1
    <3> HIDE DEF d
    <3>4. GoodAgain(d) /\ GoodTries(d)
      BY <1>1, <2>3, <3>2 DEF GoodAgain, GoodTries
    <3>5. JoinLogin(d.by) /\ d.by \in Processes
      BY <1>0, <1>8, <2>3, <3>2 DEF Unauthorised
    <3>6. inFlightLogin'[d.by].at # "none"
      BY <3>5 DEF JoinLogin, ClientInv, ClientTypeOK
    <3>7. cached' = [cached EXCEPT ![d.by] = NoToken]
      BY <1>8, <2>3, <3>2 DEF Unauthorised
    <3>8. /\ UNCHANGED <<accepted, unexpired, loginTokens, stored, renewed, unstored>>
          /\ UNCHANGED <<overtaken, unauthorised>>
      BY <1>8, <2>3 DEF Unauthorised
    <3>9. Calm' => Calm
      BY <3>8 DEF Calm
    <3> QED BY <3>1, <3>3, <3>4, <3>5, <3>6, <3>7, <3>8, <3>9, RequestStep
  <2> QED BY <2>2, <2>3
<1> QED BY <1>2, <1>3, <1>4, <1>5, <1>6, <1>7, <1>8

(* The row's token is put in the place of the process's own: when nothing    *)
(* was overtaken it is the row's still, and no login has another in hand.    *)
LEMMA UseStoredKeeps ==
    ASSUME ClientAssumption, ClientInv, ClientTypeOK', NEW s \in ApiSends, UseStored(s)
    PROVE  ClientInv'
<1> USE DEF tokenParts, clientBounds, SendsAt
<1>1. PICK p, t : p = send[s].by /\ t = send[s].read
  OBVIOUS
<1>2. /\ send \in [ApiSends -> Sending] /\ send[s] \in Sending /\ p \in Processes /\ t # NoToken
      /\ cached \in [Processes -> Tokens]
  BY <1>1 DEF ClientInv, ClientTypeOK, Sending, UseStored
<1>3. /\ cached' = [cached EXCEPT ![p] = t]
      /\ Calm' => Calm /\ t = stored /\ inFlightLogin[p].token \in {NoToken, t}
      /\ UNCHANGED <<accepted, unexpired, stored, inFlightLogin, renewed, unstored, unauthorised>>
  BY <1>1 DEF UseStored, Calm
<1>4. /\ \A r \in ApiSends : r # s => send'[r] = send[r]
      /\ send'[s] = [send[s] EXCEPT !.at = "fetch", !.token = t]
  BY <1>1, <1>2 DEF UseStored
<1>5. /\ send'[s].at = "fetch" /\ send'[s].token = t /\ send'[s].by = p
      /\ send'[s].reauthed = send[s].reauthed /\ send'[s].attempt = send[s].attempt
  BY <1>1, <1>2, <1>4 DEF Sending
<1>6. \A q \in Processes : cached'[q] = IF q = p THEN t ELSE cached[q]
  BY <1>2, <1>3
<1>7. LoginsOK'
  <2> SUFFICES ASSUME NEW q \in Processes
               PROVE  /\ inFlightLogin[q].at # "store" => inFlightLogin[q].token = NoToken
                      /\ Calm' /\ inFlightLogin[q].at = "store" =>
                            /\ inFlightLogin[q].token \in accepted
                            /\ cached'[q] \in {NoToken, inFlightLogin[q].token}
    BY <1>3 DEF LoginsOK
  <2>1. CASE q # p
    BY <1>3, <1>6, <2>1 DEF ClientInv, LoginsOK
  <2>2. CASE q = p
    <3> SUFFICES ASSUME Calm', inFlightLogin[p].at = "store"
                 PROVE  inFlightLogin[p].token \in accepted /\ t = inFlightLogin[p].token
      BY <1>6, <2>2 DEF ClientInv, LoginsOK
    <3>1. inFlightLogin[p].token \in accepted
      BY <1>2, <1>3 DEF ClientInv, LoginsOK
    <3>2. inFlightLogin[p].token # NoToken
      BY <3>1 DEF ClientInv
    <3> QED BY <1>3, <3>1, <3>2
  <2> QED BY <2>1, <2>2
<1>8. AgainOK'
  <2> SUFFICES ASSUME Calm', NEW r \in ApiSends, send'[r].reauthed
               PROVE  /\ stored \in accepted
                      /\ cached'[send'[r].by] \in accepted \cup {NoToken}
                      /\ send'[r].at = "fetch" => send'[r].token \in accepted
    BY <1>3 DEF AgainOK
  <2>1. send[r].reauthed /\ send'[r].by = send[r].by /\ send[r].by \in Processes
    BY <1>1, <1>4, <1>5 DEF ClientInv, ClientTypeOK, Sending
  <2>2. /\ stored \in accepted /\ cached[send[r].by] \in accepted \cup {NoToken}
        /\ send[r].at = "fetch" => send[r].token \in accepted
    BY <1>3, <2>1 DEF ClientInv, AgainOK
  <2> QED BY <1>3, <1>4, <1>5, <1>6, <2>1, <2>2
<1>9. TriesOK'
  BY <1>4, <1>5 DEF ClientInv, TriesOK
<1>10. WaitersAreServed'
  BY <1>3, <1>4, <1>5 DEF ClientInv, WaitersAreServed, Waiting
<1>11. ReauthSuffices'
  BY <1>3 DEF ClientInv, ReauthSuffices, Calm, UseStored
<1> QED BY <1>3, <1>7, <1>8, <1>9, <1>10, <1>11 DEF ClientInv

LEMMA LoginAnsweredKeeps ==
    ASSUME ClientAssumption, ClientInv, ClientTypeOK', NEW p \in Processes, LoginAnswered(p)
    PROVE  ClientInv'
<1>1. PICK n : n = loginTokens + 1
  OBVIOUS
<1>2. n # NoToken /\ n \notin {0}
  BY <1>1 DEF ClientInv, ClientTypeOK, Tokens, NoToken, ClientAssumption
<1>3. /\ accepted' = accepted \cup {n} /\ unexpired' = unexpired \cup {n}
      /\ cached' = [cached EXCEPT ![p] = n]
      /\ inFlightLogin' = [inFlightLogin EXCEPT ![p] = [at |-> "store", token |-> n]]
      /\ UNCHANGED <<stored, send, unauthorised, renewed, unstored, overtaken>>
      /\ Calm' = Calm
  BY <1>1 DEF LoginAnswered, clientHistory, Calm
<1>4. /\ inFlightLogin'[p] = [at |-> "store", token |-> n] /\ cached'[p] = n
      /\ \A q \in Processes : q # p => inFlightLogin'[q] = inFlightLogin[q] /\ cached'[q] = cached[q]
  BY <1>3 DEF ClientInv, ClientTypeOK
<1>5. LoginsOK'
  <2> SUFFICES ASSUME NEW q \in Processes
               PROVE  /\ inFlightLogin'[q].at # "store" => inFlightLogin'[q].token = NoToken
                      /\ Calm /\ inFlightLogin'[q].at = "store" =>
                            /\ inFlightLogin'[q].token \in accepted'
                            /\ cached'[q] \in {NoToken, inFlightLogin'[q].token}
    BY <1>3 DEF LoginsOK
  <2>1. CASE q = p
    BY <1>3, <1>4, <2>1
  <2>2. CASE q # p
    BY <1>3, <1>4, <2>2 DEF ClientInv, LoginsOK
  <2> QED BY <2>1, <2>2
<1>6. AgainOK'
  <2> SUFFICES ASSUME Calm, NEW r \in ApiSends, send[r].reauthed
               PROVE  /\ stored \in accepted'
                      /\ cached'[send[r].by] \in accepted' \cup {NoToken}
                      /\ send[r].at = "fetch" => send[r].token \in accepted'
    BY <1>3 DEF AgainOK
  <2>1. send[r].by \in Processes
    BY DEF ClientInv, ClientTypeOK, Sending
  <2> QED BY <1>3, <1>4, <2>1 DEF ClientInv, AgainOK
<1>7. WaitersAreServed'
  BY <1>3, <1>4 DEF ClientInv, WaitersAreServed, Waiting
<1> QED BY <1>2, <1>3, <1>5, <1>6, <1>7 DEF ClientInv, TriesOK, ReauthSuffices

LEMMA LoginStoredKeeps ==
    ASSUME ClientAssumption, ClientInv, ClientTypeOK', NEW p \in Processes, LoginStored(p)
    PROVE  ClientInv'
<1>1. PICK t : t = inFlightLogin[p].token
  OBVIOUS
<1>2. /\ UNCHANGED <<accepted, unexpired, cached, unauthorised, renewed, overtaken>>
      /\ \/ stored' = t /\ unstored' = unstored
         \/ stored' = stored /\ unstored' = TRUE
      /\ inFlightLogin[p].at = "store"
      /\ inFlightLogin' = [inFlightLogin EXCEPT ![p] = NoLogin]
  BY <1>1 DEF LoginStored, tokenParts
<1>3. /\ \A q \in Processes : q # p => inFlightLogin'[q] = inFlightLogin[q]
      /\ inFlightLogin'[p] = [at |-> "none", token |-> NoToken]
  BY <1>2 DEF ClientInv, ClientTypeOK, NoLogin
<1>4. Calm' => Calm /\ stored' = t /\ t \in accepted /\ cached[p] \in {NoToken, t}
  BY <1>1, <1>2 DEF Calm, ClientInv, LoginsOK
<1>5. ASSUME NEW r \in ApiSends
      PROVE  /\ send[r] \in Sending /\ send[r].by \in Processes
             /\ \/ r \notin Waiting(p) /\ send'[r] = send[r]
                \/ /\ send[r].at = "login" /\ send[r].by = p /\ send'[r].by = p /\ send'[r].at = "fetch"
                   /\ send'[r].token = t /\ send'[r].reauthed = send[r].reauthed
                   /\ send'[r].attempt = send[r].attempt
                \/ /\ send[r].at = "reauth" /\ send[r].by = p /\ send'[r].by = p /\ send'[r].at = "token"
                   /\ send'[r].reauthed /\ send'[r].attempt = send[r].attempt + 1
  <2>1. send[r] \in Sending /\ send[r].by \in Processes
    BY DEF ClientInv, ClientTypeOK, Sending
  <2>2. send'[r] = IF r \in Waiting(p) THEN AfterLogin([send[r] EXCEPT !.token = t]) ELSE send[r]
    BY <1>1 DEF LoginStored
  <2>3. CASE r \notin Waiting(p)
    BY <2>1, <2>2, <2>3
  <2>4. CASE r \in Waiting(p)
    <3> DEFINE e == [send[r] EXCEPT !.token = t]
    <3>1. /\ e.at = send[r].at /\ e.by = send[r].by /\ e.token = t /\ e.attempt = send[r].attempt
          /\ e.reauthed = send[r].reauthed
          /\ DOMAIN e = {"at", "by", "token", "read", "attempt", "reauthed"}
      BY <2>1 DEF Sending
    <3>2. send'[r] = AfterLogin(e)
      BY <2>2, <2>4
    <3> HIDE DEF e
    <3>3. CASE send[r].at = "login"
      <4>1. send'[r] = [e EXCEPT !.at = "fetch"]
        BY <3>1, <3>2, <3>3 DEF AfterLogin
      <4> QED BY <2>1, <2>4, <3>1, <3>3, <4>1 DEF Waiting
    <3>4. CASE send[r].at = "reauth"
      <4>1. send'[r] = [e EXCEPT !.at = "token", !.reauthed = TRUE, !.attempt = @ + 1]
        BY <3>1, <3>2, <3>4 DEF AfterLogin
      <4> QED BY <2>1, <2>4, <3>1, <3>4, <4>1 DEF Waiting
    <3> QED BY <2>4, <3>3, <3>4 DEF Waiting
  <2> QED BY <2>3, <2>4
<1>6. LoginsOK'
  <2> SUFFICES ASSUME NEW q \in Processes
               PROVE  /\ inFlightLogin'[q].at # "store" => inFlightLogin'[q].token = NoToken
                      /\ Calm' /\ inFlightLogin'[q].at = "store" =>
                            /\ inFlightLogin'[q].token \in accepted
                            /\ cached[q] \in {NoToken, inFlightLogin'[q].token}
    BY <1>2 DEF LoginsOK
  <2>1. CASE q = p
    BY <1>3, <2>1
  <2>2. CASE q # p
    BY <1>3, <1>4, <2>2 DEF ClientInv, LoginsOK
  <2> QED BY <2>1, <2>2
<1>7. AgainOK'
  <2> SUFFICES ASSUME Calm', NEW r \in ApiSends, send'[r].reauthed
               PROVE  /\ stored' \in accepted
                      /\ cached[send'[r].by] \in accepted \cup {NoToken}
                      /\ send'[r].at = "fetch" => send'[r].token \in accepted
    BY <1>2 DEF AgainOK
  <2>1. CASE send[r].reauthed
    <3>1. /\ cached[send[r].by] \in accepted \cup {NoToken} /\ send'[r].by = send[r].by
          /\ send[r].at = "fetch" => send[r].token \in accepted
      BY <1>4, <1>5, <2>1 DEF ClientInv, AgainOK
    <3> QED BY <1>4, <1>5, <3>1
  <2>2. CASE ~send[r].reauthed
    BY <1>4, <1>5, <2>2
  <2> QED BY <2>1, <2>2
<1>8. TriesOK'
  <2> SUFFICES ASSUME NEW r \in ApiSends
               PROVE  /\ send'[r].attempt <= MAX_RETRIES + 1 + (IF send'[r].reauthed THEN 1 ELSE 0)
                      /\ send'[r].at = "reauth" => ~send'[r].reauthed
    BY DEF TriesOK
  <2>1. /\ send[r].attempt <= MAX_RETRIES + 1 + (IF send[r].reauthed THEN 1 ELSE 0)
        /\ send[r].at = "reauth" => ~send[r].reauthed
    BY DEF ClientInv, TriesOK
  <2>2. send[r].attempt \in Nat /\ MAX_RETRIES \in Nat
    BY <1>5 DEF Sending, ClientAssumption
  <2> QED BY <1>5, <2>1, <2>2
<1>9. WaitersAreServed'
  <2> SUFFICES ASSUME NEW q \in Processes, NEW r \in ApiSends, send'[r].by = q,
                      send'[r].at \in {"login", "reauth"}
               PROVE  inFlightLogin'[q].at # "none"
    BY DEF WaitersAreServed, Waiting
  <2>1. r \notin Waiting(p) /\ send'[r] = send[r]
    BY <1>5
  <2>2. q # p
    BY <2>1 DEF Waiting
  <2>3. inFlightLogin[q].at # "none"
    BY <2>1 DEF ClientInv, WaitersAreServed, Waiting
  <2> QED BY <1>3, <2>2, <2>3
<1>10. ReauthSuffices'
  BY <1>2, <1>4 DEF ClientInv, ReauthSuffices, Calm
<1> QED BY <1>2, <1>6, <1>7, <1>8, <1>9, <1>10 DEF ClientInv

(* A login that is refused, and a process that starts again: the requests    *)
(* that waited, or that were the process's, go on without a token.           *)
LEMMA LoginEndsKeeps ==
    ASSUME ClientAssumption, ClientInv, ClientTypeOK', NEW p \in Processes,
           LoginRefused(p) \/ Restart(p)
    PROVE  ClientInv'
<1>1. /\ UNCHANGED <<accepted, unexpired, stored, unauthorised, renewed, unstored, overtaken>>
      /\ inFlightLogin' = [inFlightLogin EXCEPT ![p] = NoLogin]
      /\ cached' = cached \/ cached' = [cached EXCEPT ![p] = NoToken]
      /\ Calm' = Calm
  BY DEF LoginRefused, Restart, tokenParts, clientHistory, Calm
<1>2. /\ \A q \in Processes : q # p => inFlightLogin'[q] = inFlightLogin[q]
      /\ inFlightLogin'[p] = [at |-> "none", token |-> NoToken]
      /\ \A q \in Processes : cached'[q] \in {cached[q], NoToken}
  BY <1>1 DEF ClientInv, ClientTypeOK, NoLogin
<1>3. ASSUME NEW r \in ApiSends
      PROVE  /\ send[r] \in Sending /\ send'[r] \in Sending
             /\ \/ r \notin Waiting(p) /\ send'[r] = send[r]
                \/ GoodAgain(send'[r]) /\ GoodTries(send'[r]) /\ send'[r].at \notin {"login", "reauth"}
  <2>1. /\ send[r] \in Sending /\ send'[r] \in Sending
    BY DEF ClientInv, ClientTypeOK
  <2>2. GoodAgain(send[r])
    BY DEF ClientInv, AgainOK, GoodAgain
  <2>3. \/ r \notin Waiting(p) /\ send'[r] = send[r]
        \/ send'[r] = Repeated(send[r])
        \/ send'[r] = NotSending
    BY DEF LoginRefused, Restart, Waiting
  <2>4. NotSending.at = "idle"
    BY DEF NotSending
  <2> QED BY <2>1, <2>2, <2>3, <2>4, IdleIsGood, RepeatedIsGood
<1>4. LoginsOK'
  <2> SUFFICES ASSUME NEW q \in Processes
               PROVE  /\ inFlightLogin'[q].at # "store" => inFlightLogin'[q].token = NoToken
                      /\ Calm /\ inFlightLogin'[q].at = "store" =>
                            /\ inFlightLogin'[q].token \in accepted
                            /\ cached'[q] \in {NoToken, inFlightLogin'[q].token}
    BY <1>1 DEF LoginsOK
  <2>1. CASE q = p
    BY <1>2, <2>1
  <2>2. CASE q # p
    BY <1>2, <2>2 DEF ClientInv, LoginsOK
  <2> QED BY <2>1, <2>2
<1>5. AgainOK'
  <2> SUFFICES ASSUME Calm, NEW r \in ApiSends, send'[r].reauthed
               PROVE  /\ stored \in accepted
                      /\ cached'[send'[r].by] \in accepted \cup {NoToken}
                      /\ send'[r].at = "fetch" => send'[r].token \in accepted
    BY <1>1 DEF AgainOK
  <2>1. send'[r].by \in Processes
    BY <1>3 DEF Sending
  <2>2. /\ stored \in accepted /\ cached[send'[r].by] \in accepted \cup {NoToken}
        /\ send'[r].at = "fetch" => send'[r].token \in accepted
    BY <1>3 DEF ClientInv, AgainOK, GoodAgain
  <2> QED BY <1>2, <2>1, <2>2
<1>6. TriesOK'
  BY <1>3 DEF ClientInv, TriesOK, GoodTries
<1>7. WaitersAreServed'
  <2> SUFFICES ASSUME NEW q \in Processes, NEW r \in ApiSends, send'[r].by = q,
                      send'[r].at \in {"login", "reauth"}
               PROVE  inFlightLogin'[q].at # "none"
    BY DEF WaitersAreServed, Waiting
  <2>1. r \notin Waiting(p) /\ send'[r] = send[r]
    BY <1>3
  <2>2. q # p
    BY <2>1 DEF Waiting
  <2>3. inFlightLogin[q].at # "none"
    BY <2>1 DEF ClientInv, WaitersAreServed, Waiting
  <2> QED BY <1>2, <2>2, <2>3
<1> QED BY <1>1, <1>4, <1>5, <1>6, <1>7 DEF ClientInv, ReauthSuffices

(* A token that ends after somebody logged in for want of another, or while  *)
(* it is issued, is not calm; any other is nobody's last.                    *)
LEMMA TokenEndsKeeps ==
    ASSUME ClientAssumption, ClientInv, ClientTypeOK', NEW t \in Tokens, Revoke(t) \/ RunOut(t)
    PROVE  ClientInv'
<1>1. /\ UNCHANGED <<cached, stored, inFlightLogin, send, unauthorised, unstored, overtaken>>
      /\ accepted' \subseteq accepted /\ unexpired' \subseteq unexpired
      /\ renewed => renewed'
      /\ Calm' => Calm
  <2>1. /\ UNCHANGED <<cached, stored, inFlightLogin, send, unauthorised, unstored, overtaken>>
        /\ accepted' \subseteq accepted /\ unexpired' \subseteq unexpired
    BY DEF Revoke, RunOut, clientHistory
  <2>2. renewed => renewed'
    <3>1. CASE Revoke(t)
      <4>1. renewed' = (renewed \/ (\E s \in ApiSends : send[s].reauthed \/ SendsAt(s, "reauth"))
                                \/ \E p \in Processes : inFlightLogin[p].token = t)
        BY <3>1 DEF Revoke
      <4> QED BY <4>1, Zenon
    <3>2. CASE RunOut(t)
      BY <3>2 DEF RunOut, clientHistory
    <3> QED BY <3>1, <3>2
  <2> QED BY <2>1, <2>2, Zenon DEF Calm
<1>2. ASSUME Calm', accepted' # accepted
      PROVE  /\ accepted' = accepted \ {t}
             /\ \A s \in ApiSends : ~send[s].reauthed
             /\ \A p \in Processes : inFlightLogin[p].token # t
  <2>1. Revoke(t) /\ ~renewed'
    BY <1>2 DEF RunOut, Calm
  <2>2. /\ accepted' = accepted \ {t}
        /\ renewed' = (renewed \/ (\E s \in ApiSends : send[s].reauthed \/ SendsAt(s, "reauth"))
                               \/ \E p \in Processes : inFlightLogin[p].token = t)
    BY <2>1 DEF Revoke
  <2>3. ~(\E s \in ApiSends : send[s].reauthed \/ SendsAt(s, "reauth"))
        /\ ~\E p \in Processes : inFlightLogin[p].token = t
    BY <2>1, <2>2, Zenon
  <2> QED BY <2>2, <2>3
<1>3. LoginsOK'
  BY <1>1, <1>2 DEF ClientInv, LoginsOK
<1>4. AgainOK'
  BY <1>1, <1>2 DEF ClientInv, AgainOK
<1> QED BY <1>1, <1>3, <1>4 DEF ClientInv, TriesOK, WaitersAreServed, Waiting, ReauthSuffices

LEMMA ClientSteps == ClientAssumption /\ ClientInv /\ [ClientNext]_clientVars => ClientInv'
<1> SUFFICES ASSUME ClientAssumption, ClientInv, [ClientNext]_clientVars PROVE ClientInv'
  OBVIOUS
<1>1. CASE ClientNext
  <2>1. ClientTypeOK'
    BY <1>1, ClientTyped DEF ClientInv
  <2>2. ASSUME NEW s \in ApiSends,
               \/ \E p \in Processes : ApiRequest(s, p)
               \/ CachedToken(s) \/ ReadStored(s) \/ UseStored(s) \/ NothingStored(s)
               \/ Answered(s) \/ NotAnswered(s) \/ Unauthorised(s)
        PROVE  ClientInv'
    BY <2>1, <2>2, RequestsKeep, UseStoredKeeps
  <2>3. ASSUME NEW p \in Processes,
               LoginAnswered(p) \/ LoginStored(p) \/ LoginRefused(p) \/ Restart(p)
        PROVE  ClientInv'
    BY <2>1, <2>3, LoginAnsweredKeeps, LoginStoredKeeps, LoginEndsKeeps
  <2>4. ASSUME NEW t \in Tokens, Revoke(t) \/ RunOut(t) PROVE ClientInv'
    BY <2>1, <2>4, TokenEndsKeeps
  <2> QED BY <1>1, <2>2, <2>3, <2>4 DEF ClientNext
<1>2. CASE UNCHANGED clientVars
  BY <1>2 DEF clientVars, ClientInv, ClientTypeOK, LoginsOK, AgainOK, TriesOK, WaitersAreServed,
              Waiting, ReauthSuffices, Calm
<1> QED BY <1>1, <1>2

(* shiprocket.service: a request is given up for a 401 only when its new     *)
(* token ended too, was not stored, or lost to an older one; nobody waits    *)
(* for a login that is not under way; and nothing is sent more than          *)
(* MAX_RETRIES + 1 times, and once more after a 401.                         *)
THEOREM ClientServes == ClientSpec => []RequestsAreServed
<1> USE ClientAssumption
<1>1. ClientInv => RequestsAreServed
  <2> SUFFICES ASSUME ClientInv, NEW s \in ApiSends PROVE send[s].attempt <= MAX_RETRIES + 2
    BY DEF ClientInv, RequestsAreServed, AttemptsBounded
  <2>1. send[s].attempt \in Nat /\ MAX_RETRIES \in Nat
    BY DEF ClientInv, ClientTypeOK, Sending, ClientAssumption
  <2> QED BY <2>1 DEF ClientInv, TriesOK
<1> QED BY <1>1, ClientStarts, ClientSteps, PTL DEF ClientSpec

-----------------------------------------------------------------------------
(* The administration.  What a request carries, wherever it is.             *)

Fetch == [n : 1 .. sent, tab : Tabs \cup {NoTab}, kind : {"login", "confirm", "shell", "save"},
          who : People \cup {Nobody}, key : 0 .. sent, end : Endpoints \cup {NoEndpoint},
          at : {"guard", "handle", "answer"},
          answer : {"none", "ok", "refused", "401", "403", "error", "staff", "customer"},
          forbidden : BOOLEAN]

(* Of whom it is, and what was found of its account and still is so.        *)
ReqMeant(c) ==
    /\ c.key # 0 \/ c.kind = "login" => c.who \in People
    /\ c.kind = "save" => c.end \in Endpoints
    /\ c.forbidden => c.who \in People /\ MayNot(c.who, c.end.needs)
    /\ c.at = "handle" => c.kind = "save" /\ c.who \in Staff /\ ~c.forbidden
    /\ c.at = "answer" /\ c.answer = "staff" => c.who \in Staff

Asked(t) == \E c \in fetches : c.tab = t /\ c.kind = "shell"

AccessInv ==
    /\ AccessTypeOK /\ sent \in Nat /\ fetches \subseteq Fetch
    /\ token.n # 0 => token.who \in People
    /\ \A a \in People \ Staff : held[a] = {}
    /\ \A c \in fetches : ReqMeant(c)
    /\ AccessIsHeld

LEMMA AccessStarts == AccessInit => AccessInv
<1> SUFFICES ASSUME AccessInit PROVE AccessInv
  OBVIOUS
<1> USE AccessAssumption DEF AccessAssumption
<1>1. sent \in Nat /\ token \in [who : People \cup {Nobody}, n : 0 .. sent]
  BY DEF AccessInit, NoKey
<1>2. AccessTypeOK
  BY <1>1 DEF AccessInit, AccessTypeOK
<1>3. AccessIsHeld
  BY DEF AccessInit, AccessIsHeld
<1> QED BY <1>1, <1>2, <1>3 DEF AccessInit, AccessInv, NoKey

(* A step of a tab, or of the guards: accounts and the log stay as they are. *)
LEMMA TabStep ==
    ASSUME AccessAssumption, AccessInv, sent' \in Nat, sent <= sent',
           token' \in [who : People \cup {Nobody}, n : 0 .. sent'], token'.n # 0 => token'.who \in People,
           page' \in [Tabs -> {"login", "loading", "dashboard"}], me' \in [Tabs -> People \cup {Nobody}],
           fetches' \subseteq Fetch', \A c \in fetches' : ReqMeant(c),
           \A t \in Tabs : /\ page'[t] = "dashboard" => me'[t] \in Staff
                           /\ page'[t] = "loading" => Asked(t)',
           UNCHANGED apiSide
    PROVE  AccessInv'
<1>1. /\ UNCHANGED <<banned, held, auditQueue, auditLog, lostAudits, carriedOut>>
      /\ \A c : ReqMeant(c)' <=> ReqMeant(c)
  BY DEF apiSide, ReqMeant, MayNot
<1>2. AccessIsHeld'
  BY <1>1 DEF AccessInv, AccessIsHeld, Entry, Asked
<1>3. 1 .. sent \subseteq 1 .. sent'
  BY DEF AccessInv
<1>4. \A c \in fetches' : c.n \in 1 .. sent' /\ c.at \in {"guard", "handle", "answer"}
  BY DEF Fetch
<1>5. auditQueue' \cup auditLog' \cup lostAudits' \subseteq [n : 1 .. sent', actor : People]
  BY <1>1, <1>3 DEF AccessInv, AccessTypeOK
<1>6. AccessTypeOK'
  BY <1>1, <1>4, <1>5 DEF AccessInv, AccessTypeOK
<1> QED BY <1>1, <1>2, <1>6 DEF AccessInv

LEMMA FetchGrows ==
    ASSUME sent \in Nat, sent' \in Nat, sent <= sent', NEW c \in Fetch
    PROVE  c \in Fetch'
<1>1. 1 .. sent \subseteq 1 .. sent' /\ 0 .. sent \subseteq 0 .. sent'
  OBVIOUS
<1> QED BY <1>1 DEF Fetch

(* What a request is when it is sent. *)
LEMMA RequestMeans ==
    ASSUME AccessAssumption, AccessInv, NEW t \in Tabs, NEW kind \in {"login", "confirm", "shell", "save"},
           NEW who \in People \cup {Nobody}, NEW key \in 0 .. sent, NEW end \in Endpoints \cup {NoEndpoint},
           key # 0 \/ kind = "login" => who \in People, kind = "save" => end \in Endpoints,
           sent' = sent + 1
    PROVE  LET r == Request(t, kind, who, key, end)
           IN  r \in Fetch' /\ ReqMeant(r) /\ r.tab = t /\ r.kind = kind
<1>1. sent + 1 \in 1 .. sent' /\ key \in 0 .. sent'
  BY DEF AccessInv
<1>2. Request(t, kind, who, key, end) \in Fetch'
  BY <1>1 DEF Fetch, Request
<1>3. ReqMeant(Request(t, kind, who, key, end))
  BY DEF ReqMeant, Request
<1> QED BY <1>2, <1>3 DEF Request

(* A tab's request is left with what is asked, or with nobody to hear it.    *)
ReqUnheard(c) == [c EXCEPT !.tab = NoTab]
LEMMA UnheardIs ==
    ASSUME AccessInv, NEW c \in fetches
    PROVE  /\ ReqUnheard(c) \in Fetch /\ ReqMeant(ReqUnheard(c))
           /\ ReqUnheard(c).tab = NoTab /\ ReqUnheard(c).kind = c.kind
  BY DEF AccessInv, Fetch, ReqUnheard, ReqMeant

LEMMA AbandonedIs ==
    ASSUME AccessAssumption, AccessInv, NEW t \in Tabs
    PROVE  /\ Abandoned(t) \subseteq Fetch /\ \A c \in Abandoned(t) : ReqMeant(c)
           /\ \A s \in Tabs \ {t} : Asked(s) => \E c \in Abandoned(t) : c.tab = s /\ c.kind = "shell"
<1>1. ASSUME NEW c \in Abandoned(t)
      PROVE  c \in Fetch /\ ReqMeant(c)
  <2>1. PICK d \in fetches : c = IF d.tab = t THEN ReqUnheard(d) ELSE d
    BY DEF Abandoned, ReqUnheard
  <2> QED BY <2>1, UnheardIs DEF AccessInv
<1>2. ASSUME NEW s \in Tabs \ {t}, Asked(s)
      PROVE  \E c \in Abandoned(t) : c.tab = s /\ c.kind = "shell"
  BY <1>2 DEF Abandoned, Asked
<1> QED BY <1>1, <1>2

(* The Shell is mounted in a tab, among requests that keep what they were.   *)
LEMMA MountStep ==
    ASSUME AccessAssumption, AccessInv, NEW t \in Tabs, NEW others, Mounts(t, others), UNCHANGED token,
           others \subseteq Fetch, \A c \in others : ReqMeant(c),
           \A s \in Tabs \ {t} : Asked(s) => \E c \in others : c.tab = s /\ c.kind = "shell",
           UNCHANGED apiSide
    PROVE  AccessInv'
<1>0. /\ sent \in Nat /\ token.n \in 0 .. sent /\ token.who \in People \cup {Nobody}
      /\ page \in [Tabs -> {"login", "loading", "dashboard"}] /\ me \in [Tabs -> People \cup {Nobody}]
      /\ token.n # 0 => token.who \in People
      /\ \A s \in Tabs : /\ page[s] = "dashboard" => me[s] \in Staff
                         /\ page[s] = "loading" => Asked(s)
  BY DEF AccessInv, AccessTypeOK, AccessIsHeld, Asked
<1>1. CASE token.n = 0
  <2>1. /\ sent' = sent /\ fetches' = others
        /\ page' = [page EXCEPT ![t] = "login"] /\ me' = [me EXCEPT ![t] = Nobody]
    BY <1>1 DEF Mounts, ShowPage
  <2>2. fetches' \subseteq Fetch'
    BY <1>0, <2>1, FetchGrows
  <2>3. \A s \in Tabs : /\ page'[s] = "dashboard" => me'[s] \in Staff
                        /\ page'[s] = "loading" => Asked(s)'
    BY <1>0, <2>1 DEF Asked
  <2>4. token' \in [who : People \cup {Nobody}, n : 0 .. sent']
    BY <2>1 DEF AccessInv, AccessTypeOK
  <2>5. sent' \in Nat /\ sent <= sent'
    BY <1>0, <2>1
  <2> QED BY <1>0, <2>1, <2>2, <2>3, <2>4, <2>5, TabStep
<1>2. CASE token.n # 0
  <2> DEFINE r == Request(t, "shell", token.who, token.n, NoEndpoint)
  <2>1. /\ sent' = sent + 1 /\ fetches' = others \cup {r}
        /\ page' = [page EXCEPT ![t] = "loading"] /\ me' = [me EXCEPT ![t] = Nobody]
    BY <1>2 DEF Mounts, ShowPage, apiFetch
  <2>2. r \in Fetch' /\ ReqMeant(r) /\ r.tab = t /\ r.kind = "shell"
    BY <1>0, <2>1, RequestMeans
  <2> HIDE DEF r
  <2>3. sent' \in Nat /\ sent <= sent'
    BY <1>0, <2>1
  <2>4. fetches' \subseteq Fetch'
    BY <1>0, <2>1, <2>2, <2>3, FetchGrows
  <2>5. \A s \in Tabs : /\ page'[s] = "dashboard" => me'[s] \in Staff
                        /\ page'[s] = "loading" => Asked(s)'
    BY <1>0, <2>1, <2>2 DEF Asked
  <2>6. token' \in [who : People \cup {Nobody}, n : 0 .. sent']
    BY <1>0, <2>3 DEF AccessInv, AccessTypeOK
  <2>7. \A c \in fetches' : ReqMeant(c)
    BY <2>1, <2>2
  <2> QED BY <1>0, <2>1, <2>3, <2>4, <2>5, <2>6, <2>7, TabStep
<1> QED BY <1>1, <1>2

(* A tab is sent away from the dashboard, without a token. *)
LEMMA AwayStep ==
    ASSUME AccessAssumption, AccessInv, NEW t \in Tabs, token' = NoKey, ShowPage(t, "login", Nobody),
           fetches' \subseteq Fetch, \A c \in fetches' : ReqMeant(c),
           \A s \in Tabs \ {t} : Asked(s) => Asked(s)',
           UNCHANGED <<apiSide, sent>>
    PROVE  AccessInv'
<1>1. /\ sent \in Nat /\ sent' = sent
      /\ page \in [Tabs -> {"login", "loading", "dashboard"}] /\ me \in [Tabs -> People \cup {Nobody}]
      /\ \A s \in Tabs : /\ page[s] = "dashboard" => me[s] \in Staff
                         /\ page[s] = "loading" => Asked(s)
  BY DEF AccessInv, AccessTypeOK, AccessIsHeld, Asked
<1>2. fetches' \subseteq Fetch'
  BY <1>1, FetchGrows
<1>3. token' \in [who : People \cup {Nobody}, n : 0 .. sent'] /\ token'.n = 0
  BY <1>1 DEF NoKey
<1>4. /\ page' = [page EXCEPT ![t] = "login"] /\ me' = [me EXCEPT ![t] = Nobody]
  BY DEF ShowPage
<1>5. \A s \in Tabs : /\ page'[s] = "dashboard" => me'[s] \in Staff
                      /\ page'[s] = "loading" => Asked(s)'
  BY <1>1, <1>4
<1>6. sent <= sent'
  BY <1>1
<1> QED BY <1>1, <1>2, <1>3, <1>4, <1>5, <1>6, TabStep

(* The requests change, and no tab does; each tab that waits still may.      *)
LEMMA FetchStep ==
    ASSUME AccessAssumption, AccessInv, sent' \in Nat, sent <= sent',
           token' \in [who : People \cup {Nobody}, n : 0 .. sent'], token'.n # 0 => token'.who \in People,
           fetches' \subseteq Fetch', \A c \in fetches' : ReqMeant(c),
           \A s \in Tabs : Asked(s) => Asked(s)',
           UNCHANGED <<apiSide, page, me>>
    PROVE  AccessInv'
<1>1. /\ page \in [Tabs -> {"login", "loading", "dashboard"}] /\ me \in [Tabs -> People \cup {Nobody}]
      /\ \A s \in Tabs : /\ page[s] = "dashboard" => me[s] \in Staff
                         /\ page[s] = "loading" => Asked(s)
  BY DEF AccessInv, AccessTypeOK, AccessIsHeld, Asked
<1> QED BY <1>1, TabStep

(* A request goes on in its tab. *)
LEMMA GoesOn ==
    ASSUME AccessInv, NEW c \in fetches, NEW d, d \in Fetch, ReqMeant(d), d.tab = c.tab, d.kind = c.kind,
           BecomesRequest(c, d), sent' = sent
    PROVE  /\ fetches' \subseteq Fetch /\ \A e \in fetches' : ReqMeant(e)
           /\ \A s : Asked(s) => Asked(s)'
           /\ sent \in Nat /\ sent <= sent' /\ fetches' \subseteq Fetch'
<1>1. sent \in Nat /\ sent <= sent'
  BY DEF AccessInv
<1>2. fetches' \subseteq Fetch /\ \A e \in fetches' : ReqMeant(e)
  BY DEF AccessInv, BecomesRequest
<1>3. \A s : Asked(s) => Asked(s)'
  BY DEF Asked, BecomesRequest
<1> QED BY <1>1, <1>2, <1>3, FetchGrows

LEMMA KnownSent ==
    ASSUME AccessInv
    PROVE  /\ sent \in Nat /\ token.n \in 0 .. sent /\ token.who \in People \cup {Nobody}
           /\ token \in [who : People \cup {Nobody}, n : 0 .. sent]
           /\ token.n # 0 => token.who \in People
           /\ fetches \subseteq Fetch /\ \A c \in fetches : ReqMeant(c)
  BY DEF AccessInv, AccessTypeOK

(* A request is added. *)
LEMMA AskStep ==
    ASSUME AccessAssumption, AccessInv, NEW t \in Tabs, NEW kind \in {"login", "confirm", "save"},
           NEW who \in People \cup {Nobody}, NEW key \in 0 .. sent, NEW end \in Endpoints \cup {NoEndpoint},
           key # 0 \/ kind = "login" => who \in People, kind = "save" => end \in Endpoints,
           sent' = sent + 1, NEW others, others \subseteq fetches,
           \A c \in fetches \ others : c.kind # "shell",
           fetches' = others \cup {Request(t, kind, who, key, end)},
           token'.n \in 0 .. sent, token' \in [who : People \cup {Nobody}, n : 0 .. sent],
           token'.n # 0 => token'.who \in People,
           UNCHANGED <<apiSide, page, me>>
    PROVE  AccessInv'
<1> DEFINE r == Request(t, kind, who, key, end)
<1>1. r \in Fetch' /\ ReqMeant(r)
  BY RequestMeans
<1>2. fetches' = others \cup {r}
  OBVIOUS
<1> HIDE DEF r
<1>3. sent' \in Nat /\ sent <= sent' /\ token' \in [who : People \cup {Nobody}, n : 0 .. sent']
  BY KnownSent
<1>4. fetches' \subseteq Fetch' /\ \A c \in fetches' : ReqMeant(c)
  BY <1>1, <1>2, <1>3, KnownSent, FetchGrows
<1>5. \A s \in Tabs : Asked(s) => Asked(s)'
  BY <1>2 DEF Asked
<1> QED BY <1>3, <1>4, <1>5, FetchStep

LEMMA SubmitSteps ==
    ASSUME AccessAssumption, AccessInv, NEW t \in Tabs, NEW a \in People, onSubmit(t, a)
    PROVE  AccessInv'
<1>1. 0 \in 0 .. sent /\ NoEndpoint \in Endpoints \cup {NoEndpoint}
  BY KnownSent
<1> QED BY <1>1, KnownSent, AskStep DEF onSubmit, adminTabs

LEMMA SaveSteps ==
    ASSUME AccessAssumption, AccessInv, NEW t \in Tabs, NEW end \in Endpoints, Save(t, end)
    PROVE  AccessInv'
<1>1. /\ sent' = sent + 1 /\ token' = token
      /\ fetches' = fetches \cup {Request(t, "save", token.who, token.n, end)}
  BY DEF Save, apiFetch
<1> QED BY <1>1, KnownSent, AskStep DEF Save

LEMMA TokenSteps ==
    ASSUME AccessAssumption, AccessInv, NEW c \in fetches, TokenArrives(c)
    PROVE  AccessInv'
<1>1. c \in Fetch /\ ReqMeant(c) /\ c.kind = "login" /\ c.tab \in Tabs
  BY KnownSent DEF TokenArrives, Fetch
<1>2. c.who \in People /\ c.n \in 0 .. sent /\ c.n \in 1 .. sent
  BY <1>1, KnownSent DEF ReqMeant, Fetch
<1>3. CASE c.answer = "ok"
  <2>1. /\ token' = [who |-> c.who, n |-> c.n] /\ sent' = sent + 1
        /\ fetches' = (fetches \ {c}) \cup {Request(c.tab, "confirm", c.who, c.n, NoEndpoint)}
        /\ UNCHANGED <<apiSide, page, me>>
    BY <1>3 DEF TokenArrives, apiFetch
  <2>2. token'.n = c.n /\ token'.who = c.who /\ token' \in [who : People \cup {Nobody}, n : 0 .. sent]
    BY <1>2, <2>1
  <2>3. \A d \in fetches \ (fetches \ {c}) : d.kind # "shell"
    BY <1>1
  <2>4. /\ NoEndpoint \in Endpoints \cup {NoEndpoint} /\ fetches \ {c} \subseteq fetches
        /\ c.who \in People \cup {Nobody} /\ token'.n \in 0 .. sent /\ token'.who \in People
    BY <1>2, <2>2
  <2> QED BY <1>1, <1>2, <2>1, <2>2, <2>3, <2>4, AskStep
<1>4. CASE c.answer # "ok"
  <2>1. fetches' = fetches \ {c} /\ UNCHANGED <<token, sent, apiSide, page, me>>
    BY <1>4 DEF TokenArrives
  <2>2. \A s \in Tabs : Asked(s) => Asked(s)'
    BY <1>1, <2>1 DEF Asked
  <2>3. fetches' \subseteq Fetch' /\ sent' \in Nat /\ sent <= sent'
    BY <2>1, KnownSent, FetchGrows
  <2>4. token' \in [who : People \cup {Nobody}, n : 0 .. sent'] /\ (token'.n # 0 => token'.who \in People)
    BY <2>1, KnownSent
  <2>5. \A d \in fetches' : ReqMeant(d)
    BY <2>1, KnownSent
  <2> QED BY <2>1, <2>2, <2>3, <2>4, <2>5, FetchStep
<1> QED BY <1>3, <1>4

LEMMA ConfirmedSteps ==
    ASSUME AccessAssumption, AccessInv, NEW c \in fetches, Confirmed(c)
    PROVE  AccessInv'
<1>1. c \in Fetch /\ c.kind = "confirm" /\ c.tab \in Tabs
  BY KnownSent DEF Confirmed, Fetch
<1>2. \A s \in Tabs : Asked(s) => \E d \in fetches \ {c} : d.tab = s /\ d.kind = "shell"
  BY <1>1 DEF Asked
<1> QED BY <1>1, <1>2, KnownSent, MountStep DEF Confirmed

LEMMA ReloadSteps ==
    ASSUME AccessAssumption, AccessInv, NEW t \in Tabs, Reload(t)
    PROVE  AccessInv'
  BY AbandonedIs, MountStep DEF Reload

LEMMA SignOutSteps ==
    ASSUME AccessAssumption, AccessInv, NEW t \in Tabs, SignOut(t)
    PROVE  AccessInv'
<1>1. \A s : Asked(s) => Asked(s)'
  BY DEF SignOut, Asked
<1> QED BY <1>1, KnownSent, AwayStep DEF SignOut

LEMMA NotStaffSteps ==
    ASSUME AccessAssumption, AccessInv, NEW c \in fetches, NotStaff(c), c.tab # NoTab,
           UNCHANGED <<apiSide, sent>>
    PROVE  AccessInv'
<1>1. c.tab \in Tabs
  BY KnownSent DEF Fetch
<1>2. \A s \in Tabs \ {c.tab} : Asked(s) => Asked(s)'
  BY DEF NotStaff, Asked
<1> QED BY <1>1, <1>2, KnownSent, AwayStep DEF NotStaff

LEMMA ExpiredSteps ==
    ASSUME AccessAssumption, AccessInv, NEW c \in fetches, SessionExpired(c)
    PROVE  AccessInv'
<1>1. c.tab \in Tabs
  BY KnownSent DEF SessionExpired, Fetch
<1>2. /\ fetches' \subseteq Abandoned(c.tab)
      /\ \A d \in Abandoned(c.tab) \ fetches' : d.tab = NoTab
  <2>1. c.tab # NoTab /\ ReqUnheard(c).tab = NoTab /\ fetches' = Abandoned(c.tab) \ {ReqUnheard(c)}
    BY UnheardIs DEF SessionExpired, ReqUnheard
  <2> QED BY <2>1
<1>3. \A s \in Tabs \ {c.tab} : Asked(s) => Asked(s)'
  BY <1>1, <1>2, AbandonedIs, AccessAssumption DEF Asked, AccessAssumption
<1>4. fetches' \subseteq Fetch /\ \A d \in fetches' : ReqMeant(d)
  BY <1>1, <1>2, AbandonedIs
<1> QED BY <1>1, <1>3, <1>4, AwayStep DEF SessionExpired

(* A request that nobody waits for ends. *)
LEMMA EndStep ==
    ASSUME AccessAssumption, AccessInv, NEW c \in fetches, c.tab = NoTab \/ c.kind # "shell",
           fetches' = fetches \ {c}, UNCHANGED <<apiSide, adminTabs, sent>>
    PROVE  AccessInv'
<1>1. \A s \in Tabs : Asked(s) => Asked(s)'
  BY AccessAssumption DEF Asked, AccessAssumption
<1>2. sent' \in Nat /\ sent <= sent' /\ fetches' \subseteq Fetch'
  BY KnownSent, FetchGrows
<1>3. \A d \in fetches' : ReqMeant(d)
  BY KnownSent
<1>4. /\ token' \in [who : People \cup {Nobody}, n : 0 .. sent']
      /\ token'.n # 0 => token'.who \in People
  BY KnownSent DEF adminTabs
<1> QED BY <1>1, <1>2, <1>3, <1>4, FetchStep DEF adminTabs

LEMMA SavedSteps ==
    ASSUME AccessAssumption, AccessInv, NEW c \in fetches, Saved(c)
    PROVE  AccessInv'
  BY EndStep DEF Saved

LEMMA ShellSteps ==
    ASSUME AccessAssumption, AccessInv, NEW c \in fetches, ShellAnswered(c)
    PROVE  AccessInv'
<1>1. c.tab \in Tabs /\ c.who \in Staff /\ c.who \in People
  BY KnownSent, AccessAssumption DEF ShellAnswered, Fetch, ReqMeant, AccessAssumption
<1>2. /\ page \in [Tabs -> {"login", "loading", "dashboard"}] /\ me \in [Tabs -> People \cup {Nobody}]
      /\ \A s \in Tabs : /\ page[s] = "dashboard" => me[s] \in Staff
                         /\ page[s] = "loading" => Asked(s)
  BY DEF AccessInv, AccessTypeOK, AccessIsHeld, Asked
<1>3. /\ page' = [page EXCEPT ![c.tab] = "dashboard"] /\ me' = [me EXCEPT ![c.tab] = c.who]
      /\ fetches' = fetches \ {c} /\ UNCHANGED <<apiSide, token, sent>>
  BY DEF ShellAnswered, ShowPage
<1>4. \A s \in Tabs : /\ page'[s] = "dashboard" => me'[s] \in Staff
                      /\ page'[s] = "loading" => Asked(s)'
  BY <1>1, <1>2, <1>3 DEF Asked
<1>5. sent' \in Nat /\ sent <= sent' /\ fetches' \subseteq Fetch'
  BY <1>3, KnownSent, FetchGrows
<1>6. \A d \in fetches' : ReqMeant(d)
  BY <1>3, KnownSent
<1>7. /\ token' \in [who : People \cup {Nobody}, n : 0 .. sent']
      /\ token'.n # 0 => token'.who \in People
  BY <1>3, KnownSent
<1> QED BY <1>1, <1>2, <1>3, <1>4, <1>5, <1>6, <1>7, TabStep

LEMMA GivenUpSteps ==
    ASSUME AccessAssumption, AccessInv, NEW c \in fetches, FetchGivenUp(c)
    PROVE  AccessInv'
<1>1. CASE c.kind \in {"confirm", "shell"}
  BY <1>1, NotStaffSteps DEF FetchGivenUp
<1>2. CASE c.kind \notin {"confirm", "shell"}
  <2>1. fetches' = (fetches \ {c}) \cup {ReqUnheard(c)} /\ UNCHANGED <<apiSide, adminTabs, sent>>
    BY <1>2 DEF FetchGivenUp, BecomesRequest, ReqUnheard
  <2>2. ReqUnheard(c) \in Fetch /\ ReqMeant(ReqUnheard(c))
    BY UnheardIs
  <2>3. \A s \in Tabs : Asked(s) => Asked(s)'
    BY <1>2, <2>1 DEF Asked
  <2>4. sent' \in Nat /\ sent <= sent' /\ fetches' \subseteq Fetch'
    BY <2>1, <2>2, KnownSent, FetchGrows
  <2>5. \A d \in fetches' : ReqMeant(d)
    BY <2>1, <2>2, KnownSent
  <2>6. /\ token' \in [who : People \cup {Nobody}, n : 0 .. sent']
        /\ token'.n # 0 => token'.who \in People
    BY <2>1, KnownSent DEF adminTabs
  <2> QED BY <2>1, <2>3, <2>4, <2>5, <2>6, FetchStep DEF adminTabs
<1> QED BY <1>1, <1>2

(* A request reaches a guard or a handler's answer. *)
LEMMA ServeStep ==
    ASSUME AccessAssumption, AccessInv, NEW c \in fetches, NEW d, d \in Fetch, ReqMeant(d),
           d.tab = c.tab, d.kind = c.kind, BecomesRequest(c, d),
           UNCHANGED <<apiSide, adminTabs, sent>>
    PROVE  AccessInv'
<1>1. /\ \A e \in fetches' : ReqMeant(e)
      /\ \A s : Asked(s) => Asked(s)'
      /\ sent \in Nat /\ sent <= sent' /\ fetches' \subseteq Fetch'
  BY GoesOn
<1>2. /\ token' \in [who : People \cup {Nobody}, n : 0 .. sent']
      /\ token'.n # 0 => token'.who \in People
  BY KnownSent DEF adminTabs
<1> QED BY <1>1, <1>2, FetchStep DEF adminTabs

Answers == {"ok", "refused", "401", "403", "error", "customer"}

LEMMA AnswerIs ==
    ASSUME AccessInv, NEW c \in fetches, NEW said \in Answers \cup {"staff"},
           said = "staff" => c.who \in Staff
    PROVE  LET d == [c EXCEPT !.at = "answer", !.answer = said]
           IN  d \in Fetch /\ ReqMeant(d) /\ d.tab = c.tab /\ d.kind = c.kind
<1> DEFINE d == [c EXCEPT !.at = "answer", !.answer = said]
<1>1. c \in Fetch /\ ReqMeant(c)
  BY KnownSent
<1>2. d \in Fetch /\ d.tab = c.tab /\ d.kind = c.kind
  BY <1>1 DEF Fetch, Answers
<1>3. /\ d.who = c.who /\ d.key = c.key /\ d.end = c.end /\ d.forbidden = c.forbidden
      /\ d.at = "answer" /\ d.answer = said
  BY <1>1 DEF Fetch
<1>4. ReqMeant(d)
  <2> HIDE DEF d
  <2> QED BY <1>1, <1>2, <1>3 DEF ReqMeant
<1> QED BY <1>2, <1>4

LEMMA ServedSteps ==
    ASSUME AccessAssumption, AccessInv, NEW c \in fetches, LoginServed(c) \/ Guarded(c)
    PROVE  AccessInv'
<1>1. UNCHANGED <<apiSide, adminTabs, sent>> /\ c \in Fetch /\ ReqMeant(c)
  BY KnownSent DEF LoginServed, Guarded
<1>2. ASSUME NEW said \in Answers \cup {"staff"}, said = "staff" => c.who \in Staff, AnswerWith(c, said)
      PROVE  AccessInv'
  <2> PICK d : d = [c EXCEPT !.at = "answer", !.answer = said]
    OBVIOUS
  <2>1. d \in Fetch /\ ReqMeant(d) /\ d.tab = c.tab /\ d.kind = c.kind
    BY <1>2, AnswerIs
  <2>2. BecomesRequest(c, d)
    BY <1>2 DEF AnswerWith
  <2> QED BY <1>1, <2>1, <2>2, ServeStep
<1>3. CASE LoginServed(c)
  BY <1>2, <1>3 DEF LoginServed, Answers
<1>4. CASE Guarded(c)
  <2>1. CASE ~canActivate(c)
    BY <1>2, <1>4, <2>1 DEF Guarded, Answers
  <2>2. CASE canActivate(c) /\ c.kind # "save"
    <3>1. AnswerWith(c, isStaff(c.who)) /\ isStaff(c.who) \in {"staff", "customer"}
      BY <1>4, <2>2 DEF Guarded, isStaff
    <3>2. isStaff(c.who) = "staff" => c.who \in Staff
      BY DEF isStaff
    <3> QED BY <1>2, <3>1, <3>2 DEF Answers
  <2>3. CASE canActivate(c) /\ c.kind = "save" /\ MissingKeys(c)
    BY <1>2, <1>4, <2>3 DEF Guarded, Answers
  <2>4. CASE canActivate(c) /\ c.kind = "save" /\ ~MissingKeys(c)
    <3> PICK d : d = [c EXCEPT !.at = "handle"]
      OBVIOUS
    <3>1. BecomesRequest(c, d)
      BY <1>4, <2>4 DEF Guarded
    <3>2. /\ d \in Fetch /\ d.tab = c.tab /\ d.kind = c.kind /\ d.who = c.who /\ d.key = c.key
          /\ d.end = c.end /\ d.forbidden = c.forbidden /\ d.at = "handle"
      BY <1>1 DEF Fetch
    <3>3. c.key # 0 /\ c.who \in People /\ c.who \notin banned /\ c.end \in Endpoints
      BY <1>1, <2>4 DEF canActivate, ReqMeant
    <3>4. c.who \in Super \/ c.end.needs \subseteq held[c.who]
      BY <2>4 DEF MissingKeys
    <3>5. c.end.needs # {}
      BY <3>3, AccessAssumption DEF AccessAssumption
    <3>6. c.who \in Staff
      BY <3>3, <3>4, <3>5, AccessAssumption DEF AccessAssumption, AccessInv
    <3>7. ~c.forbidden
      BY <1>1, <3>3, <3>4 DEF ReqMeant, MayNot
    <3>8. ReqMeant(d)
      BY <1>1, <2>4, <3>2, <3>6, <3>7 DEF ReqMeant
    <3> QED BY <1>1, <3>1, <3>2, <3>8, ServeStep
  <2> QED BY <2>1, <2>2, <2>3, <2>4
<1> QED BY <1>3, <1>4

(* A handler's work, its entry, and what an account loses leave the tabs alone. *)
LEMMA TabsStay ==
    ASSUME AccessInv, UNCHANGED <<page, me>>, \A s \in Tabs : Asked(s) => Asked(s)'
    PROVE  \A s \in Tabs : /\ page'[s] = "dashboard" => me'[s] \in Staff
                           /\ page'[s] = "loading" => \E c \in fetches' : c.tab = s /\ c.kind = "shell"
  BY DEF AccessInv, AccessIsHeld, Asked

LEMMA HandledSteps ==
    ASSUME AccessAssumption, AccessInv, NEW c \in fetches, NEW ok \in BOOLEAN, Handled(c, ok)
    PROVE  AccessInv'
<1>1. c \in Fetch /\ ReqMeant(c) /\ c.who \in Staff /\ c.who \in People /\ ~c.forbidden
  BY KnownSent, AccessAssumption DEF Handled, ReqMeant, AccessAssumption
<1>2. /\ \A e \in fetches' : ReqMeant(e)
      /\ \A s : Asked(s) => Asked(s)'
      /\ sent' = sent /\ sent \in Nat /\ fetches' \subseteq Fetch'
  <2> PICK said \in Answers : said = IF ok THEN "ok" ELSE "error"
    BY DEF Answers
  <2> PICK d : d = [c EXCEPT !.at = "answer", !.answer = said]
    OBVIOUS
  <2>1. said # "staff"
    BY DEF Answers
  <2>2. d \in Fetch /\ ReqMeant(d) /\ d.tab = c.tab /\ d.kind = c.kind
    BY <2>1, AnswerIs
  <2>3. BecomesRequest(c, d) /\ sent' = sent
    BY DEF Handled, AnswerWith
  <2> QED BY <2>2, <2>3, GoesOn
<1>3. \A e \in fetches' : ReqMeant(e)'
  BY <1>2 DEF Handled, ReqMeant, MayNot
<1>4. Entry(c) \in [n : 1 .. sent, actor : People]
  BY <1>1 DEF Entry, Fetch
<1>5. AccessTypeOK'
  <2>1. \A e \in fetches' : e.n \in 1 .. sent' /\ e.at \in {"guard", "handle", "answer"}
    BY <1>2 DEF Fetch
  <2>2. auditQueue' \cup auditLog' \cup lostAudits' \subseteq [n : 1 .. sent', actor : People]
    BY <1>2, <1>4 DEF Handled, AccessInv, AccessTypeOK
  <2> QED BY <1>2, <2>1, <2>2 DEF Handled, adminTabs, AccessInv, AccessTypeOK
<1>6. AccessIsHeld'
  <2>1. \A d \in carriedOut' : ~d.forbidden /\ d.who \in Staff
    BY <1>1 DEF Handled, AccessInv, AccessIsHeld
  <2>2. auditQueue' \cup auditLog' \cup lostAudits' = {Entry(d) : d \in {e \in carriedOut' : e.end.audited}}
    <3>1. auditQueue \cup auditLog \cup lostAudits = {Entry(d) : d \in {e \in carriedOut : e.end.audited}}
      BY DEF AccessInv, AccessIsHeld
    <3>2. auditLog' = auditLog /\ lostAudits' = lostAudits
      BY DEF Handled
    <3>3. CASE ok /\ c.end.audited
      <4>1. carriedOut' = carriedOut \cup {c} /\ auditQueue' = auditQueue \cup {Entry(c)}
        BY <3>3 DEF Handled, Audited
      <4> QED BY <3>1, <3>2, <3>3, <4>1
    <3>4. CASE ok /\ ~c.end.audited
      <4>1. carriedOut' = carriedOut \cup {c} /\ auditQueue' = auditQueue
        BY <3>4 DEF Handled, Audited
      <4> QED BY <3>1, <3>2, <3>4, <4>1
    <3>5. CASE ~ok
      <4>1. carriedOut' = carriedOut /\ auditQueue' = auditQueue
        BY <3>5 DEF Handled, Audited
      <4> QED BY <3>1, <3>2, <4>1
    <3> QED BY <3>3, <3>4, <3>5
  <2>3. \A s \in Tabs : /\ page'[s] = "dashboard" => me'[s] \in Staff
                        /\ page'[s] = "loading" => \E d \in fetches' : d.tab = s /\ d.kind = "shell"
    BY <1>2, TabsStay DEF Handled, adminTabs
  <2> QED BY <2>1, <2>2, <2>3 DEF AccessIsHeld
<1> QED BY <1>2, <1>3, <1>5, <1>6 DEF Handled, adminTabs, AccessInv

LEMMA EntrySteps ==
    ASSUME AccessAssumption, AccessInv, NEW e \in auditQueue, NEW written \in BOOLEAN, EntryEnds(e, written)
    PROVE  AccessInv'
<1>1. /\ auditQueue' \cup auditLog' \cup lostAudits' = auditQueue \cup auditLog \cup lostAudits
      /\ UNCHANGED <<banned, held, expired, carriedOut, token, page, me, fetches, sent>>
  BY DEF EntryEnds, adminTabs
<1>2. AccessTypeOK'
  BY <1>1 DEF AccessInv, AccessTypeOK
<1>3. AccessIsHeld'
  BY <1>1 DEF AccessInv, AccessIsHeld, Entry
<1>4. fetches' \subseteq Fetch' /\ \A c \in fetches' : ReqMeant(c)'
  BY <1>1 DEF AccessInv, Fetch, ReqMeant, MayNot
<1> QED BY <1>1, <1>2, <1>3, <1>4 DEF AccessInv

LEMMA EditSteps ==
    ASSUME AccessAssumption, AccessInv, EditAccounts
    PROVE  AccessInv'
<1> DEFINE after(c) == [c EXCEPT !.forbidden = @ /\ MayNot(c.who, c.end.needs)']
<1>1. /\ UNCHANGED <<auditQueue, auditLog, lostAudits, carriedOut, token, page, me, sent>>
      /\ fetches' = {after(c) : c \in fetches}
      /\ held \in [People -> SUBSET Permissions] /\ banned \subseteq People
      /\ \A a \in People \ Staff : held[a] = {}
  BY DEF EditAccounts, adminTabs, AccessInv, AccessTypeOK
<1>2. /\ banned' \subseteq People /\ held' \in [People -> SUBSET Permissions]
      /\ \A a \in People \ Staff : held'[a] = {}
  <2>1. CASE \/ \E a \in People \ banned : banned' = banned \cup {a} /\ UNCHANGED <<held, expired>>
             \/ \E a \in banned : banned' = banned \ {a} /\ UNCHANGED <<held, expired>>
    BY <1>1, <2>1
  <2>2. CASE \E a \in People : \E p \in held[a] :
               held' = [held EXCEPT ![a] = @ \ {p}] /\ UNCHANGED <<banned, expired>>
    BY <1>1, <2>2
  <2>3. CASE \E a \in Staff : \E p \in Permissions \ held[a] :
               held' = [held EXCEPT ![a] = @ \cup {p}] /\ UNCHANGED <<banned, expired>>
    BY <1>1, <2>3, AccessAssumption DEF AccessAssumption
  <2>4. CASE UNCHANGED <<banned, held>>
    BY <1>1, <2>4
  <2> QED BY <2>1, <2>2, <2>3, <2>4 DEF EditAccounts
<1>3. ASSUME NEW c \in fetches
      PROVE  \E d \in Fetch : /\ d = after(c) /\ d.tab = c.tab /\ d.kind = c.kind
                              /\ d.n = c.n /\ d.at = c.at /\ ReqMeant(d)'
  <2>1. c \in Fetch /\ ReqMeant(c)
    BY KnownSent
  <2> PICK f : f = (c.forbidden /\ MayNot(c.who, c.end.needs)')
    OBVIOUS
  <2> PICK d : d = [c EXCEPT !.forbidden = f]
    OBVIOUS
  <2>2. f \in BOOLEAN /\ d = after(c)
    BY <2>1 DEF Fetch
  <2> HIDE DEF after
  <2>3. /\ d \in Fetch /\ d.tab = c.tab /\ d.kind = c.kind /\ d.n = c.n /\ d.at = c.at
        /\ d.who = c.who /\ d.key = c.key /\ d.end = c.end /\ d.answer = c.answer
        /\ d.forbidden = f
    BY <2>1, <2>2 DEF Fetch
  <2>4. f => c.forbidden /\ MayNot(c.who, c.end.needs)'
    OBVIOUS
  <2>5. ReqMeant(d)'
    BY <2>1, <2>3, <2>4 DEF ReqMeant
  <2> QED BY <2>2, <2>3, <2>5
<1> HIDE DEF after
<1>4. AccessTypeOK'
  <2>1. \A c \in fetches : c.n \in 1 .. sent /\ c.at \in {"guard", "handle", "answer"}
    BY DEF AccessInv, AccessTypeOK
  <2>2. \A c \in fetches' : c.n \in 1 .. sent' /\ c.at \in {"guard", "handle", "answer"}
    BY <1>1, <1>3, <2>1
  <2> QED BY <1>1, <1>2, <2>2 DEF AccessInv, AccessTypeOK
<1>5. AccessIsHeld'
  <2>1. \A t \in Tabs : (\E c \in fetches : c.tab = t /\ c.kind = "shell")
                      => \E c \in fetches' : c.tab = t /\ c.kind = "shell"
    BY <1>1, <1>3
  <2> QED BY <1>1, <2>1 DEF AccessInv, AccessIsHeld, Entry
<1>6. fetches' \subseteq Fetch'
  BY <1>1, <1>3 DEF Fetch
<1>7. \A c \in fetches' : ReqMeant(c)'
  BY <1>1, <1>3
<1> QED BY <1>1, <1>2, <1>4, <1>5, <1>6, <1>7 DEF AccessInv

LEMMA AccessSteps == AccessInv /\ [AccessNext]_accessVars => AccessInv'
<1> SUFFICES ASSUME AccessInv, [AccessNext]_accessVars PROVE AccessInv'
  OBVIOUS
<1> USE AccessAssumption
<1>1. CASE \E t \in Tabs : SignOut(t) \/ Reload(t)
  BY <1>1, SignOutSteps, ReloadSteps
<1>2. CASE \E t \in Tabs, a \in People : onSubmit(t, a)
  BY <1>2, SubmitSteps
<1>3. CASE \E t \in Tabs, end \in Endpoints : Save(t, end)
  BY <1>3, SaveSteps
<1>4. ASSUME NEW c \in fetches,
             \/ LoginServed(c) \/ TokenArrives(c) \/ Confirmed(c) \/ ShellAnswered(c) \/ TurnedAway(c)
             \/ SessionExpired(c) \/ FetchGivenUp(c) \/ Guarded(c) \/ Saved(c)
      PROVE  AccessInv'
  <2>1. CASE TurnedAway(c)
    BY <2>1, NotStaffSteps DEF TurnedAway
  <2> QED BY <1>4, <2>1, ServedSteps, TokenSteps, ConfirmedSteps, ShellSteps, ExpiredSteps,
             GivenUpSteps, SavedSteps
<1>5. CASE \E c \in fetches, ok \in BOOLEAN : Handled(c, ok)
  BY <1>5, HandledSteps
<1>6. CASE \E e \in auditQueue, written \in BOOLEAN : EntryEnds(e, written)
  BY <1>6, EntrySteps
<1>7. CASE EditAccounts
  BY <1>7, EditSteps
<1>8. CASE UNCHANGED accessVars
  <2>1. UNCHANGED <<apiSide, adminTabs, sent, fetches>>
    BY <1>8 DEF accessVars, apiSide, adminTabs
  <2>2. AccessTypeOK'
    BY <2>1 DEF AccessInv, AccessTypeOK, apiSide, adminTabs
  <2>3. AccessIsHeld'
    BY <2>1 DEF AccessInv, AccessIsHeld, Entry, apiSide, adminTabs
  <2>4. fetches' \subseteq Fetch' /\ \A c \in fetches' : ReqMeant(c)'
    BY <2>1 DEF AccessInv, Fetch, ReqMeant, MayNot, apiSide
  <2> QED BY <2>1, <2>2, <2>3, <2>4 DEF AccessInv, apiSide, adminTabs
<1> QED BY <1>1, <1>2, <1>3, <1>4, <1>5, <1>6, <1>7, <1>8 DEF AccessNext

(* Nothing is written for an account that was banned or lacked a permission  *)
(* from when it asked until it was served; the dashboard is                  *)
(* shown to staff, and a tab that loads is answered; and the log has one     *)
(* entry per audited mutation, unless it was lost (jwt-auth.guard.ts,        *)
(* permissions.guard.ts, audit.interceptor.ts, shell.tsx).                   *)
THEOREM AccessHolds == AccessSpec => []AccessIsHeld
<1>1. AccessInv => AccessIsHeld
  BY DEF AccessInv
<1> QED BY <1>1, AccessStarts, AccessSteps, PTL DEF AccessSpec

-----------------------------------------------------------------------------
(* Product images.  Who speaks of a file, and for which product.            *)

Replaces(f) == replacing[f].at # "idle"
Filling(f) == replacing[f].at = "fill"

Named(u, p) ==
    \/ u \in productMedia[p]
    \/ \E f \in Forms : IsOpen(f) /\ form[f].of = p /\ u \in form[f].value
    \/ \E f \in Forms : Replaces(f) /\ replacing[f].of = p /\ u \in replacing[f].urls \cup replacing[f].previous

(* Only what was uploaded is spoken of; a form owns some of what it shows.   *)
UploadedOK ==
    /\ files \cup deleting \cup copied \cup cutOut \cup strayed \subseteq 1 .. uploads
    /\ \A u \in Files, p \in Shelf : Named(u, p) => u \in 1 .. uploads
    /\ \A f \in Forms : IsOpen(f) => form[f].session \subseteq form[f].value
    /\ \A f, g \in Forms : IsOpen(f) /\ IsOpen(g) /\ form[f].session \cap form[g].session # {} => f = g

(* A file is one product's, unless its address was copied. *)
HomeOK ==
    \A u \in Files \ copied : \A p, q \in Shelf : Named(u, p) /\ Named(u, q) => p = q

(* What is cut out was, or will be, deleted; or that failed. *)
CutOK == cutOut \cap files \subseteq deleting \cup strayed

(* One replacement of a product at a time, and it knows the rows it clears.  *)
AloneOK ==
    /\ \A f, g \in Forms : Replaces(f) /\ Replaces(g) /\ replacing[f].of = replacing[g].of => f = g
    /\ \A f \in Forms : /\ replacing[f].at = "clear" => replacing[f].previous = productMedia[replacing[f].of]
                        /\ Filling(f) => productMedia[replacing[f].of] = {}

(* A file that a form shows and did not upload is in the product's rows, or  *)
(* was until a replacement cleared them.                                     *)
Drops(f, u) == Filling(f) /\ u \in replacing[f].previous
ShownOK ==
    \A f \in Forms, u \in Files \ (copied \cup cutOut) :
        IsOpen(f) /\ u \in form[f].value \ form[f].session =>
            \/ u \in productMedia[form[f].of]
            \/ \E g \in Forms : Drops(g, u) /\ replacing[g].of = form[f].of

(* A file that is deleted is in no rows and no save; a form that shows it    *)
(* does so until the replacement that drops it is done.                      *)
OffStorage(u) == u \in deleting \/ u \notin files
GoneOK ==
    \A u \in 1 .. uploads \ (copied \cup cutOut) : OffStorage(u) =>
        /\ InRows(u) = {} /\ BeingSaved(u) = {}
        /\ Shows(u) # {} => \E g \in Forms : Drops(g, u)

(* What is in storage is somebody's. *)
NeededOK ==
    \A u \in files \ (copied \cup strayed) :
        InRows(u) # {} \/ Shows(u) # {} \/ BeingSaved(u) # {} \/ u \in deleting
        \/ \E f \in Forms : Drops(f, u)

(* Types of what the invariants speak of. *)
MediaRows ==
    /\ files \subseteq Files /\ uploads \in 0 .. MaxUploads
    /\ productMedia \in [Shelf -> SUBSET Files]
    /\ form \in [Forms -> ProductForm] /\ replacing \in [Forms -> Replacement]
    /\ deleting \subseteq Files

Sound == AloneOK /\ ShownOK /\ GoneOK /\ NeededOK
MediaInv == MediaRows /\ UploadedOK /\ HomeOK /\ CutOK /\ (~interleaved => Sound)

LEMMA MediaStarts == MediaInit => MediaInv
<1> SUFFICES ASSUME MediaInit PROVE MediaInv
  OBVIOUS
<1> USE MediaAssumption DEF MediaAssumption
<1>1. MediaRows
  <2>1. uploads \in 0 .. MaxUploads
    BY DEF MediaInit
  <2>2. NotOpen \in ProductForm /\ Idling \in Replacement
    BY DEF ProductForm, Replacement
  <2> QED BY <2>1, <2>2 DEF MediaInit, MediaRows
<1>2. \A f \in Forms : ~IsOpen(f) /\ ~Replaces(f) /\ ~Filling(f) /\ replacing[f].at = "idle"
  BY DEF MediaInit, NotOpen, Idling, IsOpen, Replaces, Filling
<1>3. UploadedOK /\ HomeOK /\ CutOK
  BY <1>2 DEF MediaInit, UploadedOK, HomeOK, CutOK, Named
<1>4. Sound
  BY <1>2 DEF MediaInit, Sound, AloneOK, ShownOK, GoneOK, NeededOK, Drops
<1> QED BY <1>1, <1>3, <1>4 DEF MediaInv

(* What the types say of forms and replacements. *)
LEMMA MediaTypes ==
    ASSUME MediaInv
    PROVE  /\ \A f \in Forms : IsOpen(f) =>
                 /\ form[f].of \in Shelf /\ form[f].value \subseteq Files /\ form[f].session \subseteq Files
                 /\ form[f].uploading \in BOOLEAN
           /\ \A f \in Forms : Replaces(f) =>
                 /\ replacing[f].at \in {"read", "clear", "fill"} /\ replacing[f].of \in Shelf
                 /\ replacing[f].urls \subseteq Files /\ replacing[f].previous \subseteq Files
           /\ productMedia \in [Shelf -> SUBSET Files] /\ uploads \in 0 .. MaxUploads
           /\ files \subseteq Files /\ deleting \subseteq Files
           /\ form \in [Forms -> ProductForm] /\ replacing \in [Forms -> Replacement]
<1>1. MediaRows
  BY DEF MediaInv
<1>2. ASSUME NEW f \in Forms, IsOpen(f)
      PROVE  form[f] \in [open : {TRUE}, of : Shelf, value : SUBSET Files, session : SUBSET Files,
                          uploading : BOOLEAN]
  <2>1. form[f] \in ProductForm /\ form[f].open
    BY <1>1, <1>2 DEF MediaRows, IsOpen
  <2>2. ~NotOpen.open
    BY DEF NotOpen
  <2> QED BY <2>1, <2>2 DEF ProductForm
<1>3. ASSUME NEW f \in Forms, Replaces(f)
      PROVE  replacing[f] \in [at : {"read", "clear", "fill"}, of : Shelf, urls : SUBSET Files,
                               previous : SUBSET Files]
  BY <1>1, <1>3 DEF MediaRows, Replacement, Idling, Replaces
<1> QED BY <1>1, <1>2, <1>3 DEF MediaRows

(* A step of a form: storage, rows and replacements stay.                    *)
LEMMA OpenKeeps ==
    ASSUME MediaAssumption, MediaInv, NEW f \in Forms, NEW p \in Shelf, OpenForm(f, p)
    PROVE  MediaInv'
<1>0. /\ UNCHANGED <<files, uploads, productMedia, deleting, replacing, mediaHistory>>
      /\ ~IsOpen(f) /\ ~Replaces(f)
      /\ \A g \in Forms : IsOpen(g)' <=> (g = f \/ IsOpen(g))
      /\ \A g \in Forms : g # f => form'[g] = form[g]
      /\ form'[f].of = p /\ form'[f].value = productMedia[p] /\ form'[f].session = {}
      /\ form' \in [Forms -> ProductForm]
  <2>1. PICK d : d = [open |-> TRUE, of |-> p, value |-> productMedia[p], session |-> {},
                      uploading |-> FALSE]
    OBVIOUS
  <2>2. /\ d.open = TRUE /\ d.of = p /\ d.value = productMedia[p] /\ d.session = {}
        /\ d \in ProductForm
    BY <2>1, MediaTypes DEF ProductForm
  <2>3. form' = [form EXCEPT ![f] = d] /\ form \in [Forms -> ProductForm]
    BY <2>1, MediaTypes DEF OpenForm
  <2>4. ~IsOpen(f) /\ ~Replaces(f)
    BY DEF OpenForm, Replaces, Idling
  <2>5. form' \in [Forms -> ProductForm] /\ form'[f] = d /\ \A g \in Forms : g # f => form'[g] = form[g]
    BY <2>2, <2>3
  <2>6. \A g \in Forms : IsOpen(g)' <=> (g = f \/ IsOpen(g))
    BY <2>2, <2>5 DEF IsOpen
  <2>7. UNCHANGED <<files, uploads, productMedia, deleting, replacing, mediaHistory>>
    BY DEF OpenForm, storage
  <2> QED BY <2>2, <2>4, <2>5, <2>6, <2>7
<1>1. MediaRows'
  BY <1>0 DEF MediaInv, MediaRows
<1>2. \A u \in Files, q \in Shelf : Named(u, q)' => Named(u, q)
  BY <1>0 DEF Named, Replaces
<1>3. UploadedOK'
  BY <1>0, <1>2 DEF MediaInv, UploadedOK, mediaHistory
<1>4. HomeOK'
  BY <1>0, <1>2 DEF MediaInv, HomeOK, mediaHistory
<1>5. CutOK'
  BY <1>0 DEF MediaInv, CutOK, mediaHistory
<1>6. ASSUME Sound PROVE Sound'
  <2>1. /\ \A g, u : Drops(g, u)' = Drops(g, u)
        /\ \A u : InRows(u)' = InRows(u) /\ BeingSaved(u)' = BeingSaved(u)
        /\ \A u : OffStorage(u)' = OffStorage(u)
        /\ \A u : Shows(u) \subseteq Shows(u)'
        /\ \A u : u \notin productMedia[p] => Shows(u)' = Shows(u)
    BY <1>0 DEF Drops, Filling, InRows, BeingSaved, OffStorage, Shows
  <2>2. AloneOK'
    BY <1>0, <1>6 DEF Sound, AloneOK, Replaces, Filling
  <2>3. ShownOK'
    <3> SUFFICES ASSUME NEW g \in Forms, NEW u \in Files \ (copied \cup cutOut), IsOpen(g)',
                        u \in form'[g].value \ form'[g].session
                 PROVE  \/ u \in productMedia[form'[g].of]
                        \/ \E h \in Forms : Drops(h, u) /\ replacing[h].of = form'[g].of
      BY <1>0, <2>1 DEF ShownOK, mediaHistory
    <3> QED BY <1>0, <1>6 DEF Sound, ShownOK
  <2>4. GoneOK'
    BY <1>0, <1>6, <2>1 DEF Sound, GoneOK, InRows, mediaHistory
  <2>5. NeededOK'
    BY <1>0, <1>6, <2>1 DEF Sound, NeededOK, mediaHistory
  <2> QED BY <2>2, <2>3, <2>4, <2>5 DEF Sound
<1> QED BY <1>0, <1>1, <1>3, <1>4, <1>5, <1>6 DEF MediaInv, mediaHistory

(* A form that is left forgets what it owns, and does not show the rest.     *)
LEMMA LeaveKeeps ==
    ASSUME MediaAssumption, MediaInv, NEW f \in Forms, LeaveForm(f)
    PROVE  MediaInv'
<1>0. /\ UNCHANGED <<files, uploads, productMedia, deleting, replacing, copied, cutOut, interleaved>>
      /\ strayed' = strayed \cup form[f].session
      /\ IsOpen(f) /\ form' = [form EXCEPT ![f] = NotOpen] /\ form' \in [Forms -> ProductForm]
  BY MediaTypes DEF LeaveForm, storage, ProductForm
<1>1. /\ \A g \in Forms : IsOpen(g)' <=> (g # f /\ IsOpen(g))
      /\ \A g \in Forms : g # f => form'[g] = form[g]
  <2>1. ~NotOpen.open
    BY DEF NotOpen
  <2> QED BY <1>0, <2>1, MediaTypes DEF IsOpen
<1>2. MediaRows'
  BY <1>0 DEF MediaInv, MediaRows
<1>3. \A u \in Files, q \in Shelf : Named(u, q)' => Named(u, q)
  BY <1>0, <1>1 DEF Named, Replaces
<1>4. form[f].session \subseteq 1 .. uploads
  BY <1>0, MediaTypes DEF MediaInv, UploadedOK, Named
<1>5. UploadedOK'
  BY <1>0, <1>1, <1>3, <1>4 DEF MediaInv, UploadedOK
<1>6. HomeOK' /\ CutOK'
  BY <1>0, <1>3 DEF MediaInv, HomeOK, CutOK
<1>7. ASSUME Sound PROVE Sound'
  <2>1. /\ \A g, u : Drops(g, u)' <=> Drops(g, u)
        /\ \A u : InRows(u)' = InRows(u) /\ BeingSaved(u)' = BeingSaved(u)
        /\ \A u : OffStorage(u)' <=> OffStorage(u)
        /\ \A u : Shows(u)' = Shows(u) \ {f}
    BY <1>0, <1>1 DEF Drops, Filling, InRows, BeingSaved, OffStorage, Shows
  <2>2. AloneOK'
    BY <1>0, <1>7 DEF Sound, AloneOK, Replaces, Filling
  <2>3. ShownOK'
    <3> SUFFICES ASSUME NEW g \in Forms, NEW u \in Files \ (copied \cup cutOut), IsOpen(g)',
                        u \in form'[g].value \ form'[g].session
                 PROVE  \/ u \in productMedia[form'[g].of]
                        \/ \E h \in Forms : Drops(h, u) /\ replacing[h].of = form'[g].of
      BY <1>0, <2>1 DEF ShownOK
    <3> QED BY <1>1, <1>7 DEF Sound, ShownOK
  <2>4. GoneOK'
    BY <1>0, <1>7, <2>1 DEF Sound, GoneOK
  <2>5. NeededOK'
    <3> SUFFICES ASSUME NEW u \in files \ (copied \cup strayed'), InRows(u) = {}, Shows(u)' = {},
                        BeingSaved(u) = {}, u \notin deleting
                 PROVE  \E g \in Forms : Drops(g, u)
      BY <1>0, <2>1 DEF NeededOK
    <3>1. u \notin cutOut /\ u \notin form[f].session /\ u \in Files
      BY <1>0, MediaTypes DEF MediaInv, CutOK
    <3>2. CASE Shows(u) = {}
      BY <1>0, <1>7, <3>2 DEF Sound, NeededOK
    <3>3. CASE Shows(u) # {}
      <4>1. u \in form[f].value
        BY <2>1, <3>3 DEF Shows
      <4> QED BY <1>0, <1>7, <3>1, <4>1, MediaTypes DEF Sound, ShownOK, InRows
    <3> QED BY <3>2, <3>3
  <2> QED BY <2>2, <2>3, <2>4, <2>5 DEF Sound
<1> QED BY <1>0, <1>2, <1>5, <1>6, <1>7 DEF MediaInv

(* Forms show and own what they did. *)
LEMMA ShownKeeps ==
    ASSUME MediaAssumption, MediaInv,
           UNCHANGED <<files, uploads, productMedia, deleting, replacing, mediaHistory>>,
           form' \in [Forms -> ProductForm],
           \A g \in Forms : IsOpen(g)' <=> IsOpen(g),
           \A g \in Forms : IsOpen(g) => /\ form'[g].of = form[g].of /\ form'[g].value = form[g].value
                                         /\ form'[g].session = form[g].session
    PROVE  MediaInv'
<1>1. MediaRows'
  BY DEF MediaInv, MediaRows
<1>2. \A u \in Files, q \in Shelf : Named(u, q)' <=> Named(u, q)
  BY DEF Named, Replaces
<1>3. UploadedOK' /\ HomeOK' /\ CutOK'
  BY <1>2 DEF MediaInv, UploadedOK, HomeOK, CutOK, mediaHistory
<1>4. /\ \A g, u : Drops(g, u)' <=> Drops(g, u)
      /\ \A u : InRows(u)' = InRows(u) /\ BeingSaved(u)' = BeingSaved(u)
      /\ \A u : OffStorage(u)' <=> OffStorage(u)
      /\ \A u : Shows(u)' = Shows(u)
  BY DEF Drops, Filling, InRows, BeingSaved, OffStorage, Shows
<1>5. ASSUME Sound PROVE Sound'
  <2>1. AloneOK'
    BY <1>5 DEF Sound, AloneOK, Replaces, Filling
  <2>2. ShownOK'
    <3> SUFFICES ASSUME NEW g \in Forms, NEW u \in Files \ (copied \cup cutOut), IsOpen(g)',
                        u \in form'[g].value \ form'[g].session
                 PROVE  \/ u \in productMedia[form'[g].of]
                        \/ \E h \in Forms : Drops(h, u) /\ replacing[h].of = form'[g].of
      BY <1>4 DEF ShownOK, mediaHistory
    <3> QED BY <1>5 DEF Sound, ShownOK
  <2>3. GoneOK' /\ NeededOK'
    BY <1>4, <1>5 DEF Sound, GoneOK, NeededOK, mediaHistory
  <2> QED BY <2>1, <2>2, <2>3 DEF Sound
<1> QED BY <1>1, <1>3, <1>5 DEF MediaInv, mediaHistory

LEMMA BusyFormKeeps ==
    ASSUME MediaAssumption, MediaInv, NEW f \in Forms, IsOpen(f), NEW b \in BOOLEAN,
           form' = [form EXCEPT ![f].uploading = b],
           UNCHANGED <<files, uploads, productMedia, deleting, replacing, mediaHistory>>
    PROVE  MediaInv'
<1>1. PICK d : d = [form[f] EXCEPT !.uploading = b]
  OBVIOUS
<1>2. form[f] \in [open : {TRUE}, of : Shelf, value : SUBSET Files, session : SUBSET Files,
                   uploading : BOOLEAN]
  <2>1. ~NotOpen.open
    BY DEF NotOpen
  <2> QED BY <2>1, MediaTypes DEF ProductForm, IsOpen
<1>3. /\ d \in ProductForm /\ d.open /\ d.of = form[f].of /\ d.value = form[f].value
      /\ d.session = form[f].session
  BY <1>1, <1>2 DEF ProductForm
<1>4. /\ form' = [form EXCEPT ![f] = d] /\ form \in [Forms -> ProductForm]
  BY <1>1, MediaTypes
<1>5. /\ form' \in [Forms -> ProductForm]
      /\ form'[f] = d /\ \A g \in Forms : g # f => form'[g] = form[g]
  BY <1>3, <1>4
<1>6. /\ \A g \in Forms : IsOpen(g)' <=> IsOpen(g)
      /\ \A g \in Forms : IsOpen(g) => /\ form'[g].of = form[g].of /\ form'[g].value = form[g].value
                                       /\ form'[g].session = form[g].session
  BY <1>3, <1>5 DEF IsOpen
<1> QED BY <1>5, <1>6, ShownKeeps

LEMMA HandleKeeps ==
    ASSUME MediaAssumption, MediaInv, NEW f \in Forms, handleFiles(f)
    PROVE  MediaInv'
  BY BusyFormKeeps DEF handleFiles, storage

(* A number that was not used yet. *)
LEMMA NewNumber ==
    ASSUME MediaAssumption, MediaInv, uploads < MaxUploads
    PROVE  LET n == uploads + 1
           IN  /\ n \in Files /\ n \notin 1 .. uploads /\ n \notin files \cup deleting \cup copied \cup cutOut \cup strayed
               /\ 1 .. n = (1 .. uploads) \cup {n} /\ n \in 0 .. MaxUploads
               /\ \A p \in Shelf : ~Named(n, p)
<1>1. uploads \in 0 .. MaxUploads /\ MaxUploads \in Nat
  BY MediaTypes, MediaAssumption DEF MediaAssumption
<1>2. /\ uploads + 1 \in Files /\ uploads + 1 \notin 1 .. uploads /\ uploads + 1 \in 0 .. MaxUploads
      /\ 1 .. (uploads + 1) = (1 .. uploads) \cup {uploads + 1}
  BY <1>1 DEF Files
<1> QED BY <1>2 DEF MediaInv, UploadedOK

(* The answer to an upload is lost: nobody knows of the file. *)
LEMMA LostKeeps ==
    ASSUME MediaAssumption, MediaInv, NEW f \in Forms, IsOpen(f), uploads < MaxUploads,
           uploads' = uploads + 1, files' = files \cup {uploads + 1}, strayed' = strayed \cup {uploads + 1},
           form' = [form EXCEPT ![f].uploading = FALSE],
           UNCHANGED <<productMedia, deleting, replacing, copied, cutOut, interleaved>>
    PROVE  MediaInv'
<1> PICK n : n = uploads + 1
  OBVIOUS
<1>1. /\ n \in Files /\ n \notin files \cup deleting \cup copied \cup cutOut \cup strayed
      /\ uploads' = n /\ 1 .. n = (1 .. uploads) \cup {n} /\ n \in 0 .. MaxUploads
      /\ files' = files \cup {n} /\ strayed' = strayed \cup {n}
      /\ \A p \in Shelf : ~Named(n, p)
  BY NewNumber
<1>2. PICK d : d = [form[f] EXCEPT !.uploading = FALSE]
  OBVIOUS
<1>3. form[f] \in [open : {TRUE}, of : Shelf, value : SUBSET Files, session : SUBSET Files,
                   uploading : BOOLEAN]
  <2>1. ~NotOpen.open
    BY DEF NotOpen
  <2> QED BY <2>1, MediaTypes DEF ProductForm, IsOpen
<1>4. /\ d \in ProductForm /\ d.open /\ d.of = form[f].of /\ d.value = form[f].value
      /\ d.session = form[f].session
  BY <1>2, <1>3 DEF ProductForm
<1>5. /\ form' = [form EXCEPT ![f] = d] /\ form \in [Forms -> ProductForm]
  BY <1>2, MediaTypes
<1>6. /\ form' \in [Forms -> ProductForm]
      /\ form'[f] = d /\ \A g \in Forms : g # f => form'[g] = form[g]
  BY <1>4, <1>5
<1>7. /\ \A g \in Forms : IsOpen(g)' <=> IsOpen(g)
      /\ \A g \in Forms : IsOpen(g) => /\ form'[g].of = form[g].of /\ form'[g].value = form[g].value
                                       /\ form'[g].session = form[g].session
  BY <1>4, <1>6 DEF IsOpen
<1>8. MediaRows'
  BY <1>1, <1>6 DEF MediaInv, MediaRows
<1>9. \A u \in Files, q \in Shelf : Named(u, q)' <=> Named(u, q)
  BY <1>7 DEF Named, Replaces
<1>10. UploadedOK'
  BY <1>1, <1>7, <1>9 DEF MediaInv, UploadedOK
<1>11. HomeOK' /\ CutOK'
  BY <1>1, <1>9 DEF MediaInv, HomeOK, CutOK
<1>12. ASSUME Sound PROVE Sound'
  <2>1. /\ \A g, u : Drops(g, u)' <=> Drops(g, u)
        /\ \A u : InRows(u)' = InRows(u) /\ BeingSaved(u)' = BeingSaved(u)
        /\ \A u : u # n => (OffStorage(u)' <=> OffStorage(u))
        /\ \A u : Shows(u)' = Shows(u)
        /\ ~OffStorage(n)'
    BY <1>1, <1>7 DEF Drops, Filling, InRows, BeingSaved, OffStorage, Shows
  <2>2. AloneOK'
    BY <1>12 DEF Sound, AloneOK, Replaces, Filling
  <2>3. ShownOK'
    <3> SUFFICES ASSUME NEW g \in Forms, NEW u \in Files \ (copied \cup cutOut), IsOpen(g)',
                        u \in form'[g].value \ form'[g].session
                 PROVE  \/ u \in productMedia[form'[g].of]
                        \/ \E h \in Forms : Drops(h, u) /\ replacing[h].of = form'[g].of
      BY <2>1 DEF ShownOK
    <3> QED BY <1>7, <1>12 DEF Sound, ShownOK
  <2>4. GoneOK' /\ NeededOK'
    BY <1>1, <1>12, <2>1 DEF Sound, GoneOK, NeededOK
  <2> QED BY <2>2, <2>3, <2>4 DEF Sound
<1> QED BY <1>8, <1>10, <1>11, <1>12 DEF MediaInv

(* An upload whose form was left ends: nobody knows of the file. *)
LEMMA AdriftKeeps ==
    ASSUME MediaAssumption, MediaInv, AdriftEnds
    PROVE  MediaInv'
<1>u. UNCHANGED <<productMedia, form, deleting, replacing, copied, cutOut, interleaved>>
  BY DEF AdriftEnds
<1>1. CASE UNCHANGED <<files, uploads, strayed>>
  <2>1. UNCHANGED mediaHistory
    BY <1>u, <1>1 DEF mediaHistory
  <2>2. \A g \in Forms : IsOpen(g)' <=> IsOpen(g)
    BY <1>u DEF IsOpen
  <2> QED BY <1>u, <1>1, <2>1, <2>2, MediaTypes, ShownKeeps
<1>2. CASE /\ uploads < MaxUploads /\ uploads' = uploads + 1
           /\ files' = files \cup {uploads + 1} /\ strayed' = strayed \cup {uploads + 1}
  <2> PICK n : n = uploads + 1
    OBVIOUS
  <2>1. /\ n \in Files /\ n \notin files \cup deleting \cup copied \cup cutOut \cup strayed
        /\ uploads' = n /\ 1 .. n = (1 .. uploads) \cup {n} /\ n \in 0 .. MaxUploads
        /\ files' = files \cup {n} /\ strayed' = strayed \cup {n}
    BY <1>2, NewNumber
  <2>2. MediaRows'
    BY <1>u, <2>1 DEF MediaInv, MediaRows
  <2>3. /\ \A u \in Files, q \in Shelf : Named(u, q)' <=> Named(u, q)
        /\ \A g \in Forms : IsOpen(g)' <=> IsOpen(g)
    BY <1>u DEF Named, Replaces, IsOpen
  <2>4. UploadedOK' /\ HomeOK' /\ CutOK'
    BY <1>u, <2>1, <2>3 DEF MediaInv, UploadedOK, HomeOK, CutOK
  <2>5. ASSUME Sound PROVE Sound'
    <3>1. /\ \A g, u : Drops(g, u)' <=> Drops(g, u)
          /\ \A u : InRows(u)' = InRows(u) /\ BeingSaved(u)' = BeingSaved(u) /\ Shows(u)' = Shows(u)
          /\ \A u : u # n => (OffStorage(u)' <=> OffStorage(u))
          /\ ~OffStorage(n)'
      BY <1>u, <2>1 DEF Drops, Filling, InRows, BeingSaved, OffStorage, Shows, IsOpen
    <3>2. AloneOK'
      BY <1>u, <2>5 DEF Sound, AloneOK, Replaces, Filling
    <3>3. ShownOK'
      BY <1>u, <2>3, <2>5, <3>1 DEF Sound, ShownOK
    <3>4. GoneOK' /\ NeededOK'
      BY <1>u, <2>1, <2>5, <3>1 DEF Sound, GoneOK, NeededOK
    <3> QED BY <3>2, <3>3, <3>4 DEF Sound
  <2> QED BY <1>u, <2>2, <2>4, <2>5 DEF MediaInv
<1> QED BY <1>1, <1>2 DEF AdriftEnds, storage

(* An open form that shows and owns other files than before. *)
LEMMA Reshown ==
    ASSUME MediaInv, NEW f \in Forms, IsOpen(f), NEW v \in SUBSET Files, NEW s \in SUBSET Files,
           NEW b \in BOOLEAN,
           form' = [form EXCEPT ![f] = [@ EXCEPT !.uploading = b, !.value = v, !.session = s]]
    PROVE  /\ form' \in [Forms -> ProductForm]
           /\ form'[f].of = form[f].of /\ form'[f].value = v /\ form'[f].session = s
           /\ \A g \in Forms : g # f => form'[g] = form[g]
           /\ \A g \in Forms : IsOpen(g)' <=> IsOpen(g)
<1>1. PICK d : d = [form[f] EXCEPT !.uploading = b, !.value = v, !.session = s]
  OBVIOUS
<1>2. form[f] \in [open : {TRUE}, of : Shelf, value : SUBSET Files, session : SUBSET Files,
                   uploading : BOOLEAN]
  <2>1. ~NotOpen.open
    BY DEF NotOpen
  <2> QED BY <2>1, MediaTypes DEF ProductForm, IsOpen
<1>3. d \in ProductForm /\ d.open /\ d.of = form[f].of /\ d.value = v /\ d.session = s
  BY <1>1, <1>2 DEF ProductForm
<1>4. form' = [form EXCEPT ![f] = d] /\ form \in [Forms -> ProductForm]
  BY <1>1, MediaTypes
<1>5. /\ form' \in [Forms -> ProductForm]
      /\ form'[f] = d /\ \A g \in Forms : g # f => form'[g] = form[g]
  BY <1>3, <1>4
<1> QED BY <1>3, <1>5 DEF IsOpen

LEMMA UploadKeeps ==
    ASSUME MediaAssumption, MediaInv, NEW f \in Forms, IsOpen(f), uploads < MaxUploads,
           uploads' = uploads + 1, files' = files \cup {uploads + 1},
           form' = [form EXCEPT ![f].uploading = FALSE, ![f].value = @ \cup {uploads + 1},
                                ![f].session = @ \cup {uploads + 1}],
           UNCHANGED <<productMedia, deleting, replacing, mediaHistory>>
    PROVE  MediaInv'
<1> PICK n : n = uploads + 1
  OBVIOUS
<1>0. UNCHANGED <<copied, cutOut, interleaved, strayed>>
  BY DEF mediaHistory
<1>1. /\ n \in Files /\ n \notin files \cup deleting \cup copied \cup cutOut \cup strayed
      /\ uploads' = n /\ 1 .. n = (1 .. uploads) \cup {n} /\ n \in 0 .. MaxUploads
      /\ files' = files \cup {n}
      /\ \A p \in Shelf : ~Named(n, p)
  BY NewNumber
<1>2. /\ form[f].of \in Shelf /\ form[f].value \cup {n} \in SUBSET Files
      /\ form[f].session \cup {n} \in SUBSET Files
  BY <1>1, MediaTypes
<1>3. /\ form' \in [Forms -> ProductForm]
      /\ form'[f].of = form[f].of /\ form'[f].value = form[f].value \cup {n}
      /\ form'[f].session = form[f].session \cup {n}
      /\ \A g \in Forms : g # f => form'[g] = form[g]
      /\ \A g \in Forms : IsOpen(g)' <=> IsOpen(g)
  <2>1. PICK d : d = [form[f] EXCEPT !.uploading = FALSE, !.value = @ \cup {n}, !.session = @ \cup {n}]
    OBVIOUS
  <2>2. form[f] \in [open : {TRUE}, of : Shelf, value : SUBSET Files, session : SUBSET Files,
                     uploading : BOOLEAN]
    <3>1. ~NotOpen.open
      BY DEF NotOpen
    <3> QED BY <3>1, MediaTypes DEF ProductForm, IsOpen
  <2>3. /\ d \in ProductForm /\ d.open /\ d.of = form[f].of /\ d.value = form[f].value \cup {n}
        /\ d.session = form[f].session \cup {n}
    BY <1>1, <2>1, <2>2 DEF ProductForm
  <2>4. form' = [form EXCEPT ![f] = d] /\ form \in [Forms -> ProductForm]
    BY <2>1, MediaTypes
  <2>5. /\ form' \in [Forms -> ProductForm]
        /\ form'[f] = d /\ \A g \in Forms : g # f => form'[g] = form[g]
    BY <2>3, <2>4
  <2> QED BY <2>3, <2>5 DEF IsOpen
<1>4. MediaRows'
  BY <1>1, <1>3 DEF MediaInv, MediaRows
<1>5. /\ \A u \in Files, q \in Shelf : u # n => (Named(u, q)' => Named(u, q))
      /\ \A q \in Shelf : Named(n, q)' => q = form[f].of
  BY <1>1, <1>3 DEF Named, Replaces
<1>6. UploadedOK'
  <2>1. files' \cup deleting' \cup copied' \cup cutOut' \cup strayed' \subseteq 1 .. uploads'
    BY <1>1 DEF MediaInv, UploadedOK, mediaHistory
  <2>2. \A u \in Files, p \in Shelf : Named(u, p)' => u \in 1 .. uploads'
    BY <1>1, <1>5 DEF MediaInv, UploadedOK
  <2>3. \A g \in Forms : IsOpen(g)' => form'[g].session \subseteq form'[g].value
    BY <1>3 DEF MediaInv, UploadedOK
  <2>4. \A g \in Forms : g # f /\ IsOpen(g) => n \notin form[g].session
    BY <1>1, MediaTypes DEF MediaInv, UploadedOK, Named
  <2>5. \A g, h \in Forms : IsOpen(g)' /\ IsOpen(h)' /\ form'[g].session \cap form'[h].session # {} => g = h
    BY <1>3, <2>4 DEF MediaInv, UploadedOK
  <2> QED BY <2>1, <2>2, <2>3, <2>5 DEF UploadedOK
<1>7. HomeOK' /\ CutOK'
  BY <1>1, <1>5 DEF MediaInv, HomeOK, CutOK, mediaHistory
<1>8. ASSUME Sound PROVE Sound'
  <2>1. /\ \A g, u : Drops(g, u)' <=> Drops(g, u)
        /\ \A u : InRows(u)' = InRows(u) /\ BeingSaved(u)' = BeingSaved(u)
        /\ \A u : u # n => (OffStorage(u)' <=> OffStorage(u)) /\ Shows(u)' = Shows(u)
        /\ ~OffStorage(n)' /\ f \in Shows(n)'
    BY <1>1, <1>3 DEF Drops, Filling, InRows, BeingSaved, OffStorage, Shows
  <2>2. AloneOK'
    BY <1>8 DEF Sound, AloneOK, Replaces, Filling
  <2>3. ShownOK'
    <3>1. ASSUME NEW g \in Forms, NEW u \in Files \ (copied \cup cutOut), IsOpen(g)',
                 u \in form'[g].value \ form'[g].session
          PROVE  \/ u \in productMedia[form'[g].of]
                 \/ \E h \in Forms : Drops(h, u) /\ replacing[h].of = form'[g].of
      BY <1>3, <1>8, <3>1 DEF Sound, ShownOK
    <3>2. UNCHANGED <<productMedia, replacing, copied, cutOut>>
      BY <1>0
    <3> QED BY ONLY <2>1, <3>1, <3>2 DEF ShownOK
  <2>4. GoneOK' /\ NeededOK'
    BY <1>1, <1>8, <2>1 DEF Sound, GoneOK, NeededOK, mediaHistory
  <2> QED BY <2>2, <2>3, <2>4 DEF Sound
<1> QED BY <1>4, <1>6, <1>7, <1>8 DEF MediaInv, mediaHistory

LEMMA UploadEndKeeps ==
    ASSUME MediaAssumption, MediaInv, NEW f \in Forms, UploadEnds(f)
    PROVE  MediaInv'
  BY UploadKeeps, LostKeeps, BusyFormKeeps DEF UploadEnds, storage, mediaHistory

(* An address typed by hand is anybody's. *)
LEMMA TypedKeeps ==
    ASSUME MediaAssumption, MediaInv, NEW f \in Forms, NEW u \in Files, TypeUrl(f, u)
    PROVE  MediaInv'
<1>0. /\ IsOpen(f) /\ u \in 1 .. uploads /\ copied' = copied \cup {u}
      /\ UNCHANGED <<files, uploads, productMedia, deleting, replacing, cutOut, interleaved, strayed>>
  BY DEF TypeUrl, storage
<1>1. /\ form' \in [Forms -> ProductForm]
      /\ form'[f].of = form[f].of /\ form'[f].value = form[f].value \cup {u}
      /\ form'[f].session = form[f].session
      /\ \A g \in Forms : g # f => form'[g] = form[g]
      /\ \A g \in Forms : IsOpen(g)' <=> IsOpen(g)
  <2>1. form[f].value \cup {u} \in SUBSET Files /\ form[f].session \in SUBSET Files
        /\ form[f].uploading \in BOOLEAN
    BY <1>0, MediaTypes
  <2>2. form[f] \in [open : {TRUE}, of : Shelf, value : SUBSET Files, session : SUBSET Files,
                     uploading : BOOLEAN]
    <3>1. ~NotOpen.open
      BY DEF NotOpen
    <3> QED BY <1>0, <3>1, MediaTypes DEF ProductForm, IsOpen
  <2>3. form' = [form EXCEPT ![f] = [@ EXCEPT !.uploading = form[f].uploading,
                                              !.value = form[f].value \cup {u},
                                              !.session = form[f].session]]
    BY <2>2, MediaTypes DEF TypeUrl
  <2> QED BY <1>0, <2>1, <2>3, Reshown
<1>2. MediaRows'
  BY <1>0, <1>1 DEF MediaInv, MediaRows
<1>3. \A w \in Files, q \in Shelf : w # u => (Named(w, q)' => Named(w, q))
  BY <1>0, <1>1 DEF Named, Replaces
<1>4. UploadedOK'
  BY <1>0, <1>1, <1>3 DEF MediaInv, UploadedOK
<1>5. HomeOK' /\ CutOK'
  BY <1>0, <1>3 DEF MediaInv, HomeOK, CutOK
<1>6. ASSUME Sound PROVE Sound'
  <2>1. /\ \A g, w : Drops(g, w)' <=> Drops(g, w)
        /\ \A w : InRows(w)' = InRows(w) /\ BeingSaved(w)' = BeingSaved(w)
        /\ \A w : OffStorage(w)' <=> OffStorage(w)
        /\ \A w : w # u => Shows(w)' = Shows(w)
    BY <1>0, <1>1 DEF Drops, Filling, InRows, BeingSaved, OffStorage, Shows
  <2>2. AloneOK'
    BY <1>0, <1>6 DEF Sound, AloneOK, Replaces, Filling
  <2>3. ShownOK'
    <3> SUFFICES ASSUME NEW g \in Forms, NEW w \in Files \ (copied' \cup cutOut), IsOpen(g)',
                        w \in form'[g].value \ form'[g].session
                 PROVE  \/ w \in productMedia[form'[g].of]
                        \/ \E h \in Forms : Drops(h, w) /\ replacing[h].of = form'[g].of
      BY <1>0, <2>1 DEF ShownOK
    <3>1. w \notin copied /\ w # u /\ w \in form[g].value \ form[g].session /\ form'[g].of = form[g].of
      BY <1>0, <1>1
    <3> QED BY <1>1, <1>6, <3>1 DEF Sound, ShownOK
  <2>4. GoneOK' /\ NeededOK'
    BY <1>0, <1>6, <2>1 DEF Sound, GoneOK, NeededOK
  <2> QED BY <2>2, <2>3, <2>4 DEF Sound
<1> QED BY <1>0, <1>2, <1>4, <1>5, <1>6 DEF MediaInv

(* A file of this visit is deleted at once: it is in no rows and no save, or *)
(* it is cut out; another form that shows it does not own it.                *)
LEMMA RemoveKeeps ==
    ASSUME MediaAssumption, MediaInv, NEW f \in Forms, NEW u \in Files, removeImage(f, u)
    PROVE  MediaInv'
<1>0. /\ IsOpen(f) /\ u \in form[f].value
      /\ UNCHANGED <<files, uploads, productMedia, replacing, copied, interleaved, strayed>>
      /\ \/ /\ u \in form[f].session /\ deleting' = deleting \cup {u}
            /\ cutOut \subseteq cutOut' /\ cutOut' \subseteq cutOut \cup {u}
            /\ InRows(u) \cup BeingSaved(u) # {} => u \in cutOut'
         \/ u \notin form[f].session /\ deleting' = deleting /\ cutOut' = cutOut
  BY DEF removeImage, storage
<1>1. /\ form' \in [Forms -> ProductForm]
      /\ form'[f].of = form[f].of /\ form'[f].value = form[f].value \ {u}
      /\ form'[f].session = form[f].session \ {u}
      /\ \A g \in Forms : g # f => form'[g] = form[g]
      /\ \A g \in Forms : IsOpen(g)' <=> IsOpen(g)
  <2>1. PICK d : d = [form[f] EXCEPT !.value = @ \ {u}, !.session = @ \ {u}]
    OBVIOUS
  <2>2. form[f] \in [open : {TRUE}, of : Shelf, value : SUBSET Files, session : SUBSET Files,
                     uploading : BOOLEAN]
    <3>1. ~NotOpen.open
      BY DEF NotOpen
    <3> QED BY <1>0, <3>1, MediaTypes DEF ProductForm, IsOpen
  <2>3. /\ d \in ProductForm /\ d.open /\ d.of = form[f].of /\ d.value = form[f].value \ {u}
        /\ d.session = form[f].session \ {u}
    BY <2>1, <2>2 DEF ProductForm
  <2>4. form' = [form EXCEPT ![f] = d] /\ form \in [Forms -> ProductForm]
    BY <2>1, MediaTypes DEF removeImage
  <2>5. /\ form' \in [Forms -> ProductForm]
        /\ form'[f] = d /\ \A g \in Forms : g # f => form'[g] = form[g]
    BY <2>3, <2>4
  <2> QED BY <1>0, <2>3, <2>5 DEF IsOpen
<1>2. MediaRows'
  BY <1>0, <1>1 DEF MediaInv, MediaRows
<1>3. \A w \in Files, q \in Shelf : Named(w, q)' => Named(w, q)
  BY <1>0, <1>1 DEF Named, Replaces
<1>4. u \in 1 .. uploads
  BY <1>0, MediaTypes DEF MediaInv, UploadedOK, Named
<1>5. UploadedOK'
  <2>1. files' \cup deleting' \cup copied' \cup cutOut' \cup strayed' \subseteq 1 .. uploads'
    BY <1>0, <1>4 DEF MediaInv, UploadedOK
  <2>2. \A w \in Files, p \in Shelf : Named(w, p)' => w \in 1 .. uploads'
    BY <1>0, <1>3 DEF MediaInv, UploadedOK
  <2>3. \A g \in Forms : IsOpen(g)' => form'[g].session \subseteq form'[g].value
    BY <1>1 DEF MediaInv, UploadedOK
  <2>4. \A g, h \in Forms : IsOpen(g)' /\ IsOpen(h)' /\ form'[g].session \cap form'[h].session # {} => g = h
    BY <1>1 DEF MediaInv, UploadedOK
  <2> QED BY <2>1, <2>2, <2>3, <2>4 DEF UploadedOK
<1>6. HomeOK' /\ CutOK'
  BY <1>0, <1>3 DEF MediaInv, HomeOK, CutOK
<1>7. ASSUME Sound PROVE Sound'
  <2>1. /\ \A g, w : Drops(g, w)' <=> Drops(g, w)
        /\ \A w : InRows(w)' = InRows(w) /\ BeingSaved(w)' = BeingSaved(w)
        /\ \A w : Shows(w)' \subseteq Shows(w)
        /\ \A w : w # u => (OffStorage(w)' <=> OffStorage(w)) /\ Shows(w)' = Shows(w)
        /\ f \notin Shows(u)'
    BY <1>0, <1>1 DEF Drops, Filling, InRows, BeingSaved, OffStorage, Shows
  <2>2. AloneOK'
    BY <1>0, <1>7 DEF Sound, AloneOK, Replaces, Filling
  <2>3. ShownOK'
    <3>1. ASSUME NEW g \in Forms, NEW w \in Files \ (copied \cup cutOut'), IsOpen(g)',
                 w \in form'[g].value \ form'[g].session
          PROVE  \/ w \in productMedia[form'[g].of]
                 \/ \E h \in Forms : Drops(h, w) /\ replacing[h].of = form'[g].of
      BY <1>0, <1>1, <1>7, <3>1 DEF Sound, ShownOK
    <3>2. UNCHANGED <<productMedia, replacing, copied>>
      BY <1>0
    <3> QED BY ONLY <2>1, <3>1, <3>2 DEF ShownOK
  <2>4. GoneOK'
    <3>1. ASSUME NEW w \in 1 .. uploads \ (copied \cup cutOut'), OffStorage(w)'
          PROVE  /\ InRows(w) = {} /\ BeingSaved(w) = {}
                 /\ Shows(w)' # {} => \E g \in Forms : Drops(g, w)
      <4>1. CASE OffStorage(w)
        BY <1>0, <1>7, <2>1, <4>1, <3>1 DEF Sound, GoneOK
      <4>2. CASE ~OffStorage(w)
        <5>1. w = u /\ u \in form[f].session /\ InRows(u) = {} /\ BeingSaved(u) = {} /\ u \notin cutOut
          BY <1>0, <2>1, <3>1, <4>2 DEF OffStorage
        <5>2. ASSUME NEW g \in Shows(u)' PROVE \E h \in Forms : Drops(h, u)
          <6>1. g \in Forms /\ g # f /\ IsOpen(g) /\ u \in form[g].value
            BY <2>1, <5>2 DEF Shows
          <6>2. u \notin form[g].session
            BY <1>0, <5>1, <6>1 DEF MediaInv, UploadedOK
          <6>3. form[g].of \in Shelf
            BY <6>1, MediaTypes
          <6> QED BY <1>7, <3>1, <5>1, <6>1, <6>2, <6>3 DEF Sound, ShownOK, InRows
        <5> QED BY <5>1, <5>2
      <4> QED BY <4>1, <4>2
    <3> QED BY ONLY <1>0, <2>1, <3>1 DEF GoneOK
  <2>5. NeededOK'
    <3>1. ASSUME NEW w \in files \ (copied \cup strayed), InRows(w) = {}, BeingSaved(w) = {},
                 Shows(w)' = {}, w \notin deleting'
          PROVE  \E g \in Forms : Drops(g, w)
      <4>1. CASE w # u
        BY <1>0, <1>7, <2>1, <3>1, <4>1 DEF Sound, NeededOK
      <4>2. CASE w = u
        <5>1. u \notin form[f].session /\ u \notin deleting
          BY <1>0, <3>1, <4>2
        <5>2. u \notin cutOut
          BY <3>1, <4>2, <5>1 DEF MediaInv, CutOK
        <5>3. form[f].of \in Shelf
          BY <1>0, MediaTypes
        <5> QED BY <1>0, <1>7, <3>1, <4>2, <5>1, <5>2, <5>3 DEF Sound, ShownOK, InRows
      <4> QED BY <4>1, <4>2
    <3> QED BY ONLY <1>0, <2>1, <3>1 DEF NeededOK
  <2> QED BY <2>2, <2>3, <2>4, <2>5 DEF Sound
<1> QED BY <1>0, <1>2, <1>5, <1>6, <1>7 DEF MediaInv

(* A replacement begins: what it writes the form shows already, or its       *)
(* address was copied.                                                       *)
LEMMA BeginKeeps ==
    ASSUME MediaAssumption, MediaInv, NEW f \in Forms, NEW p \in Shelf, NEW urls \in SUBSET Files,
           Begins(f, p, urls),
           UNCHANGED <<files, uploads, productMedia, form, deleting, cutOut, strayed>>,
           copied \subseteq copied', copied' \subseteq copied \cup urls, urls \subseteq 1 .. uploads,
           \A u \in urls \ copied' : IsOpen(f) /\ form[f].of = p /\ u \in form[f].value
    PROVE  MediaInv'
<1>0. /\ ~Replaces(f) /\ ~Filling(f)
      /\ replacing' \in [Forms -> Replacement] /\ Replaces(f)' /\ ~Filling(f)' /\ replacing'[f].at = "read"
      /\ replacing'[f].of = p /\ replacing'[f].urls = urls /\ replacing'[f].previous = {}
      /\ \A g \in Forms : g # f => replacing'[g] = replacing[g]
      /\ ~interleaved' => ~interleaved /\ Replacing(p) = {}
  <2>1. PICK d : d = [at |-> "read", of |-> p, urls |-> urls, previous |-> {}]
    OBVIOUS
  <2>2. /\ d.at = "read" /\ d.of = p /\ d.urls = urls /\ d.previous = {}
        /\ d \in Replacement
    BY <2>1 DEF Replacement
  <2>3. replacing' = [replacing EXCEPT ![f] = d] /\ replacing \in [Forms -> Replacement]
    BY <2>1, MediaTypes DEF Begins
  <2>4. /\ replacing' \in [Forms -> Replacement]
        /\ replacing'[f] = d /\ \A g \in Forms : g # f => replacing'[g] = replacing[g]
    BY <2>2, <2>3
  <2>5. ~Replaces(f) /\ ~Filling(f) /\ (~interleaved' => ~interleaved /\ Replacing(p) = {})
    <3>1. replacing[f] = Idling /\ (interleaved' <=> (interleaved \/ Replacing(p) # {}))
      BY DEF Begins
    <3>2. replacing[f].at = "idle"
      BY <3>1 DEF Idling
    <3> QED BY ONLY <3>1, <3>2 DEF Replaces, Filling
  <2> QED BY <2>2, <2>4, <2>5 DEF Replaces, Filling
<1>1. MediaRows'
  BY <1>0 DEF MediaInv, MediaRows
<1>2. \A u \in Files, q \in Shelf : Named(u, q)' => Named(u, q) \/ (u \in urls /\ q = p)
  BY <1>0 DEF Named, Replaces, IsOpen
<1>3. \A u \in Files \ copied', q \in Shelf : Named(u, q)' => Named(u, q)
  BY <1>2 DEF Named
<1>4. UploadedOK'
  <2>1. files' \cup deleting' \cup copied' \cup cutOut' \cup strayed' \subseteq 1 .. uploads'
    BY DEF MediaInv, UploadedOK
  <2>2. \A u \in Files, q \in Shelf : Named(u, q)' => u \in 1 .. uploads'
    BY <1>2 DEF MediaInv, UploadedOK
  <2>3. /\ \A g \in Forms : IsOpen(g)' => form'[g].session \subseteq form'[g].value
        /\ \A g, h \in Forms : IsOpen(g)' /\ IsOpen(h)' /\ form'[g].session \cap form'[h].session # {} => g = h
    BY DEF MediaInv, UploadedOK, IsOpen
  <2> QED BY <2>1, <2>2, <2>3 DEF UploadedOK
<1>5. HomeOK' /\ CutOK'
  BY <1>3 DEF MediaInv, HomeOK, CutOK
<1>6. ASSUME Sound, Replacing(p) = {} PROVE Sound'
  <2>1. /\ \A g \in Forms : \A u : Drops(g, u)' <=> Drops(g, u)
        /\ \A g \in Forms : \A u : Drops(g, u) => g # f
        /\ \A u : InRows(u)' = InRows(u) /\ Shows(u)' = Shows(u) /\ BeingSaved(u) \subseteq BeingSaved(u)'
        /\ \A u : u \notin urls => BeingSaved(u)' = BeingSaved(u)
        /\ \A u : OffStorage(u)' <=> OffStorage(u)
    BY <1>0 DEF Drops, Filling, InRows, BeingSaved, OffStorage, Shows, IsOpen, Replaces
  <2>2. AloneOK'
    <3>1. \A g \in Forms : Replaces(g) => replacing[g].of # p
      BY <1>6 DEF Replacing, Replaces
    <3>2. \A g \in Forms : g # f => (Replaces(g)' <=> Replaces(g)) /\ (Filling(g)' <=> Filling(g))
      BY <1>0 DEF Replaces, Filling
    <3>3. \A g, h \in Forms : Replaces(g)' /\ Replaces(h)' /\ replacing'[g].of = replacing'[h].of => g = h
      BY <1>0, <1>6, <3>1, <3>2 DEF Sound, AloneOK
    <3>4. \A g \in Forms : /\ replacing'[g].at = "clear" => replacing'[g].previous = productMedia[replacing'[g].of]
                           /\ Filling(g)' => productMedia[replacing'[g].of] = {}
      BY <1>0, <1>6, <3>2 DEF Sound, AloneOK
    <3> QED BY <3>3, <3>4 DEF AloneOK
  <2>3. ShownOK'
    <3>1. ASSUME NEW g \in Forms, NEW u \in Files \ (copied' \cup cutOut), IsOpen(g),
                 u \in form[g].value \ form[g].session
          PROVE  \/ u \in productMedia[form[g].of]
                 \/ \E h \in Forms : Drops(h, u)' /\ replacing'[h].of = form[g].of
      BY <1>0, <1>6, <2>1, <3>1 DEF Sound, ShownOK
    <3>2. UNCHANGED <<productMedia, form, cutOut>>
      OBVIOUS
    <3> QED BY ONLY <3>1, <3>2 DEF ShownOK, IsOpen
  <2>4. GoneOK'
    <3>1. ASSUME NEW u \in 1 .. uploads \ (copied' \cup cutOut), OffStorage(u)
          PROVE  /\ InRows(u) = {} /\ BeingSaved(u)' = {}
                 /\ Shows(u) # {} => \E g \in Forms : Drops(g, u)
      <4>1. InRows(u) = {} /\ BeingSaved(u) = {} /\ (Shows(u) # {} => \E g \in Forms : Drops(g, u))
        BY <1>6, <3>1 DEF Sound, GoneOK
      <4>2. u \notin urls
        <5> SUFFICES ASSUME u \in urls PROVE FALSE
          OBVIOUS
        <5>1. /\ IsOpen(f) /\ form[f].of = p /\ u \in form[f].value /\ u \notin copied /\ u \in Files
          BY <3>1
        <5>2. PICK g \in Forms : Drops(g, u)
          BY <4>1, <5>1 DEF Shows
        <5>3. Replaces(g) /\ replacing[g].of \in Shelf
          BY <5>2, MediaTypes DEF Drops, Filling, Replaces
        <5>4. Named(u, p) /\ Named(u, replacing[g].of)
          BY <5>1, <5>2, <5>3 DEF Named, Drops
        <5>5. replacing[g].of = p
          BY <5>1, <5>3, <5>4 DEF MediaInv, HomeOK
        <5> QED BY <1>6, <5>3, <5>5 DEF Replacing, Replaces
      <4> QED BY <2>1, <4>1, <4>2
    <3>2. UNCHANGED <<uploads, cutOut>>
      OBVIOUS
    <3> QED BY ONLY <2>1, <3>1, <3>2 DEF GoneOK
  <2>5. NeededOK'
    <3>1. \A u \in files \ (copied \cup strayed) :
             InRows(u) # {} \/ Shows(u) # {} \/ BeingSaved(u) # {} \/ u \in deleting
             \/ \E g \in Forms : Drops(g, u)
      BY <1>6 DEF Sound, NeededOK
    <3>2. UNCHANGED <<files, deleting, strayed>> /\ copied \subseteq copied'
      OBVIOUS
    <3> QED BY ONLY <2>1, <3>1, <3>2 DEF NeededOK
  <2> QED BY <2>2, <2>3, <2>4, <2>5 DEF Sound
<1> QED BY <1>0, <1>1, <1>4, <1>5, <1>6 DEF MediaInv

LEMMA SaveKeeps ==
    ASSUME MediaAssumption, MediaInv, NEW f \in Forms, SaveForm(f)
    PROVE  MediaInv'
<1>1. IsOpen(f) /\ form[f].of \in Shelf /\ form[f].value \in SUBSET Files
  BY MediaTypes DEF SaveForm
<1>2. form[f].value \subseteq 1 .. uploads
  BY <1>1 DEF MediaInv, UploadedOK, Named
<1> QED BY <1>1, <1>2, BeginKeeps DEF SaveForm, storage

LEMMA ImportKeeps ==
    ASSUME MediaAssumption, MediaInv, NEW f \in Forms, NEW p \in Shelf, NEW urls \in SUBSET Files,
           ImportUrls(f, p, urls)
    PROVE  MediaInv'
  BY BeginKeeps DEF ImportUrls, storage

(* The rows are read before they are cleared. *)
LEMMA ReadKeeps ==
    ASSUME MediaAssumption, MediaInv, NEW f \in Forms, ReadPrevious(f)
    PROVE  MediaInv'
<1>0. /\ UNCHANGED <<files, uploads, productMedia, form, deleting, copied, cutOut, interleaved, strayed>>
      /\ Replaces(f) /\ replacing[f].of \in Shelf /\ replacing[f].at = "read"
      /\ replacing'[f].at = "clear" /\ replacing'[f].of = replacing[f].of
      /\ replacing'[f].urls = replacing[f].urls /\ replacing'[f].previous = productMedia[replacing[f].of]
      /\ \A g \in Forms : g # f => replacing'[g] = replacing[g]
      /\ replacing' \in [Forms -> Replacement]
  <2>1. PICK d : d = [replacing[f] EXCEPT !.at = "clear", !.previous = productMedia[replacing[f].of]]
    OBVIOUS
  <2>2. Replaces(f) /\ replacing[f].at = "read" /\ replacing[f].of \in Shelf
    BY MediaTypes DEF ReadPrevious, Replaces
  <2>3. replacing[f] \in [at : {"read", "clear", "fill"}, of : Shelf, urls : SUBSET Files,
                          previous : SUBSET Files]
    BY <2>2, MediaTypes DEF Replacement, Idling, Replaces
  <2>4. /\ d.at = "clear" /\ d.of = replacing[f].of /\ d.urls = replacing[f].urls
        /\ d.previous = productMedia[replacing[f].of] /\ d \in Replacement
    BY <2>1, <2>2, <2>3, MediaTypes DEF Replacement
  <2>5. replacing' = [replacing EXCEPT ![f] = d] /\ replacing \in [Forms -> Replacement]
    BY <2>1, MediaTypes DEF ReadPrevious
  <2>6. /\ replacing' \in [Forms -> Replacement]
        /\ replacing'[f] = d /\ \A g \in Forms : g # f => replacing'[g] = replacing[g]
    BY <2>4, <2>5
  <2>7. UNCHANGED <<files, uploads, productMedia, form, deleting, copied, cutOut, interleaved, strayed>>
    BY DEF ReadPrevious, storage, mediaHistory
  <2> QED BY <2>2, <2>4, <2>6, <2>7
<1>1. MediaRows'
  BY <1>0 DEF MediaInv, MediaRows
<1>2. \A u \in Files, q \in Shelf : Named(u, q)' => Named(u, q)
  BY <1>0 DEF Named, Replaces, IsOpen
<1>3. UploadedOK'
  BY <1>0, <1>2 DEF MediaInv, UploadedOK, IsOpen
<1>4. HomeOK' /\ CutOK'
  BY <1>0, <1>2 DEF MediaInv, HomeOK, CutOK
<1>5. ASSUME Sound PROVE Sound'
  <2>1. /\ \A g \in Forms : \A u : Drops(g, u)' <=> Drops(g, u)
        /\ \A g \in Forms : replacing'[g].of = replacing[g].of /\ (Replaces(g)' <=> Replaces(g)) /\ (Filling(g)' <=> Filling(g))
        /\ \A u : InRows(u)' = InRows(u) /\ Shows(u)' = Shows(u) /\ BeingSaved(u)' = BeingSaved(u)
        /\ \A u : OffStorage(u)' <=> OffStorage(u)
    BY <1>0 DEF Drops, Filling, InRows, BeingSaved, OffStorage, Shows, IsOpen, Replaces
  <2>2. AloneOK'
    BY <1>0, <1>5, <2>1 DEF Sound, AloneOK
  <2>3. ShownOK' /\ GoneOK' /\ NeededOK'
    BY <1>0, <1>5, <2>1 DEF Sound, ShownOK, GoneOK, NeededOK, IsOpen
  <2> QED BY <2>2, <2>3 DEF Sound
<1> QED BY <1>0, <1>1, <1>3, <1>4, <1>5 DEF MediaInv

(* What the rows named, the replacement that cleared them still knows.       *)
LEMMA ClearKeeps ==
    ASSUME MediaAssumption, MediaInv, NEW f \in Forms, ClearMedia(f)
    PROVE  MediaInv'
<1> PICK p : p = replacing[f].of
  OBVIOUS
<1>0. /\ UNCHANGED <<files, uploads, form, deleting, copied, cutOut, interleaved, strayed>>
      /\ Replaces(f) /\ ~Filling(f) /\ p = replacing[f].of /\ p \in Shelf /\ replacing[f].at = "clear"
      /\ replacing'[f].at = "fill" /\ replacing'[f].of = p
      /\ replacing'[f].urls = replacing[f].urls /\ replacing'[f].previous = replacing[f].previous
      /\ \A g \in Forms : g # f => replacing'[g] = replacing[g]
      /\ replacing' \in [Forms -> Replacement]
      /\ productMedia' = [productMedia EXCEPT ![p] = {}]
      /\ productMedia' \in [Shelf -> SUBSET Files]
      /\ productMedia'[p] = {} /\ \A q \in Shelf : q # p => productMedia'[q] = productMedia[q]
  <2>1. PICK d : d = [replacing[f] EXCEPT !.at = "fill"]
    OBVIOUS
  <2>2. Replaces(f) /\ ~Filling(f) /\ replacing[f].at = "clear" /\ p \in Shelf
    BY MediaTypes DEF ClearMedia, Replaces, Filling
  <2>3. replacing[f] \in [at : {"read", "clear", "fill"}, of : Shelf, urls : SUBSET Files,
                          previous : SUBSET Files]
    BY <2>2, MediaTypes DEF Replacement, Idling, Replaces
  <2>4. /\ d.at = "fill" /\ d.of = p /\ d.urls = replacing[f].urls
        /\ d.previous = replacing[f].previous /\ d \in Replacement
    BY <2>1, <2>3 DEF Replacement
  <2>5. replacing' = [replacing EXCEPT ![f] = d] /\ replacing \in [Forms -> Replacement]
    BY <2>1, MediaTypes DEF ClearMedia
  <2>6. /\ replacing' \in [Forms -> Replacement]
        /\ replacing'[f] = d /\ \A g \in Forms : g # f => replacing'[g] = replacing[g]
    BY <2>4, <2>5
  <2>7. UNCHANGED <<files, uploads, form, deleting, copied, cutOut, interleaved, strayed>>
    BY DEF ClearMedia, storage, mediaHistory
  <2>8. productMedia' = [productMedia EXCEPT ![p] = {}]
    BY DEF ClearMedia
  <2>9. /\ productMedia' \in [Shelf -> SUBSET Files]
        /\ productMedia'[p] = {} /\ \A q \in Shelf : q # p => productMedia'[q] = productMedia[q]
    BY <2>2, <2>8, MediaTypes
  <2> QED BY <2>2, <2>4, <2>6, <2>7, <2>8, <2>9
<1>1. MediaRows'
  BY <1>0 DEF MediaInv, MediaRows
<1>2. \A u \in Files, q \in Shelf : Named(u, q)' => Named(u, q)
  BY <1>0 DEF Named, Replaces, IsOpen
<1>3. UploadedOK'
  BY <1>0, <1>2 DEF MediaInv, UploadedOK, IsOpen
<1>4. HomeOK' /\ CutOK'
  BY <1>0, <1>2 DEF MediaInv, HomeOK, CutOK
<1>5. ASSUME Sound PROVE Sound'
  <2>1. /\ \A g \in Forms : \A u : Drops(g, u) => g # f /\ Drops(g, u)'
        /\ \A u \in productMedia[p] : Drops(f, u)'
        /\ \A g \in Forms : replacing'[g].of = replacing[g].of /\ (Replaces(g)' <=> Replaces(g))
        /\ \A u : Shows(u)' = Shows(u) /\ BeingSaved(u)' = BeingSaved(u) /\ (OffStorage(u)' <=> OffStorage(u))
    <3>1. replacing[f].previous = productMedia[p]
      BY <1>0, <1>5 DEF Sound, AloneOK
    <3> QED BY <1>0, <3>1 DEF Drops, Filling, BeingSaved, OffStorage, Shows, IsOpen, Replaces
  <2>2. \A u : InRows(u)' \subseteq InRows(u)
    BY <1>0 DEF InRows
  <2>3. AloneOK'
    <3>1. \A g, h \in Forms : Replaces(g)' /\ Replaces(h)' /\ replacing'[g].of = replacing'[h].of => g = h
      BY <1>5, <2>1 DEF Sound, AloneOK
    <3>2. ASSUME NEW g \in Forms, g # f, Replaces(g)
          PROVE  replacing[g].of \in Shelf /\ replacing[g].of # p
      BY <1>0, <1>5, <3>2, MediaTypes DEF Sound, AloneOK
    <3>3. \A g \in Forms : /\ replacing'[g].at = "clear" => replacing'[g].previous = productMedia'[replacing'[g].of]
                           /\ Filling(g)' => productMedia'[replacing'[g].of] = {}
      BY <1>0, <1>5, <3>2 DEF Sound, AloneOK, Filling, Replaces
    <3> QED BY <3>1, <3>3 DEF AloneOK
  <2>4. ShownOK'
    <3>1. ASSUME NEW g \in Forms, NEW u \in Files \ (copied \cup cutOut), IsOpen(g),
                 u \in form[g].value \ form[g].session
          PROVE  \/ u \in productMedia'[form[g].of]
                 \/ \E h \in Forms : Drops(h, u)' /\ replacing'[h].of = form[g].of
      <4>1. form[g].of \in Shelf
        BY <3>1, MediaTypes
      <4>2. CASE u \in productMedia[form[g].of]
        BY <1>0, <2>1, <4>1, <4>2
      <4>3. CASE \E h \in Forms : Drops(h, u) /\ replacing[h].of = form[g].of
        BY <2>1, <4>3
      <4> QED BY <1>5, <3>1, <4>2, <4>3 DEF Sound, ShownOK
    <3>2. UNCHANGED <<form, copied, cutOut>>
      BY <1>0
    <3> QED BY ONLY <3>1, <3>2 DEF ShownOK, IsOpen
  <2>5. GoneOK'
    BY <1>0, <1>5, <2>1, <2>2 DEF Sound, GoneOK
  <2>6. NeededOK'
    <3>1. ASSUME NEW u \in files \ (copied \cup strayed), Shows(u) = {}, BeingSaved(u) = {},
                 u \notin deleting, InRows(u)' = {}
          PROVE  \E g \in Forms : Drops(g, u)'
      <4>1. CASE InRows(u) = {}
        BY <1>5, <2>1, <3>1, <4>1 DEF Sound, NeededOK
      <4>2. CASE InRows(u) # {}
        BY <1>0, <2>1, <3>1, <4>2 DEF InRows
      <4> QED BY <4>1, <4>2
    <3> QED BY ONLY <1>0, <2>1, <3>1 DEF NeededOK
  <2> QED BY <2>3, <2>4, <2>5, <2>6 DEF Sound
<1> QED BY <1>0, <1>1, <1>3, <1>4, <1>5 DEF MediaInv

(* What is written is kept; what is not is deleted, and cut out if anybody   *)
(* still speaks of it.                                                       *)
LEMMA FillKeeps ==
    ASSUME MediaAssumption, MediaInv, NEW f \in Forms, FillMedia(f)
    PROVE  MediaInv'
<1> PICK p : p = replacing[f].of
  OBVIOUS
<1> PICK new : new = replacing[f].urls
  OBVIOUS
<1> PICK old : old = replacing[f].previous
  OBVIOUS
<1>0. /\ UNCHANGED <<files, uploads, form, copied, interleaved, strayed>>
      /\ Replaces(f) /\ Filling(f) /\ p = replacing[f].of /\ p \in Shelf
      /\ new = replacing[f].urls /\ new \subseteq Files /\ old = replacing[f].previous /\ old \subseteq Files
      /\ ~Replaces(f)' /\ ~Filling(f)' /\ replacing'[f].at = "idle"
      /\ \A g \in Forms : g # f => replacing'[g] = replacing[g]
      /\ replacing' \in [Forms -> Replacement]
      /\ productMedia' \in [Shelf -> SUBSET Files]
      /\ productMedia'[p] = productMedia[p] \cup new
      /\ \A q \in Shelf : q # p => productMedia'[q] = productMedia[q]
      /\ deleting' = deleting \cup (old \ new)
      /\ cutOut' = cutOut \cup {u \in old \ new : Shows(u) \cup BeingSaved(u) # {}}
  <2>1. PICK d : d = Idling
    OBVIOUS
  <2>2. d.at = "idle" /\ d \in Replacement
    BY <2>1 DEF Replacement, Idling
  <2>3. Replaces(f) /\ Filling(f) /\ p \in Shelf /\ new \subseteq Files /\ old \subseteq Files
    BY MediaTypes DEF FillMedia, Replaces, Filling
  <2>4. replacing' = [replacing EXCEPT ![f] = d] /\ replacing \in [Forms -> Replacement]
    BY <2>1, MediaTypes DEF FillMedia
  <2>5. /\ replacing' \in [Forms -> Replacement]
        /\ replacing'[f] = d /\ \A g \in Forms : g # f => replacing'[g] = replacing[g]
    BY <2>2, <2>4
  <2>6. ~Replaces(f)' /\ ~Filling(f)'
    BY <2>2, <2>5 DEF Replaces, Filling
  <2>7. UNCHANGED <<files, uploads, form, copied, interleaved, strayed>>
    BY DEF FillMedia, storage
  <2>8. productMedia' = [productMedia EXCEPT ![p] = @ \cup new]
    BY DEF FillMedia
  <2>9. /\ productMedia' \in [Shelf -> SUBSET Files]
        /\ productMedia'[p] = productMedia[p] \cup new
        /\ \A q \in Shelf : q # p => productMedia'[q] = productMedia[q]
    BY <2>3, <2>8, MediaTypes
  <2>10. /\ deleting' = deleting \cup (old \ new)
         /\ cutOut' = cutOut \cup {u \in old \ new : Shows(u) \cup BeingSaved(u) # {}}
    BY DEF FillMedia, cleanupRemovedMedia
  <2> QED BY <2>2, <2>3, <2>5, <2>6, <2>7, <2>9, <2>10
<1>1. MediaRows'
  BY <1>0 DEF MediaInv, MediaRows
<1>2. \A u \in new \cup old : u \in Files /\ Named(u, p)
  BY <1>0 DEF Named
<1>3. \A u \in Files, q \in Shelf : Named(u, q)' => Named(u, q)
  BY <1>0, <1>2 DEF Named, Replaces, IsOpen
<1>4. UploadedOK'
  <2>1. old \subseteq 1 .. uploads
    BY <1>0, <1>2 DEF MediaInv, UploadedOK
  <2> QED BY <1>0, <1>3, <2>1 DEF MediaInv, UploadedOK, IsOpen
<1>5. HomeOK' /\ CutOK'
  BY <1>0, <1>3 DEF MediaInv, HomeOK, CutOK
<1>6. ASSUME Sound PROVE Sound'
  <2>1. /\ \A g \in Forms : \A u : g # f => (Drops(g, u)' <=> Drops(g, u))
        /\ \A g \in Forms : g # f => (Replaces(g)' <=> Replaces(g)) /\ (Filling(g)' <=> Filling(g))
        /\ \A u : Shows(u)' = Shows(u) /\ BeingSaved(u)' = BeingSaved(u) \ {f}
        /\ \A u : OffStorage(u)' <=> (OffStorage(u) \/ u \in old \ new)
    BY <1>0 DEF Drops, Filling, BeingSaved, OffStorage, Shows, IsOpen, Replaces
  <2>2. /\ \A u : InRows(u) \subseteq InRows(u)' /\ InRows(u)' \subseteq InRows(u) \cup {p}
        /\ \A u : u \in new <=> f \in BeingSaved(u)
        /\ \A u \in new : p \in InRows(u)'
        /\ \A u : u \notin new => InRows(u)' = InRows(u)
        /\ \A u : Drops(f, u) <=> u \in old
    BY <1>0 DEF InRows, BeingSaved, Replaces, Drops
  <2>3. productMedia[p] = {}
    BY <1>0, <1>6 DEF Sound, AloneOK
  <2>4. AloneOK'
    <3>1. \A g, h \in Forms : Replaces(g)' /\ Replaces(h)' /\ replacing'[g].of = replacing'[h].of => g = h
      BY <1>0, <1>6, <2>1 DEF Sound, AloneOK
    <3>2. ASSUME NEW g \in Forms, g # f, Replaces(g)
          PROVE  replacing[g].of \in Shelf /\ replacing[g].of # p
      BY <1>0, <1>6, <3>2, MediaTypes DEF Sound, AloneOK
    <3>3. \A g \in Forms : /\ replacing'[g].at = "clear" => replacing'[g].previous = productMedia'[replacing'[g].of]
                           /\ Filling(g)' => productMedia'[replacing'[g].of] = {}
      BY <1>0, <1>6, <3>2 DEF Sound, AloneOK, Filling, Replaces
    <3> QED BY <3>1, <3>3 DEF AloneOK
  <2>5. ShownOK'
    <3>1. ASSUME NEW g \in Forms, NEW u \in Files \ (copied \cup cutOut'), IsOpen(g),
                 u \in form[g].value \ form[g].session
          PROVE  \/ u \in productMedia'[form[g].of]
                 \/ \E h \in Forms : Drops(h, u)' /\ replacing'[h].of = form[g].of
      <4>1. form[g].of \in Shelf /\ g \in Shows(u) /\ u \notin cutOut
        BY <1>0, <3>1, MediaTypes DEF Shows
      <4>2. CASE u \in productMedia[form[g].of]
        BY <1>0, <4>1, <4>2
      <4>3. CASE \E h \in Forms : h # f /\ Drops(h, u) /\ replacing[h].of = form[g].of
        BY <1>0, <2>1, <4>3
      <4>4. CASE Drops(f, u) /\ replacing[f].of = form[g].of
        BY <1>0, <2>2, <3>1, <4>1, <4>4
      <4> QED BY <1>6, <3>1, <4>1, <4>2, <4>3, <4>4 DEF Sound, ShownOK
    <3>2. UNCHANGED <<form, copied>>
      BY <1>0
    <3> QED BY ONLY <3>1, <3>2 DEF ShownOK, IsOpen
  <2>6. GoneOK'
    <3>1. ASSUME NEW u \in 1 .. uploads \ (copied \cup cutOut'), OffStorage(u)'
          PROVE  /\ InRows(u)' = {} /\ BeingSaved(u)' = {}
                 /\ Shows(u)' # {} => \E g \in Forms : Drops(g, u)'
      <4>1. u \notin cutOut /\ (u \in old \ new => Shows(u) = {} /\ BeingSaved(u) = {})
        BY <1>0, <3>1
      <4>2. CASE u \in old \ new
        <5>1. InRows(u) = {}
          <6> SUFFICES ASSUME NEW q \in Shelf, u \in productMedia[q] PROVE FALSE
            BY DEF InRows
          <6>1. Named(u, q) /\ Named(u, p) /\ u \in Files
            BY <1>2, <4>2 DEF Named
          <6>2. q = p
            BY <1>0, <3>1, <6>1 DEF MediaInv, HomeOK
          <6> QED BY <2>3, <6>2
        <5> QED BY <2>1, <2>2, <4>1, <4>2, <5>1
      <4>3. CASE OffStorage(u) /\ u \notin old \ new
        <5>1. InRows(u) = {} /\ BeingSaved(u) = {} /\ (Shows(u) # {} => \E g \in Forms : Drops(g, u))
          BY <1>6, <3>1, <4>1, <4>3 DEF Sound, GoneOK
        <5>2. u \notin new /\ u \notin old
          BY <2>2, <4>3, <5>1
        <5> QED BY <2>1, <2>2, <5>1, <5>2
      <4> QED BY <2>1, <3>1, <4>2, <4>3
    <3>2. UNCHANGED <<uploads, copied>>
      BY <1>0
    <3> QED BY ONLY <3>1, <3>2 DEF GoneOK
  <2>7. NeededOK'
    <3>1. ASSUME NEW u \in files \ (copied \cup strayed), Shows(u) = {}, BeingSaved(u)' = {},
                 u \notin deleting', InRows(u)' = {}
          PROVE  \E g \in Forms : Drops(g, u)'
      <4>1. u \notin new /\ u \notin old /\ u \notin deleting /\ InRows(u) = {} /\ BeingSaved(u) = {}
        BY <1>0, <2>1, <2>2, <3>1
      <4>2. PICK g \in Forms : Drops(g, u)
        BY <1>6, <3>1, <4>1 DEF Sound, NeededOK
      <4> QED BY <2>1, <2>2, <4>1, <4>2
    <3> QED BY ONLY <1>0, <2>1, <3>1 DEF NeededOK
  <2> QED BY <2>4, <2>5, <2>6, <2>7 DEF Sound
<1> QED BY <1>0, <1>1, <1>4, <1>5, <1>6 DEF MediaInv

LEMMA FailKeeps ==
    ASSUME MediaAssumption, MediaInv, NEW f \in Forms, ReplacementFails(f)
    PROVE  MediaInv'
<1>0. /\ UNCHANGED <<files, uploads, productMedia, form, deleting, copied, cutOut, strayed>>
      /\ interleaved' /\ ~Replaces(f)' /\ \A g \in Forms : g # f => replacing'[g] = replacing[g]
      /\ replacing' \in [Forms -> Replacement]
  <2>1. Idling \in Replacement /\ Idling.at = "idle"
    BY DEF Replacement, Idling
  <2> QED BY <2>1, MediaTypes DEF ReplacementFails, storage, Replaces
<1>1. MediaRows'
  BY <1>0 DEF MediaInv, MediaRows
<1>2. \A u \in Files, q \in Shelf : Named(u, q)' => Named(u, q)
  BY <1>0 DEF Named, Replaces, IsOpen
<1>3. UploadedOK' /\ HomeOK' /\ CutOK'
  BY <1>0, <1>2 DEF MediaInv, UploadedOK, HomeOK, CutOK, IsOpen
<1> QED BY <1>0, <1>1, <1>3 DEF MediaInv

(* A deletion is answered: the file is gone, or the failure is remembered.   *)
LEMMA DeleteKeeps ==
    ASSUME MediaAssumption, MediaInv, NEW u \in deleting, DeleteEnds(u)
    PROVE  MediaInv'
<1>0. /\ UNCHANGED <<uploads, productMedia, form, replacing, copied, cutOut, interleaved>>
      /\ deleting' = deleting \ {u} /\ u \in 1 .. uploads
      /\ \/ files' = files \ {u} /\ strayed' = strayed
         \/ files' = files /\ strayed' = strayed \cup {u}
  BY DEF DeleteEnds, MediaInv, UploadedOK
<1>1. MediaRows'
  BY <1>0 DEF MediaInv, MediaRows
<1>2. \A w \in Files, q \in Shelf : Named(w, q)' <=> Named(w, q)
  BY <1>0 DEF Named, Replaces, IsOpen
<1>3. UploadedOK'
  BY <1>0, <1>2 DEF MediaInv, UploadedOK, IsOpen
<1>4. HomeOK' /\ CutOK'
  BY <1>0, <1>2 DEF MediaInv, HomeOK, CutOK
<1>5. ASSUME Sound PROVE Sound'
  <2>1. /\ \A g, w : Drops(g, w)' <=> Drops(g, w)
        /\ \A w : InRows(w)' = InRows(w) /\ Shows(w)' = Shows(w) /\ BeingSaved(w)' = BeingSaved(w)
        /\ \A w : OffStorage(w)' => OffStorage(w)
    BY <1>0 DEF Drops, Filling, InRows, BeingSaved, OffStorage, Shows, IsOpen
  <2>2. AloneOK' /\ ShownOK'
    BY <1>0, <1>5, <2>1 DEF Sound, AloneOK, ShownOK, Replaces, Filling, IsOpen
  <2>3. GoneOK' /\ NeededOK'
    BY <1>0, <1>5, <2>1 DEF Sound, GoneOK, NeededOK
  <2> QED BY <2>2, <2>3 DEF Sound
<1> QED BY <1>0, <1>1, <1>3, <1>4, <1>5 DEF MediaInv

LEMMA MediaStutters == MediaInv /\ UNCHANGED mediaVars => MediaInv'
<1> SUFFICES ASSUME MediaInv, UNCHANGED mediaVars PROVE MediaInv'
  OBVIOUS
<1>1. MediaRows'
  BY DEF MediaInv, MediaRows, mediaVars
<1>2. UploadedOK' /\ HomeOK' /\ CutOK'
  BY DEF MediaInv, UploadedOK, HomeOK, CutOK, Named, Replaces, IsOpen, mediaVars
<1>3. Sound' <=> Sound
  BY DEF Sound, AloneOK, ShownOK, GoneOK, NeededOK, Drops, Filling, Replaces, InRows, BeingSaved, OffStorage,
         Shows, IsOpen, mediaVars
<1> QED BY <1>1, <1>2, <1>3 DEF MediaInv, mediaVars

LEMMA MediaSteps == MediaInv /\ [MediaNext]_mediaVars => MediaInv'
<1> SUFFICES ASSUME MediaInv, MediaNext PROVE MediaInv'
  BY MediaStutters
<1> USE MediaAssumption
<1>1. ASSUME NEW f \in Forms,
             LeaveForm(f) \/ handleFiles(f) \/ UploadEnds(f) \/ SaveForm(f)
             \/ ReadPrevious(f) \/ ClearMedia(f) \/ FillMedia(f) \/ ReplacementFails(f)
      PROVE  MediaInv'
  BY <1>1, LeaveKeeps, HandleKeeps, UploadEndKeeps, SaveKeeps, ReadKeeps, ClearKeeps, FillKeeps, FailKeeps
<1>2. ASSUME NEW f \in Forms, NEW p \in Shelf, OpenForm(f, p) PROVE MediaInv'
  BY <1>2, OpenKeeps
<1>3. ASSUME NEW f \in Forms, NEW p \in Shelf, NEW urls \in SUBSET Files, ImportUrls(f, p, urls)
      PROVE  MediaInv'
  BY <1>3, ImportKeeps
<1>4. ASSUME NEW f \in Forms, NEW u \in Files, removeImage(f, u) \/ TypeUrl(f, u) PROVE MediaInv'
  BY <1>4, RemoveKeeps, TypedKeeps
<1>5. ASSUME NEW u \in deleting, DeleteEnds(u) PROVE MediaInv'
  BY <1>5, DeleteKeeps
<1>6. ASSUME AdriftEnds PROVE MediaInv'
  BY <1>6, AdriftKeeps
<1> QED BY <1>1, <1>2, <1>3, <1>4, <1>5, <1>6 DEF MediaNext

LEMMA StorageIsHeld == MediaInv => StorageFollowsProducts
<1> SUFFICES ASSUME MediaInv, ~interleaved PROVE StorageFollowsProducts
  BY DEF StorageFollowsProducts
<1>1. Sound
  BY DEF MediaInv
<1>2. ASSUME NEW p \in Shelf, NEW u \in productMedia[p] \ (copied \cup cutOut)
      PROVE  u \in files \ deleting
  <2>1. u \in Files /\ Named(u, p)
    BY <1>2, MediaTypes DEF Named
  <2>2. u \in 1 .. uploads
    BY <2>1 DEF MediaInv, UploadedOK
  <2> QED BY <1>1, <1>2, <2>2 DEF Sound, GoneOK, InRows, OffStorage
<1>3. \A u \in files \ (copied \cup strayed) :
         InRows(u) # {} \/ Shows(u) # {} \/ BeingSaved(u) # {} \/ u \in deleting
         \/ \E f \in Forms : replacing[f].at = "fill" /\ u \in replacing[f].previous
  BY <1>1 DEF Sound, NeededOK, Drops, Filling
<1> QED BY <1>2, <1>3 DEF StorageFollowsProducts

(* Storage follows the products: a product's images are in storage, and what *)
(* is in storage is some product's image, or on its way to be one or to be   *)
(* deleted, but for what a form left behind, files whose address was typed,  *)
(* and the other exceptions of StorageFollowsProducts (media.service,        *)
(* admin/catalog-admin.service, the product form's uploader).                *)
THEOREM StorageHolds == MediaSpec => []StorageFollowsProducts
  BY StorageIsHeld, MediaStarts, MediaSteps, PTL DEF MediaSpec

-----------------------------------------------------------------------------
(* The seed script.  Statements this run has been through, and the one it has *)
(* come to.                                                                   *)

Past(do, of) == \E i \in 1 .. Len(Script) : Script[i] = Do(do, of) /\ i < seedAt
Now(do, of) == AtStatement(do) /\ Of = of

(* The order of the script. *)
ScriptOrder ==
    /\ Len(Script) = 21
    /\ \A i \in 1 .. 21 : Script[i] = Do(Script[i].do, Script[i].of)
    /\ \A i \in 1 .. 21 :
          /\ Script[i].do \in {"find", "create"} => Script[i].of \in RowKinds
          /\ Script[i].do \in {"clear", "fill"} => Script[i].of \in SetKinds
          /\ Script[i].do = "upsert" => Script[i].of \in ValueKinds
          /\ Script[i].do = "build" => Script[i].of = "products"
          /\ Script[i].do = "retire" => Script[i].of = "slide"
    /\ \A i \in 1 .. 20 : Script[i + 1].do = "create" <=> Script[i].do = "find"
    /\ \A i \in 1 .. 20 : Script[i].do = "find" => Script[i + 1].of = Script[i].of
    /\ Script[1].do = "clear"
    /\ \A i, j \in 1 .. 21 : \A s : Script[i] = Do("clear", s) /\ Script[j] = Do("fill", s) => i < j
    /\ \A i \in 1 .. 21 : Script[i] = Do("find", "slide") =>
          \E j \in 1 .. 21 : Script[j] = Do("retire", "slide") /\ j < i
    /\ \A k \in RowKinds : \E i \in 1 .. 21 : Script[i] = Do("create", k)
    /\ \A s \in SetKinds : \E i \in 1 .. 21 : Script[i] = Do("fill", s)
    /\ \A v \in ValueKinds : \E i \in 1 .. 21 : Script[i] = Do("upsert", v)
    /\ \E i \in 1 .. 21 : Script[i] = Do("build", "products")

LEMMA ScriptIs == ScriptOrder
<1>1. Len(Script) = 21
  BY DEF Script
<1>2. \A i \in 1 .. 21 : Script[i] = Do(Script[i].do, Script[i].of)
  BY DEF Script, Do
<1>3. \A i \in 1 .. 21 :
          /\ Script[i].do \in {"find", "create"} => Script[i].of \in RowKinds
          /\ Script[i].do \in {"clear", "fill"} => Script[i].of \in SetKinds
          /\ Script[i].do = "upsert" => Script[i].of \in ValueKinds
          /\ Script[i].do = "build" => Script[i].of = "products"
          /\ Script[i].do = "retire" => Script[i].of = "slide"
  BY DEF Script, Do, RowKinds, SetKinds, ValueKinds
<1>4. /\ \A i \in 1 .. 20 : Script[i + 1].do = "create" <=> Script[i].do = "find"
      /\ \A i \in 1 .. 20 : Script[i].do = "find" => Script[i + 1].of = Script[i].of
      /\ Script[1].do = "clear"
  BY DEF Script, Do
<1>5. \A i, j \in 1 .. 21 : \A s : Script[i] = Do("clear", s) /\ Script[j] = Do("fill", s) => i < j
  BY DEF Script, Do
<1>6. \A i \in 1 .. 21 : Script[i] = Do("find", "slide") =>
          \E j \in 1 .. 21 : Script[j] = Do("retire", "slide") /\ j < i
  BY DEF Script, Do
<1>7. \A k \in RowKinds : \E i \in 1 .. 21 : Script[i] = Do("create", k)
  BY DEF Script, Do, RowKinds
<1>8. /\ \A s \in SetKinds : \E i \in 1 .. 21 : Script[i] = Do("fill", s)
      /\ \A v \in ValueKinds : \E i \in 1 .. 21 : Script[i] = Do("upsert", v)
      /\ \E i \in 1 .. 21 : Script[i] = Do("build", "products")
  BY DEF Script, Do, SetKinds, ValueKinds
<1> QED BY <1>1, <1>2, <1>3, <1>4, <1>5, <1>6, <1>7, <1>8 DEF ScriptOrder

LEMMA NowIs ==
    \A do, of : Now(do, of) <=> seedAt \in 1 .. 21 /\ Script[seedAt] = Do(do, of)
<1> SUFFICES ASSUME NEW do, NEW of
             PROVE  Now(do, of) <=> seedAt \in 1 .. 21 /\ Script[seedAt] = Do(do, of)
  OBVIOUS
<1>1. Do(do, of).do = do /\ Do(do, of).of = of
  BY DEF Do
<1> QED BY <1>1, ScriptIs DEF ScriptOrder, Now, AtStatement, Of

LEMMA AtIs ==
    ASSUME NEW do, AtStatement(do)
    PROVE  Now(do, Of) /\ seedAt \in 1 .. 21 /\ Script[seedAt].do = do /\ Of = Script[seedAt].of
  BY ScriptIs DEF ScriptOrder, Now, AtStatement, Of

LEMMA NowOne ==
    ASSUME NEW do, NEW of, NEW other, NEW what, Now(do, of), Now(other, what)
    PROVE  do = other /\ of = what
  BY DEF Now, AtStatement

(* The next statement. *)
LEMMA ProceedsTo ==
    ASSUME seedAt \in 1 .. 21, Proceeds
    PROVE  /\ \A do, of : Past(do, of)' <=> Past(do, of) \/ Now(do, of)
           /\ \A k : Now("create", k)' <=> Now("find", k)
           /\ seedAt' \in 0 .. Finished
<1>1. seedAt' = seedAt + 1 /\ Len(Script) = 21
  BY ScriptIs DEF ScriptOrder, Proceeds
<1>2. ASSUME NEW do, NEW of PROVE Past(do, of)' <=> Past(do, of) \/ Now(do, of)
  <2>1. Past(do, of)' <=> \E i \in 1 .. 21 : Script[i] = Do(do, of) /\ i < seedAt + 1
    BY <1>1 DEF Past
  <2>2. \A i \in 1 .. 21 : i < seedAt + 1 <=> i < seedAt \/ i = seedAt
    OBVIOUS
  <2> QED BY <1>1, <2>1, <2>2, NowIs DEF Past
<1>3. ASSUME NEW k PROVE Now("create", k)' <=> Now("find", k)
  <2>1. Now("create", k)' <=> /\ seedAt + 1 \in 1 .. 21
                              /\ Script[seedAt + 1].do = "create" /\ Script[seedAt + 1].of = k
    BY <1>1 DEF Now, AtStatement, Of
  <2>2. Now("find", k) <=> Script[seedAt].do = "find" /\ Script[seedAt].of = k
    BY <1>1 DEF Now, AtStatement, Of
  <2>3. CASE seedAt = 21
    <3>1. Script[21].do # "find"
      BY DEF Script, Do
    <3> QED BY <2>1, <2>2, <2>3, <3>1
  <2>4. CASE seedAt \in 1 .. 20
    BY <2>1, <2>2, <2>4, ScriptIs DEF ScriptOrder
  <2> QED BY <2>3, <2>4
<1> QED BY <1>1, <1>2, <1>3 DEF Finished

LEMMA NothingPast ==
    ASSUME seedAt \in {0, 1}
    PROVE  (\A do, of : ~Past(do, of)) /\ \A k : ~Now("create", k)
<1>1. \A do, of : ~Past(do, of)
  BY DEF Past
<1>2. ASSUME NEW k, Now("create", k) PROVE FALSE
  <2>1. Script[1].do = "create"
    BY <1>2 DEF Now, AtStatement
  <2> QED BY <2>1, ScriptIs DEF ScriptOrder
<1> QED BY <1>1, <1>2

(* What the run left behind it; where the script was run without edits and    *)
(* repetitions, it creates what is not there.                                 *)
RowsAre ==
    /\ \A k \in RowKinds \ (touchedBy \cup repeated) :
          Past("create", k) \/ (Now("create", k) /\ lookedUp > 0) => rowsOf[k] >= 1
    /\ editsMade = 0 /\ repeated = {} =>
          \A k \in RowKinds : rowsOf[k] <= 1 /\ (Now("create", k) /\ lookedUp = 0 => rowsOf[k] = 0)
    /\ Past("retire", "slide") => ~autumn
SetsAre ==
    \A s \in SetKinds \ (touchedBy \cup repeated) : Past("fill", s) => setOf[s] = "seeded"
ValuesAre ==
    \A v \in ValueKinds : Past("upsert", v) => valueOf[v] # "missing"

StructInv ==
    /\ seedAt \in 0 .. Finished /\ lookedUp \in Nat /\ rowsOf \in [RowKinds -> Nat] /\ autumn \in BOOLEAN
    /\ valueOf \in [ValueKinds -> {"missing", "seeded", "edited"}]
    /\ setOf \in [SetKinds -> {"empty", "seeded", "twice", "edited"}]
    /\ editsMade \in Nat
    /\ RowsAre /\ SetsAre /\ ValuesAre

(* A product that is built can be bought. *)
BuildInv ==
    /\ building \in [SeedProducts -> BuildSteps]
    /\ productRow \in [SeedProducts -> {"missing", "seeded"}]
    /\ images \in [SeedProducts -> {"empty", "seeded", "twice"}]
    /\ \A p \in SeedProducts :
          /\ building[p] # "wait" => productRow[p] = "seeded"
          /\ building[p] \in {"drop", "create", "built"} => images[p] # "empty"
          /\ images[p] = "twice" => "products" \in repeated
          /\ building[p] = "built" => \A c \in Combos : skuRows[p][c].there
          /\ Past("build", "products") => building[p] = "built"

(* What is reserved is the linked order's; what lines name is there. *)
Holds(p, c) == ordered.open /\ ordered.linked /\ ordered.line.of = p /\ ordered.line.combo = c
TradeInv ==
    /\ skuRows \in [SeedProducts -> [Combos -> [there : BOOLEAN, reserved : Nat]]]
    /\ seedBag \in [cart : BOOLEAN, line : SkuLine \cup {NoSkuLine}]
    /\ ordered \in [open : BOOLEAN, line : SkuLine \cup {NoSkuLine}, linked : BOOLEAN]
    /\ ordered.open => ordered.line \in SkuLine
    /\ \A p \in SeedProducts, c \in Combos :
          /\ Holds(p, c) => skuRows[p][c].there /\ skuRows[p][c].reserved = 1
          /\ ~Holds(p, c) => skuRows[p][c].reserved = 0
          /\ seedBag.line = [of |-> p, combo |-> c] => skuRows[p][c].there

SeedInv == StructInv /\ BuildInv /\ TradeInv

LEMMA SeedStarts == SeedInit => SeedInv
<1> SUFFICES ASSUME SeedInit PROVE SeedInv
  OBVIOUS
<1>1. seedAt = 0 /\ (\A do, of : ~Past(do, of)) /\ (\A k : ~Now("create", k)) /\ 0 \in 0 .. Finished
  BY NothingPast, ScriptIs DEF SeedInit, NotRunning, Finished, ScriptOrder
<1>2. StructInv
  <2>1. rowsOf \in [RowKinds -> Nat] /\ \A k \in RowKinds : rowsOf[k] <= 1
    BY DEF SeedInit
  <2>2. /\ valueOf \in [ValueKinds -> {"missing", "seeded", "edited"}]
        /\ setOf \in [SetKinds -> {"empty", "seeded", "twice", "edited"}]
    BY DEF SeedInit
  <2> QED BY <1>1, <2>1, <2>2 DEF SeedInit, StructInv, RowsAre, SetsAre, ValuesAre
<1>3. BuildInv
  BY <1>1 DEF SeedInit, BuildInv, BuildSteps
<1>4. TradeInv
  <2>1. NoSku \in [there : BOOLEAN, reserved : Nat] /\ NoSku.reserved = 0
    BY DEF NoSku
  <2>2. NoBag \in [cart : BOOLEAN, line : SkuLine \cup {NoSkuLine}] /\ NoBag.line = NoSkuLine
    BY DEF NoBag
  <2>3. NoSeedOrder \in [open : BOOLEAN, line : SkuLine \cup {NoSkuLine}, linked : BOOLEAN] /\ ~NoSeedOrder.open
    BY DEF NoSeedOrder
  <2>4. \A p, c : NoSkuLine # [of |-> p, combo |-> c]
    BY DEF NoSkuLine
  <2> QED BY <2>1, <2>2, <2>3, <2>4 DEF SeedInit, TradeInv, Holds
<1> QED BY <1>2, <1>3, <1>4 DEF SeedInv

(* A statement of the script repeats at most itself, and edits nothing.      *)
LEMMA StructStays ==
    ASSUME StructInv, UNCHANGED <<seedAt, lookedUp, rowsOf, autumn, valueOf, setOf, touchedBy, editsMade>>,
           repeated \subseteq repeated'
    PROVE  StructInv'
<1>1. (\A do, of : Past(do, of)' <=> Past(do, of)) /\ \A k : Now("create", k)' <=> Now("create", k)
  BY DEF Past, Now, AtStatement, Of
<1> QED BY <1>1 DEF StructInv, RowsAre, SetsAre, ValuesAre

LEMMA BuildStays ==
    ASSUME BuildInv, UNCHANGED <<building, productRow, images>>, repeated \subseteq repeated',
           \A p \in SeedProducts, c \in Combos : skuRows[p][c].there => skuRows'[p][c].there,
           Past("build", "products")' => Past("build", "products")
    PROVE  BuildInv'
<1>1. \A p \in SeedProducts : Past("build", "products")' => building'[p] = "built"
  BY DEF BuildInv
<1> QED BY <1>1 DEF BuildInv

LEMMA TradeStays == ASSUME TradeInv, UNCHANGED <<skuRows, seedBag, ordered>> PROVE TradeInv'
  BY DEF TradeInv, Holds

(* A run begins or ends. *)
LEMMA RunKeeps == SeedInv /\ (StartSeed \/ StopSeed \/ EndSeed) => SeedInv'
<1> SUFFICES ASSUME SeedInv, StartSeed \/ StopSeed \/ EndSeed PROVE SeedInv'
  OBVIOUS
<1>1. /\ seedAt' \in {0, 1}
      /\ UNCHANGED <<lookedUp, rowsOf, autumn, valueOf, setOf, productRow, images, skuRows, seedBag, ordered,
                     editsMade, repeated>>
      /\ building' = building \/ building' = [p \in SeedProducts |-> "wait"]
  BY DEF StartSeed, StopSeed, EndSeed, structure, products, trade, seedBounds, NotRunning
<1>2. (\A do, of : ~Past(do, of)') /\ (\A k : ~Now("create", k)') /\ seedAt' \in 0 .. Finished
  <2>1. (\A do, of : ~Past(do, of)') /\ (\A k : ~Now("create", k)')
    BY <1>1, ScriptIs DEF Past, Now, AtStatement, ScriptOrder
  <2> QED BY <1>1, <2>1, ScriptIs DEF ScriptOrder, Finished
<1>3. StructInv'
  BY <1>1, <1>2 DEF SeedInv, StructInv, RowsAre, SetsAre, ValuesAre
<1>4. BuildInv'
  BY <1>1, <1>2 DEF SeedInv, BuildInv, BuildSteps
<1>5. TradeInv'
  BY <1>1, TradeStays DEF SeedInv
<1> QED BY <1>3, <1>4, <1>5 DEF SeedInv

(* A statement but those of a product's building. *)
LEMMA StatementKeeps ==
    ASSUME SeedInv, NEW do, AtStatement(do), do # "build", Proceeds, StructInv',
           UNCHANGED <<building, productRow, images, skuRows, seedBag, ordered>>,
           repeated \subseteq repeated'
    PROVE  SeedInv'
<1>1. ~Now("build", "products")
  BY DEF Now, AtStatement
<1>2. Past("build", "products")' => Past("build", "products")
  BY <1>1, ProceedsTo, AtIs
<1> QED BY <1>2, BuildStays, TradeStays DEF SeedInv

LEMMA SeedClearKeeps == SeedInv /\ ClearSet => SeedInv'
<1> SUFFICES ASSUME SeedInv, ClearSet PROVE SeedInv'
  OBVIOUS
<1> PICK s : s = Of
  OBVIOUS
<1>1. /\ AtStatement("clear") /\ Proceeds /\ setOf' = [setOf EXCEPT ![s] = "empty"]
      /\ UNCHANGED <<lookedUp, rowsOf, autumn, valueOf, building, productRow, images, skuRows, seedBag,
                     ordered, editsMade, touchedBy, repeated>>
  BY DEF ClearSet, RestOfSeed, products, trade
<1>2. Now("clear", s) /\ seedAt \in 1 .. 21 /\ s \in SetKinds
  BY <1>1, AtIs, ScriptIs DEF ScriptOrder
<1>3. ~Past("fill", s)
  <2> SUFFICES ASSUME NEW i \in 1 .. 21, Script[i] = Do("fill", s), i < seedAt PROVE FALSE
    BY ScriptIs DEF Past, ScriptOrder
  <2>1. Script[seedAt] = Do("clear", s)
    BY <1>2, NowIs
  <2>2. seedAt < i
    BY <1>2, <2>1, ScriptIs DEF ScriptOrder
  <2> QED BY <1>2, <2>2
<1>4. \A do, of : do # "clear" => (Past(do, of)' <=> Past(do, of)) /\ ~Now(do, of)
  BY <1>1, <1>2, ProceedsTo, NowOne
<1>5. \A k : ~Now("create", k)'
  BY <1>1, <1>2, <1>4, ProceedsTo
<1>6. StructInv'
  <2>1. setOf' \in [SetKinds -> {"empty", "seeded", "twice", "edited"}] /\ seedAt' \in 0 .. Finished
    BY <1>1, <1>2, ProceedsTo DEF SeedInv, StructInv
  <2>2. RowsAre' /\ ValuesAre'
    BY <1>1, <1>4, <1>5 DEF SeedInv, StructInv, RowsAre, ValuesAre
  <2>3. SetsAre'
    BY <1>1, <1>2, <1>3, <1>4 DEF SeedInv, StructInv, SetsAre
  <2> QED BY <1>1, <2>1, <2>2, <2>3 DEF SeedInv, StructInv
<1> QED BY <1>1, <1>6, StatementKeeps

LEMMA FillSetKeeps == SeedInv /\ FillSet => SeedInv'
<1> SUFFICES ASSUME SeedInv, FillSet PROVE SeedInv'
  OBVIOUS
<1> PICK s : s = Of
  OBVIOUS
<1>1. /\ AtStatement("fill") /\ Proceeds
      /\ \/ setOf' = [setOf EXCEPT ![s] = "seeded"] /\ repeated' = repeated
         \/ setOf' = [setOf EXCEPT ![s] = "twice"] /\ repeated' = repeated \cup {s}
      /\ UNCHANGED <<lookedUp, rowsOf, autumn, valueOf, building, productRow, images, skuRows, seedBag,
                     ordered, editsMade, touchedBy>>
  BY DEF FillSet, RestOfSeed, products, trade, OnceRun, TwiceRun
<1>2. Now("fill", s) /\ seedAt \in 1 .. 21 /\ s \in SetKinds
  BY <1>1, AtIs, ScriptIs DEF ScriptOrder
<1>3. \A do, of : do # "fill" => (Past(do, of)' <=> Past(do, of)) /\ ~Now(do, of)
  BY <1>1, <1>2, ProceedsTo, NowOne
<1>4. \A of : Past("fill", of)' <=> Past("fill", of) \/ of = s
  BY <1>1, <1>2, ProceedsTo, NowOne
<1>5. \A k : ~Now("create", k)'
  BY <1>1, <1>2, <1>3, ProceedsTo
<1>6. StructInv'
  <2>1. setOf' \in [SetKinds -> {"empty", "seeded", "twice", "edited"}] /\ seedAt' \in 0 .. Finished
    BY <1>1, <1>2, ProceedsTo DEF SeedInv, StructInv
  <2>2. RowsAre' /\ ValuesAre'
    BY <1>1, <1>3, <1>5 DEF SeedInv, StructInv, RowsAre, ValuesAre
  <2>3. SetsAre'
    BY <1>1, <1>2, <1>4 DEF SeedInv, StructInv, SetsAre
  <2> QED BY <1>1, <2>1, <2>2, <2>3 DEF SeedInv, StructInv
<1> QED BY <1>1, <1>6, StatementKeeps

LEMMA SeedUpsertKeeps == SeedInv /\ Upsert => SeedInv'
<1> SUFFICES ASSUME SeedInv, Upsert PROVE SeedInv'
  OBVIOUS
<1> PICK v : v = Of
  OBVIOUS
<1>1. /\ AtStatement("upsert") /\ Proceeds
      /\ \/ valueOf' = [valueOf EXCEPT ![v] = "seeded"]
         \/ valueOf' = valueOf /\ valueOf[v] # "missing"
      /\ UNCHANGED <<lookedUp, rowsOf, autumn, setOf, building, productRow, images, skuRows, seedBag,
                     ordered, editsMade, touchedBy, repeated>>
  BY DEF Upsert, RestOfSeed, products, trade
<1>2. Now("upsert", v) /\ seedAt \in 1 .. 21 /\ v \in ValueKinds
  BY <1>1, AtIs, ScriptIs DEF ScriptOrder
<1>3. \A do, of : do # "upsert" => (Past(do, of)' <=> Past(do, of)) /\ ~Now(do, of)
  BY <1>1, <1>2, ProceedsTo, NowOne
<1>4. \A of : Past("upsert", of)' <=> Past("upsert", of) \/ of = v
  BY <1>1, <1>2, ProceedsTo, NowOne
<1>5. \A k : ~Now("create", k)'
  BY <1>1, <1>2, <1>3, ProceedsTo
<1>6. StructInv'
  <2>1. valueOf' \in [ValueKinds -> {"missing", "seeded", "edited"}] /\ seedAt' \in 0 .. Finished
    BY <1>1, <1>2, ProceedsTo DEF SeedInv, StructInv
  <2>2. RowsAre' /\ SetsAre'
    BY <1>1, <1>3, <1>5 DEF SeedInv, StructInv, RowsAre, SetsAre
  <2>3. ValuesAre'
    BY <1>1, <1>2, <1>4 DEF SeedInv, StructInv, ValuesAre
  <2> QED BY <1>1, <2>1, <2>2, <2>3 DEF SeedInv, StructInv
<1> QED BY <1>1, <1>6, StatementKeeps

(* What is looked up is what there is: the slide of an earlier release was     *)
(* retired before.                                                            *)
LEMMA LookUpKeeps == SeedInv /\ LookUp => SeedInv'
<1> SUFFICES ASSUME SeedInv, LookUp PROVE SeedInv'
  OBVIOUS
<1> PICK k : k = Of
  OBVIOUS
<1>1. /\ AtStatement("find") /\ Proceeds
      /\ lookedUp' = rowsOf[k] + (IF k = "slide" /\ autumn THEN 1 ELSE 0)
      /\ UNCHANGED <<rowsOf, autumn, valueOf, setOf, building, productRow, images, skuRows, seedBag,
                     ordered, editsMade, touchedBy, repeated>>
  BY DEF LookUp, RestOfSeed, products, trade
<1>2. Now("find", k) /\ seedAt \in 1 .. 21 /\ k \in RowKinds
  BY <1>1, AtIs, ScriptIs DEF ScriptOrder
<1>3. \A do, of : do # "find" => (Past(do, of)' <=> Past(do, of)) /\ ~Now(do, of)
  BY <1>1, <1>2, ProceedsTo, NowOne
<1>4. \A of : Now("create", of)' <=> of = k
  BY <1>1, <1>2, ProceedsTo, NowOne
<1>5. k = "slide" => ~autumn
  <2> SUFFICES ASSUME k = "slide" PROVE Past("retire", "slide")
    BY DEF SeedInv, StructInv, RowsAre
  <2>1. Script[seedAt] = Do("find", "slide")
    BY <1>2, NowIs
  <2> QED BY <1>2, <2>1, ScriptIs DEF ScriptOrder, Past
<1>6. lookedUp' = rowsOf[k] /\ rowsOf[k] \in Nat
  BY <1>1, <1>2, <1>5 DEF SeedInv, StructInv
<1>7. StructInv'
  <2>1. seedAt' \in 0 .. Finished
    BY <1>1, <1>2, ProceedsTo
  <2>2. RowsAre'
    BY <1>1, <1>3, <1>4, <1>6 DEF SeedInv, StructInv, RowsAre
  <2>3. SetsAre' /\ ValuesAre'
    BY <1>1, <1>3 DEF SeedInv, StructInv, SetsAre, ValuesAre
  <2> QED BY <1>1, <1>6, <2>1, <2>2, <2>3 DEF SeedInv, StructInv
<1> QED BY <1>1, <1>7, StatementKeeps

LEMMA CreateKeeps == SeedInv /\ CreateMissing => SeedInv'
<1> SUFFICES ASSUME SeedInv, CreateMissing PROVE SeedInv'
  OBVIOUS
<1> PICK k : k = Of
  OBVIOUS
<1>1. /\ AtStatement("create") /\ Proceeds
      /\ \/ lookedUp > 0 /\ rowsOf' = rowsOf /\ repeated' = repeated
         \/ lookedUp = 0 /\ rowsOf' = [rowsOf EXCEPT ![k] = @ + 1] /\ repeated' = repeated
         \/ rowsOf' = [rowsOf EXCEPT ![k] = @ + 2] /\ repeated' = repeated \cup {k}
      /\ UNCHANGED <<lookedUp, autumn, valueOf, setOf, building, productRow, images, skuRows, seedBag,
                     ordered, editsMade, touchedBy>>
  BY DEF CreateMissing, RestOfSeed, products, trade, OnceRun, TwiceRun
<1>2. Now("create", k) /\ seedAt \in 1 .. 21 /\ k \in RowKinds
  BY <1>1, AtIs, ScriptIs DEF ScriptOrder
<1>3. \A do, of : do # "create" => (Past(do, of)' <=> Past(do, of)) /\ ~Now(do, of)
  BY <1>1, <1>2, ProceedsTo, NowOne
<1>4. /\ \A of : Past("create", of)' <=> Past("create", of) \/ of = k
      /\ \A of : ~Now("create", of)'
  BY <1>1, <1>2, <1>3, ProceedsTo, NowOne
<1>5. StructInv'
  <2>1. /\ seedAt' \in 0 .. Finished
        /\ rowsOf' \in [RowKinds -> Nat] /\ \A j \in RowKinds : j # k => rowsOf'[j] = rowsOf[j]
        /\ \/ lookedUp > 0 /\ rowsOf'[k] = rowsOf[k] /\ repeated' = repeated
           \/ lookedUp = 0 /\ rowsOf'[k] = rowsOf[k] + 1 /\ repeated' = repeated
           \/ k \in repeated' /\ repeated \subseteq repeated'
    BY <1>1, <1>2, ProceedsTo DEF SeedInv, StructInv
  <2>2. \A j \in RowKinds : rowsOf[j] \in Nat
    BY DEF SeedInv, StructInv
  <2>3. RowsAre'
    BY <1>1, <1>2, <1>3, <1>4, <2>1, <2>2 DEF SeedInv, StructInv, RowsAre
  <2>4. SetsAre' /\ ValuesAre'
    BY <1>1, <1>3 DEF SeedInv, StructInv, SetsAre, ValuesAre
  <2> QED BY <1>1, <2>1, <2>3, <2>4 DEF SeedInv, StructInv
<1> QED BY <1>1, <1>5, StatementKeeps

LEMMA RetireKeeps == SeedInv /\ Retire => SeedInv'
<1> SUFFICES ASSUME SeedInv, Retire PROVE SeedInv'
  OBVIOUS
<1>1. /\ AtStatement("retire") /\ Proceeds /\ autumn' = FALSE
      /\ UNCHANGED <<lookedUp, rowsOf, valueOf, setOf, building, productRow, images, skuRows, seedBag,
                     ordered, editsMade, touchedBy, repeated>>
  BY DEF Retire, RestOfSeed, products, trade
<1>2. seedAt \in 1 .. 21 /\ Now("retire", Of)
  BY <1>1, AtIs
<1>3. \A do, of : do # "retire" => (Past(do, of)' <=> Past(do, of)) /\ ~Now(do, of)
  BY <1>1, <1>2, ProceedsTo, NowOne
<1>4. \A k : ~Now("create", k)'
  BY <1>1, <1>2, <1>3, ProceedsTo
<1>5. StructInv'
  <2>1. RowsAre' /\ SetsAre' /\ ValuesAre'
    BY <1>1, <1>3, <1>4 DEF SeedInv, StructInv, RowsAre, SetsAre, ValuesAre
  <2> QED BY <1>1, <1>2, <2>1, ProceedsTo DEF SeedInv, StructInv
<1> QED BY <1>1, <1>5, StatementKeeps

(* A statement that is about no row of these. *)
LEMMA OtherStatement ==
    ASSUME SeedInv, NEW do, AtStatement(do), do \in {"clearCarts", "build"}, Proceeds,
           UNCHANGED <<lookedUp, rowsOf, autumn, valueOf, setOf, editsMade, touchedBy, repeated>>
    PROVE  StructInv'
<1>1. seedAt \in 1 .. 21 /\ Now(do, Of)
  BY AtIs
<1>2. /\ \A what \in {"create", "fill", "upsert", "retire"} : \A of : Past(what, of)' <=> Past(what, of)
      /\ \A k : ~Now("create", k)'
  <2>1. \A what, of : what # do => ~Now(what, of)
    BY <1>1, NowOne
  <2> QED BY <1>1, <2>1, ProceedsTo
<1>3. RowsAre' /\ SetsAre' /\ ValuesAre'
  BY <1>2 DEF SeedInv, StructInv, RowsAre, SetsAre, ValuesAre
<1> QED BY <1>1, <1>3, ProceedsTo DEF SeedInv, StructInv

LEMMA ClearCartsKeeps == SeedInv /\ ClearCarts => SeedInv'
<1> SUFFICES ASSUME SeedInv, ClearCarts PROVE SeedInv'
  OBVIOUS
<1>1. /\ AtStatement("clearCarts") /\ Proceeds
      /\ seedBag' = [seedBag EXCEPT !.line = NoSkuLine] \/ seedBag' = NoBag
      /\ UNCHANGED <<lookedUp, rowsOf, autumn, valueOf, setOf, building, productRow, images, skuRows, ordered,
                     editsMade, touchedBy, repeated>>
  BY DEF ClearCarts, RestOfSeed, products, structure
<1>2. StructInv'
  BY <1>1, OtherStatement
<1>3. BuildInv'
  <2>1. Past("build", "products")' => Past("build", "products")
    <3>1. seedAt \in 1 .. 21 /\ ~Now("build", "products")
      BY <1>1, AtIs DEF Now, AtStatement
    <3> QED BY <1>1, <3>1, ProceedsTo
  <2> QED BY <1>1, <2>1, BuildStays DEF SeedInv
<1>4. TradeInv'
  <2>1. /\ seedBag' \in [cart : BOOLEAN, line : SkuLine \cup {NoSkuLine}]
        /\ seedBag'.line = NoSkuLine
    <3>1. seedBag \in [cart : BOOLEAN, line : SkuLine \cup {NoSkuLine}]
      BY DEF SeedInv, TradeInv
    <3>2. CASE seedBag' = [seedBag EXCEPT !.line = NoSkuLine]
      BY <3>1, <3>2
    <3>3. CASE seedBag' = NoBag
      BY <3>3 DEF NoBag
    <3> QED BY <1>1, <3>2, <3>3
  <2>2. \A p, c : NoSkuLine # [of |-> p, combo |-> c]
    BY DEF NoSkuLine
  <2> QED BY <1>1, <2>1, <2>2 DEF SeedInv, TradeInv, Holds
<1> QED BY <1>2, <1>3, <1>4 DEF SeedInv

LEMMA BuiltKeeps == SeedInv /\ CatalogBuilt => SeedInv'
<1> SUFFICES ASSUME SeedInv, CatalogBuilt PROVE SeedInv'
  OBVIOUS
<1>1. /\ AtStatement("build") /\ Proceeds /\ \A p \in SeedProducts : building[p] = "built"
      /\ UNCHANGED <<lookedUp, rowsOf, autumn, valueOf, setOf, building, productRow, images, skuRows, seedBag,
                     ordered, editsMade, touchedBy, repeated>>
  BY DEF CatalogBuilt, RestOfSeed, products, structure, trade
<1>2. StructInv'
  BY <1>1, OtherStatement
<1>3. BuildInv'
  BY <1>1 DEF SeedInv, BuildInv
<1> QED BY <1>1, <1>2, <1>3, TradeStays DEF SeedInv

(* One product of those that are built at once. *)
LEMMA BuildStepKeeps ==
    ASSUME SeedInv, NEW p \in SeedProducts,
           UpsertProduct(p) \/ ClearImages(p) \/ FillImages(p)
    PROVE  SeedInv'
<1>1. /\ AtStatement("build") /\ repeated \subseteq repeated'
      /\ UNCHANGED <<seedAt, lookedUp, rowsOf, autumn, valueOf, setOf, skuRows, seedBag, ordered, editsMade,
                     touchedBy>>
      /\ \/ /\ building[p] = "wait" /\ building' = [building EXCEPT ![p] = "clearMedia"]
            /\ productRow' = [productRow EXCEPT ![p] = "seeded"] /\ images' = images
         \/ /\ building[p] = "clearMedia" /\ building' = [building EXCEPT ![p] = "fillMedia"]
            /\ images' = [images EXCEPT ![p] = "empty"] /\ productRow' = productRow
         \/ /\ building[p] = "fillMedia" /\ building' = [building EXCEPT ![p] = "drop"]
            /\ productRow' = productRow
            /\ \/ images' = [images EXCEPT ![p] = "seeded"]
               \/ images' = [images EXCEPT ![p] = "twice"] /\ "products" \in repeated'
  <2>1. AtStatement("build") => Of = "products"
    BY AtIs, ScriptIs DEF ScriptOrder
  <2> QED BY <2>1 DEF UpsertProduct, ClearImages, FillImages, Building, To, RestOfBuild, structure,
                      OnceRun, TwiceRun
<1>2. StructInv'
  BY <1>1, StructStays DEF SeedInv
<1>3. Past("build", "products")' <=> Past("build", "products")
  BY <1>1 DEF Past
<1>4. BuildInv'
  BY <1>1, <1>3 DEF SeedInv, BuildInv, BuildSteps
<1> QED BY <1>1, <1>2, <1>4, TradeStays DEF SeedInv

(* A cart's line keeps its variants; an order's loses its link. *)
LEMMA DropKeeps ==
    ASSUME SeedInv, NEW p \in SeedProducts, DropSkus(p)
    PROVE  SeedInv'
<1>1. /\ AtStatement("build") /\ building[p] = "drop" /\ seedBag.line.of # p
      /\ building' = [building EXCEPT ![p] = "create"]
      /\ skuRows' = [skuRows EXCEPT ![p] = [c \in Combos |-> NoSku]]
      /\ ordered' = IF ordered.line.of = p THEN [ordered EXCEPT !.linked = FALSE] ELSE ordered
      /\ UNCHANGED <<seedAt, lookedUp, rowsOf, autumn, valueOf, setOf, seedBag, editsMade, touchedBy, productRow,
                     images, repeated>>
  BY DEF DropSkus, Building, To, RestOfBuild, structure
<1>2. StructInv'
  BY <1>1, StructStays DEF SeedInv
<1>3. Past("build", "products")' <=> Past("build", "products")
  BY <1>1 DEF Past
<1>4. skuRows \in [SeedProducts -> [Combos -> [there : BOOLEAN, reserved : Nat]]]
  BY DEF SeedInv, TradeInv
<1>5. /\ \A c \in Combos : ~skuRows'[p][c].there /\ skuRows'[p][c].reserved = 0
      /\ \A q \in SeedProducts : q # p => skuRows'[q] = skuRows[q]
      /\ skuRows' \in [SeedProducts -> [Combos -> [there : BOOLEAN, reserved : Nat]]]
  <2>1. NoSku \in [there : BOOLEAN, reserved : Nat] /\ ~NoSku.there /\ NoSku.reserved = 0
    BY DEF NoSku
  <2> QED BY <1>1, <1>4, <2>1
<1>6. BuildInv'
  BY <1>1, <1>3, <1>5 DEF SeedInv, BuildInv, BuildSteps
<1>7. TradeInv'
  <2>1. /\ ordered' \in [open : BOOLEAN, line : SkuLine \cup {NoSkuLine}, linked : BOOLEAN]
        /\ ordered'.open = ordered.open /\ ordered'.line = ordered.line
        /\ \A c : ~Holds(p, c)'
        /\ \A q, c : q # p => (Holds(q, c)' <=> Holds(q, c))
    BY <1>1 DEF SeedInv, TradeInv, Holds
  <2>2. \A c : seedBag.line # [of |-> p, combo |-> c]
    BY <1>1
  <2> QED BY <1>1, <1>5, <2>1, <2>2 DEF SeedInv, TradeInv
<1> QED BY <1>2, <1>6, <1>7 DEF SeedInv

LEMMA CreateSkuKeeps ==
    ASSUME SeedInv, NEW p \in SeedProducts, NEW c \in Combos, CreateSku(p, c)
    PROVE  SeedInv'
<1> PICK d : d = [there |-> TRUE, reserved |-> 0]
  OBVIOUS
<1>1. /\ AtStatement("build") /\ building[p] = "create"
      /\ ~skuRows[p][c].there /\ \A b \in 1 .. c - 1 : skuRows[p][b].there
      /\ skuRows' = [skuRows EXCEPT ![p][c] = d]
      /\ building' = building \/ (c = 2 /\ building' = [building EXCEPT ![p] = "built"])
      /\ UNCHANGED <<seedAt, lookedUp, rowsOf, autumn, valueOf, setOf, seedBag, editsMade, touchedBy, productRow,
                     images, repeated, ordered>>
  <2>1. Cardinality(Combos) = 2
    <3> PICK a \in Int, b \in Int : a = 1 /\ b = 2
      OBVIOUS
    <3>1. Cardinality(a .. b) = IF a > b THEN 0 ELSE b - a + 1
      BY FS_Interval
    <3> QED BY <3>1 DEF Combos
  <2> QED BY <2>1 DEF CreateSku, Building, RestOfBuild, structure
<1>2. StructInv'
  BY <1>1, StructStays DEF SeedInv
<1>3. Past("build", "products")' <=> Past("build", "products")
  BY <1>1 DEF Past
<1>4. skuRows \in [SeedProducts -> [Combos -> [there : BOOLEAN, reserved : Nat]]]
  BY DEF SeedInv, TradeInv
<1>5. /\ skuRows'[p][c].there /\ skuRows'[p][c].reserved = 0
      /\ \A q \in SeedProducts, b \in Combos : q # p \/ b # c => skuRows'[q][b] = skuRows[q][b]
      /\ skuRows' \in [SeedProducts -> [Combos -> [there : BOOLEAN, reserved : Nat]]]
  <2>1. d \in [there : BOOLEAN, reserved : Nat] /\ d.there /\ d.reserved = 0
    OBVIOUS
  <2> QED BY <1>1, <1>4, <2>1
<1>6. BuildInv'
  <2>1. c = 2 => \A b \in Combos : skuRows'[p][b].there
    BY <1>1, <1>5 DEF Combos
  <2>2. \A q \in SeedProducts, b \in Combos : skuRows[q][b].there => skuRows'[q][b].there
    BY <1>5
  <2> QED BY <1>1, <1>3, <2>1, <2>2 DEF SeedInv, BuildInv, BuildSteps
<1>7. TradeInv'
  <2>1. \A q, b : Holds(q, b)' <=> Holds(q, b)
    BY <1>1 DEF Holds
  <2>2. ~Holds(p, c)
    BY <1>1 DEF SeedInv, TradeInv
  <2> QED BY <1>1, <1>5, <2>1, <2>2 DEF SeedInv, TradeInv
<1> QED BY <1>2, <1>6, <1>7 DEF SeedInv

(* What an administrator changes is theirs. *)
LEMMA SeedEditKeeps == SeedInv /\ EditSeeded => SeedInv'
<1> SUFFICES ASSUME SeedInv, EditSeeded PROVE SeedInv'
  OBVIOUS
<1>1. /\ editsMade' = editsMade + 1
      /\ UNCHANGED <<seedAt, lookedUp, autumn, building, productRow, images, skuRows, seedBag, ordered, repeated>>
      /\ \/ \E v \in ValueKinds :
              /\ valueOf' = [valueOf EXCEPT ![v] = "edited"]
              /\ touchedBy' = touchedBy \cup {v} /\ UNCHANGED <<rowsOf, setOf>>
         \/ \E s \in SetKinds :
              /\ setOf' = [setOf EXCEPT ![s] = "edited"]
              /\ touchedBy' = touchedBy \cup {s} /\ UNCHANGED <<rowsOf, valueOf>>
         \/ \E k \in RowKinds, n \in {-1, 1} :
              /\ rowsOf[k] + n \in 0 .. 2 /\ rowsOf' = [rowsOf EXCEPT ![k] = @ + n]
              /\ touchedBy' = touchedBy \cup {k} /\ UNCHANGED <<setOf, valueOf>>
  BY DEF EditSeeded, products, trade
<1>2. (\A do, of : Past(do, of)' <=> Past(do, of)) /\ \A k : Now("create", k)' <=> Now("create", k)
  BY <1>1 DEF Past, Now, AtStatement, Of
<1>3. editsMade' \in Nat /\ editsMade' # 0
  BY <1>1 DEF SeedInv, StructInv
<1>4. StructInv'
  <2>1. CASE \E v \in ValueKinds :
              /\ valueOf' = [valueOf EXCEPT ![v] = "edited"]
              /\ touchedBy' = touchedBy \cup {v} /\ UNCHANGED <<rowsOf, setOf>>
    BY <1>1, <1>2, <1>3, <2>1 DEF SeedInv, StructInv, RowsAre, SetsAre, ValuesAre
  <2>2. CASE \E s \in SetKinds :
              /\ setOf' = [setOf EXCEPT ![s] = "edited"]
              /\ touchedBy' = touchedBy \cup {s} /\ UNCHANGED <<rowsOf, valueOf>>
    BY <1>1, <1>2, <1>3, <2>2 DEF SeedInv, StructInv, RowsAre, SetsAre, ValuesAre
  <2>3. ASSUME NEW k \in RowKinds, NEW n \in {-1, 1},
               rowsOf[k] + n \in 0 .. 2, rowsOf' = [rowsOf EXCEPT ![k] = @ + n],
               touchedBy' = touchedBy \cup {k}, UNCHANGED <<setOf, valueOf>>
        PROVE  StructInv'
    <3>1. rowsOf' \in [RowKinds -> Nat] /\ \A j \in RowKinds : j # k => rowsOf'[j] = rowsOf[j]
      BY <2>3 DEF SeedInv, StructInv
    <3>2. RowsAre'
      BY <1>1, <1>2, <1>3, <2>3, <3>1 DEF SeedInv, StructInv, RowsAre
    <3>3. SetsAre' /\ ValuesAre'
      BY <1>1, <1>2, <2>3 DEF SeedInv, StructInv, SetsAre, ValuesAre
    <3> QED BY <1>1, <1>3, <2>3, <3>1, <3>2, <3>3 DEF SeedInv, StructInv
  <2> QED BY <1>1, <2>1, <2>2, <2>3
<1>5. BuildInv'
  BY <1>1, <1>2, BuildStays DEF SeedInv
<1> QED BY <1>1, <1>4, <1>5, TradeStays DEF SeedInv

(* Customers shop: no statement of the script's is theirs. *)
LEMMA ShopKeeps ==
    ASSUME SeedInv, RestOfShop, TradeInv',
           \A p \in SeedProducts, c \in Combos : skuRows[p][c].there => skuRows'[p][c].there
    PROVE  SeedInv'
<1>1. UNCHANGED <<seedAt, lookedUp, rowsOf, autumn, valueOf, setOf, building, productRow, images, editsMade,
                  touchedBy, repeated>>
  BY DEF RestOfShop, structure
<1>2. Past("build", "products")' <=> Past("build", "products")
  BY <1>1 DEF Past
<1> QED BY <1>1, <1>2, StructStays, BuildStays DEF SeedInv

LEMMA BagKeeps ==
    ASSUME SeedInv, NEW p \in SeedProducts, NEW c \in Combos, AddToBag(p, c)
    PROVE  SeedInv'
<1> PICK l : l = [of |-> p, combo |-> c]
  OBVIOUS
<1>1. /\ skuRows[p][c].there /\ seedBag' = [cart |-> TRUE, line |-> l]
      /\ UNCHANGED <<skuRows, ordered>> /\ RestOfShop
  BY DEF AddToBag
<1>2. l \in SkuLine /\ \A q, b : l = [of |-> q, combo |-> b] => q = p /\ b = c
  BY DEF SkuLine
<1>3. seedBag' \in [cart : BOOLEAN, line : SkuLine \cup {NoSkuLine}] /\ seedBag'.line = l
  BY <1>1, <1>2
<1>4. TradeInv'
  BY <1>1, <1>2, <1>3 DEF SeedInv, TradeInv, Holds
<1> QED BY <1>1, <1>4, ShopKeeps

LEMMA OrderKeeps == SeedInv /\ OrderBag => SeedInv'
<1> SUFFICES ASSUME SeedInv, OrderBag PROVE SeedInv'
  OBVIOUS
<1> PICK l : l = seedBag.line
  OBVIOUS
<1>1. l \in SkuLine /\ ~ordered.open /\ seedBag' = seedBag /\ RestOfShop /\ l = seedBag.line
  BY DEF OrderBag, SeedInv, TradeInv
<1> PICK p \in SeedProducts, c \in Combos : l.of = p /\ l.combo = c /\ l = [of |-> p, combo |-> c]
  BY <1>1 DEF SkuLine
<1>2. skuRows[p][c].there /\ skuRows[p][c].reserved = 0
  BY <1>1 DEF SeedInv, TradeInv, Holds
<1>3. skuRows \in [SeedProducts -> [Combos -> [there : BOOLEAN, reserved : Nat]]]
  BY DEF SeedInv, TradeInv
<1>4. /\ skuRows' \in [SeedProducts -> [Combos -> [there : BOOLEAN, reserved : Nat]]]
      /\ skuRows'[p][c].reserved = 1 /\ skuRows'[p][c].there
      /\ \A q \in SeedProducts, b \in Combos : q # p \/ b # c => skuRows'[q][b] = skuRows[q][b]
  <2>1. PICK d : d = [skuRows[p][c] EXCEPT !.reserved = @ + 1]
    OBVIOUS
  <2>2. d \in [there : BOOLEAN, reserved : Nat] /\ d.reserved = 1 /\ d.there
    BY <1>2, <1>3, <2>1
  <2>3. skuRows' = [skuRows EXCEPT ![p][c] = d]
    BY <1>1, <1>3, <2>1 DEF OrderBag
  <2> QED BY <1>3, <2>2, <2>3
<1>5. /\ ordered' \in [open : BOOLEAN, line : SkuLine \cup {NoSkuLine}, linked : BOOLEAN]
      /\ ordered'.line = l
      /\ \A q, b : Holds(q, b)' <=> (q = p /\ b = c)
  <2>1. ordered' = [open |-> TRUE, line |-> l, linked |-> TRUE]
    BY <1>1 DEF OrderBag
  <2> QED BY <1>1, <2>1 DEF Holds
<1>6. TradeInv'
  <2>1. \A q, b : ~Holds(q, b)
    BY <1>1 DEF Holds
  <2>2. \A q \in SeedProducts, b \in Combos :
           seedBag.line = [of |-> q, combo |-> b] => skuRows'[q][b].there
    <3>1. \A q \in SeedProducts, b \in Combos : seedBag.line = [of |-> q, combo |-> b] => skuRows[q][b].there
      BY DEF SeedInv, TradeInv
    <3> QED BY <1>4, <3>1
  <2>3. seedBag' \in [cart : BOOLEAN, line : SkuLine \cup {NoSkuLine}]
    BY <1>1 DEF SeedInv, TradeInv
  <2>4. \A q \in SeedProducts, b \in Combos : q # p \/ b # c => skuRows'[q][b].reserved = 0
    <3>1. \A q \in SeedProducts, b \in Combos : skuRows[q][b].reserved = 0
      BY <2>1 DEF SeedInv, TradeInv
    <3> QED BY <1>4, <3>1
  <2>5. \A q \in SeedProducts, b \in Combos :
           /\ Holds(q, b)' => skuRows'[q][b].there /\ skuRows'[q][b].reserved = 1
           /\ ~Holds(q, b)' => skuRows'[q][b].reserved = 0
    BY ONLY <1>4, <1>5, <2>4
  <2>6. ordered'.line \in SkuLine
    BY <1>1, <1>5
  <2>7. /\ skuRows' \in [SeedProducts -> [Combos -> [there : BOOLEAN, reserved : Nat]]]
        /\ ordered' \in [open : BOOLEAN, line : SkuLine \cup {NoSkuLine}, linked : BOOLEAN]
    BY <1>4, <1>5
  <2>8. \A q \in SeedProducts, b \in Combos :
           seedBag'.line = [of |-> q, combo |-> b] => skuRows'[q][b].there
    BY <1>1, <2>2
  <2> QED BY ONLY <2>3, <2>5, <2>6, <2>7, <2>8 DEF TradeInv
<1> QED BY <1>1, <1>4, <1>6, ShopKeeps

LEMMA PayKeeps == SeedInv /\ PayOrder => SeedInv'
<1> SUFFICES ASSUME SeedInv, PayOrder PROVE SeedInv'
  OBVIOUS
<1> PICK l : l = ordered.line
  OBVIOUS
<1>1. l \in SkuLine /\ ordered.open /\ RestOfShop /\ l = ordered.line
  BY DEF PayOrder, SeedInv, TradeInv
<1> PICK p \in SeedProducts, c \in Combos : l.of = p /\ l.combo = c
  BY <1>1 DEF SkuLine
<1>2. /\ skuRows' \in [SeedProducts -> [Combos -> [there : BOOLEAN, reserved : Nat]]]
      /\ skuRows'[p][c].reserved = 0 /\ skuRows'[p][c].there = skuRows[p][c].there
      /\ \A q \in SeedProducts, b \in Combos : q # p \/ b # c => skuRows'[q][b] = skuRows[q][b]
  <2>1. CASE ordered.linked
    <3>1. Holds(p, c) /\ skuRows[p][c].reserved = 1
      BY <1>1, <2>1 DEF Holds, SeedInv, TradeInv
    <3>2. skuRows \in [SeedProducts -> [Combos -> [there : BOOLEAN, reserved : Nat]]]
      BY DEF SeedInv, TradeInv
    <3>3. PICK d : d = [skuRows[p][c] EXCEPT !.reserved = @ - 1]
      OBVIOUS
    <3>4. d \in [there : BOOLEAN, reserved : Nat] /\ d.reserved = 0 /\ d.there = skuRows[p][c].there
      BY <3>1, <3>2, <3>3
    <3>5. skuRows' = [skuRows EXCEPT ![p][c] = d]
      BY <1>1, <2>1, <3>2, <3>3 DEF PayOrder
    <3> QED BY <3>2, <3>4, <3>5
  <2>2. CASE ~ordered.linked
    <3>1. ~Holds(p, c) /\ skuRows' = skuRows
      BY <2>2 DEF PayOrder, Holds
    <3> QED BY <3>1 DEF SeedInv, TradeInv
  <2> QED BY <2>1, <2>2
<1>3. /\ ordered' \in [open : BOOLEAN, line : SkuLine \cup {NoSkuLine}, linked : BOOLEAN]
      /\ ~ordered'.open /\ \A q, b : ~Holds(q, b)'
  <2>1. ordered' = NoSeedOrder /\ NoSeedOrder \in [open : BOOLEAN, line : SkuLine \cup {NoSkuLine}, linked : BOOLEAN]
        /\ ~NoSeedOrder.open
    BY DEF PayOrder, NoSeedOrder
  <2> QED BY <2>1 DEF Holds
<1>4. seedBag' \in [cart : BOOLEAN, line : SkuLine \cup {NoSkuLine}] /\ seedBag'.line = NoSkuLine
  BY DEF PayOrder, SeedInv, TradeInv
<1>5. TradeInv'
  <2>1. \A q, b : NoSkuLine # [of |-> q, combo |-> b]
    BY DEF NoSkuLine
  <2>2. \A q \in SeedProducts, b \in Combos : q # p \/ b # c => ~Holds(q, b)
    BY <1>1 DEF Holds
  <2> QED BY <1>2, <1>3, <1>4, <2>1, <2>2 DEF SeedInv, TradeInv
<1> QED BY <1>1, <1>2, <1>5, ShopKeeps

LEMMA SeedSteps == SeedInv /\ [SeedNext]_seedVars => SeedInv'
<1> SUFFICES ASSUME SeedInv, [SeedNext]_seedVars PROVE SeedInv'
  OBVIOUS
<1>1. CASE UNCHANGED seedVars
  <2>1. (\A do, of : Past(do, of)' <=> Past(do, of))
    BY <1>1 DEF Past, seedVars
  <2> QED BY <1>1, <2>1, StructStays, BuildStays, TradeStays DEF SeedInv, seedVars
<1>2. ASSUME NEW p \in SeedProducts,
             \/ UpsertProduct(p) \/ ClearImages(p) \/ FillImages(p) \/ DropSkus(p)
             \/ \E c \in Combos : CreateSku(p, c) \/ AddToBag(p, c)
      PROVE  SeedInv'
  BY <1>2, BuildStepKeeps, DropKeeps, CreateSkuKeeps, BagKeeps
<1> QED BY <1>1, <1>2, RunKeeps, SeedClearKeeps, FillSetKeeps, SeedUpsertKeeps, LookUpKeeps, CreateKeeps, RetireKeeps,
           ClearCartsKeeps, BuiltKeeps, SeedEditKeeps, OrderKeeps, PayKeeps DEF SeedNext

LEMMA SeedIs == SeedInv => SeedIsRepeatable
<1> SUFFICES ASSUME SeedInv PROVE SeedIsRepeatable
  OBVIOUS
<1>1. SeedRepairs
  <2> SUFFICES ASSUME seedAt = Finished PROVE SeedRepairs
    BY DEF SeedRepairs
  <2>1. \A do, of : Past(do, of) <=> \E i \in 1 .. 21 : Script[i] = Do(do, of)
    BY ScriptIs DEF Past, Finished, ScriptOrder
  <2>2. /\ \A k \in RowKinds : Past("create", k)
        /\ \A s \in SetKinds : Past("fill", s)
        /\ \A v \in ValueKinds : Past("upsert", v)
        /\ Past("build", "products")
    BY <2>1, ScriptIs DEF ScriptOrder
  <2>3. /\ \A k \in RowKinds \ (touchedBy \cup repeated) : rowsOf[k] >= 1
        /\ \A s \in SetKinds \ (touchedBy \cup repeated) : setOf[s] = "seeded"
        /\ \A v \in ValueKinds : valueOf[v] # "missing"
    BY <2>2 DEF SeedInv, StructInv, RowsAre, SetsAre, ValuesAre
  <2>4. \A p \in SeedProducts :
              /\ productRow[p] = "seeded" /\ images[p] # "empty"
              /\ images[p] = "twice" => "products" \in repeated
              /\ \A c \in Combos : skuRows[p][c].there
    BY <2>2 DEF SeedInv, BuildInv
  <2> QED BY <2>3, <2>4 DEF SeedRepairs
<1>2. NothingTwice
  BY DEF SeedInv, StructInv, RowsAre, NothingTwice
<1>3. LinkedIsReserved
  BY DEF SeedInv, TradeInv, Holds, LinkedIsReserved, SkuLine
<1> QED BY <1>1, <1>2, <1>3 DEF SeedIsRepeatable

(* The seed script may be run again: whatever stopped, raced or repeated       *)
(* before, a run that gets to its end leaves every row there and every         *)
(* product for sale, nothing twice unless a statement was repeated or an       *)
(* administrator edited, and no linked order line without its reserved unit;   *)
(* for any number of products, runs, edits and customers (prisma/seed.ts).     *)
THEOREM SeedHolds == SeedSpec => []SeedIsRepeatable
  BY SeedIs, SeedStarts, SeedSteps, PTL DEF SeedSpec

-----------------------------------------------------------------------------

-----------------------------------------------------------------------------
(* One product. *)

(* A list is filled in the statement FillStep of a save, the variants are    *)
(* dropped and added in DropStep and AddStep; 20 is never.                   *)
FillStep(op, l) ==
    CASE op = "create" -> [categories |-> 3, collections |-> 5, tags |-> 7, seo |-> 8, options |-> 9][l]
      [] op = "update" -> [categories |-> 3, collections |-> 5, tags |-> 7, seo |-> 8, options |-> 12][l]
      [] op = "import" -> [categories |-> 3, collections |-> 20, tags |-> 5, seo |-> 20, options |-> 8][l]
DropStep(op) == CASE op = "create" -> 0 [] op = "update" -> 10 [] op = "import" -> 6
AddStep(op) == CASE op = "create" -> 10 [] op = "update" -> 13 [] op = "import" -> 9

MainLists == Lists \ {"collections", "seo"}

(* Types, and where a save in flight can be. *)
ProductRows ==
    /\ product \in Product /\ variant \in [VariantIds -> Variant] /\ variants \in 0..MaxVariants
    /\ list \in [Lists -> SUBSET SaveIds]
    /\ orderLine \in Seq(VariantIds \cup {0})
    /\ \A o \in DOMAIN orderLine : orderLine[o] \in 0..variants
ProductSaves ==
    /\ saving \in [Admins -> Saving]
    /\ saves \in Nat /\ changes \in Nat /\ saves + changes <= MaxWork
    /\ \A a \in Busy : /\ saving[a].step \in 1..(AddStep(saving[a].op) + 1)
                       /\ saving[a].by <= saves
                       /\ saving[a].step > 1 => product.there
ProductSearch ==
    /\ index \in Document /\ tasks \subseteq Task
    /\ tasks # {} => product.there
    /\ \A t \in tasks : t.at # "put" => t.doc = Missing
ProductFlags == /\ mixed \in BOOLEAN /\ priceRaced \in BOOLEAN /\ rebuilt \in BOOLEAN
                /\ lineAdded \in BOOLEAN /\ blocked \in BOOLEAN /\ unsynced \in BOOLEAN
ProductTyped == ProductRows /\ ProductSaves /\ ProductSearch /\ ProductFlags

(* What is there between saves. *)
NothingThere == (\A l \in Lists : list[l] = {}) /\ Present = {}
OneSave ==
    \E s \in 0..saves :
        /\ \A l \in MainLists : list[l] = {s}
        /\ \A i \in Present : variant[i].by = s
        /\ {variant[i].sku : i \in Present} = Skus

(* What a save in flight has done: filled lists hold its rows only, a list   *)
(* about to be filled is empty, and the variants are its own from where the  *)
(* earlier ones were dropped, of the SKUs it has already added.              *)
ListsSoFar(s) ==
    \A l \in Lists :
        /\ \/ s.op = "create" /\ s.step <= FillStep(s.op, l)
           \/ s.step = FillStep(s.op, l) /\ l # "seo"
           => list[l] = {}
        /\ l \in MainLists /\ s.step > FillStep(s.op, l) => list[l] = {s.by}
VariantsSoFar(s) ==
    /\ s.step > DropStep(s.op) => \A i \in Present : variant[i].by = s.by /\ variant[i].sku \notin s.left
    /\ s.step > DropStep(s.op) => \A k \in Skus \ s.left : \E i \in Present : variant[i].sku = k
    /\ s.step < AddStep(s.op) => s.left = Skus
    /\ s.step > AddStep(s.op) => s.left = {}
WholeInv ==
    ~mixed =>
        /\ \A a, b \in Busy : a = b
        /\ Busy = {} => IF product.there THEN OneSave ELSE NothingThere
        /\ \A l \in Lists \ MainLists : list[l] = {} \/ \E s \in SaveIds : list[l] = {s}
        /\ \A a \in Busy : ListsSoFar(saving[a]) /\ VariantsSoFar(saving[a])

(* A save that has compared prices is the only one about to write them, and  *)
(* compared what is still there.                                             *)
PriceInv ==
    ~priceRaced =>
        /\ product.sale <= product.mrp
        /\ \A a, b \in Comparing : a = b
        /\ \A a \in Comparing :
              /\ saving[a].sale <= saving[a].mrp
              /\ "mrp" \notin saving[a].sent => saving[a].mrp = product.mrp
              /\ "sale" \notin saving[a].sent => saving[a].sale = product.sale

(* Carts stay clear from where a save of the form clears them.               *)
LinesInv ==
    ~lineAdded =>
        /\ ~blocked
        /\ \A a \in Busy : saving[a].op = "update" /\ saving[a].step = DropStep("update") =>
              \A i \in Present : ~variant[i].inCart

(* One update of the index at a time; what it or the index says is the       *)
(* product's, unless a save that has written will still ask for another.  A  *)
(* rebuild that has not read may put nothing: then the index was right.      *)
WrittenYet == \E a \in Busy : saving[a].step > 1
IndexInv ==
    ~unsynced =>
        /\ \A t, u \in tasks : t = u
        /\ tasks = {} => index = Current \/ WrittenYet
        /\ \A t \in tasks : t.at # "read" => t.doc = Current \/ WrittenYet
        /\ \A t \in tasks : t.at = "read" /\ t.of = "all" => index = Current \/ WrittenYet

ProductInv == ProductTyped /\ WholeInv /\ PriceInv /\ OrdersKeepVariants /\ LinesInv /\ IndexInv

(* The statements of each kind of save, by their number. *)
LEMMA CreateRows ==
    LET r == Steps["create"] IN
    /\ Len(r) = 11
    /\ r[1] = Write /\ r[2] = Clear("categories") /\ r[3] = Fill("categories")
    /\ r[4] = Clear("collections") /\ r[5] = Fill("collections") /\ r[6] = Clear("tags")
    /\ r[7] = Fill("tags") /\ r[8] = Fill("seo") /\ r[9] = Fill("options") /\ r[10] = AddVariants
    /\ r[11] = Reindex
<1>1. Steps["create"] = <<Write>> \o (<<Clear("categories"), Fill("categories")>>
          \o <<Clear("collections"), Fill("collections")>> \o <<Clear("tags"), Fill("tags")>>
          \o <<Fill("seo")>>) \o <<Fill("options"), AddVariants, Reindex>>
  BY Zenon DEF Steps, Relations, Replace
<1> QED BY <1>1

LEMMA UpdateRows ==
    LET r == Steps["update"] IN
    /\ Len(r) = 14
    /\ r[1] = Write /\ r[2] = Clear("categories") /\ r[3] = Fill("categories")
    /\ r[4] = Clear("collections") /\ r[5] = Fill("collections") /\ r[6] = Clear("tags")
    /\ r[7] = Fill("tags") /\ r[8] = Fill("seo") /\ r[9] = Lines /\ r[10] = DropVariants
    /\ r[11] = Clear("options") /\ r[12] = Fill("options") /\ r[13] = AddVariants /\ r[14] = Reindex
<1>1. Steps["update"] = <<Write>> \o (<<Clear("categories"), Fill("categories")>>
          \o <<Clear("collections"), Fill("collections")>> \o <<Clear("tags"), Fill("tags")>>
          \o <<Fill("seo")>>)
          \o <<Lines, DropVariants, Clear("options"), Fill("options"), AddVariants, Reindex>>
  BY Zenon DEF Steps, Relations, Replace
<1> QED BY <1>1

LEMMA ImportRows ==
    LET r == Steps["import"] IN
    /\ Len(r) = 10
    /\ r[1] = Write /\ r[2] = Clear("categories") /\ r[3] = Fill("categories") /\ r[4] = Clear("tags")
    /\ r[5] = Fill("tags") /\ r[6] = DropVariants /\ r[7] = Clear("options") /\ r[8] = Fill("options")
    /\ r[9] = AddVariants /\ r[10] = Reindex
<1>1. Steps["import"] = <<Write>> \o <<Clear("categories"), Fill("categories")>>
          \o <<Clear("tags"), Fill("tags")>>
          \o <<DropVariants, Clear("options"), Fill("options"), AddVariants, Reindex>>
  BY Zenon DEF Steps, Replace
<1> QED BY <1>1

(* Where a save is when it is at a statement. *)
LEMMA Places ==
    ASSUME NEW op \in SaveOps, NEW n \in 1..(AddStep(op) + 1)
    PROVE  /\ Steps[op][n] = Write <=> n = 1
           /\ \A l \in Lists : Steps[op][n] = Fill(l) => n = FillStep(op, l)
           /\ \A l \in Lists : Steps[op][n] = Clear(l) =>
                 /\ n + 1 = FillStep(op, l) /\ l # "seo"
                 /\ op = "create" => l # "options"
           /\ Steps[op][n] = Lines => op = "update" /\ n = 9
           /\ Steps[op][n] = DropVariants <=> op # "create" /\ n = DropStep(op)
           /\ Steps[op][n] = AddVariants => n = AddStep(op)
           /\ Steps[op][n] = Reindex => n = AddStep(op) + 1
<1> USE DEF Write, Clear, Fill, Lines, DropVariants, AddVariants, Reindex, Lists, FillStep, DropStep,
            AddStep
<1>1. CASE op = "create"
  <2>1. n \in 1..11
    BY <1>1
  <2> QED BY <1>1, <2>1, CreateRows
<1>2. CASE op = "update"
  <2>1. n \in 1..14
    BY <1>2
  <2> QED BY <1>2, <2>1, UpdateRows
<1>3. CASE op = "import"
  <2>1. n \in 1..10
    BY <1>3
  <2> QED BY <1>3, <2>1, ImportRows
<1> QED BY <1>1, <1>2, <1>3 DEF SaveOps

LEMMA StepNumbers ==
    ASSUME NEW op \in SaveOps
    PROVE  /\ AddStep(op) \in 9..13 /\ DropStep(op) \in 0..10 /\ DropStep(op) < AddStep(op)
           /\ op = "create" <=> DropStep(op) = 0
           /\ op # "create" => DropStep(op) > 1
           /\ op = "update" => DropStep(op) = 10
           /\ \A l \in Lists : /\ FillStep(op, l) \in 3..20
                               /\ FillStep(op, l) = 20 \/ FillStep(op, l) < AddStep(op)
                               /\ op # "create" => FillStep(op, l) # DropStep(op) + 1
                               /\ FillStep(op, l) # DropStep(op)
                               /\ op = "update" => FillStep(op, l) \notin {9, 10}
           /\ \A l \in MainLists : FillStep(op, l) < AddStep(op)
           /\ \A l, m \in Lists : FillStep(op, l) < 20 /\ l # m =>
                 /\ FillStep(op, l) # FillStep(op, m)
                 /\ m # "seo" /\ (op = "create" => m # "options") =>
                       FillStep(op, l) + 1 # FillStep(op, m)
BY DEF AddStep, DropStep, FillStep, MainLists, Lists, SaveOps

(* What is known of a save that is at a statement. *)
LEMMA SaveIsAt ==
    ASSUME ProductTyped, NEW a \in Admins, saving[a].op # "none"
    PROVE  /\ a \in Busy /\ saving[a] \in Saving /\ saving[a].op \in SaveOps
           /\ saving[a].step \in 1..(AddStep(saving[a].op) + 1) /\ saving[a].by \in 0..saves
           /\ saving[a].step > 1 => product.there
           /\ At2(a, Write) <=> saving[a].step = 1
           /\ \A l \in Lists : At2(a, Fill(l)) => saving[a].step = FillStep(saving[a].op, l)
           /\ \A l \in Lists : At2(a, Clear(l)) =>
                 /\ saving[a].step + 1 = FillStep(saving[a].op, l) /\ l # "seo"
                 /\ saving[a].op = "create" => l # "options"
           /\ At2(a, Lines) => saving[a].op = "update" /\ saving[a].step = 9
           /\ At2(a, DropVariants) <=>
                 saving[a].op # "create" /\ saving[a].step = DropStep(saving[a].op)
           /\ At2(a, AddVariants) => saving[a].step = AddStep(saving[a].op)
           /\ At2(a, Reindex) => saving[a].step = AddStep(saving[a].op) + 1
<1>1. a \in Busy /\ saving[a] \in Saving
  BY DEF Busy, ProductTyped, ProductSaves
<1>2. saving[a].op \in SaveOps /\ saving[a].by \in Nat /\ saves \in Nat
  BY <1>1 DEF Saving, SaveIds, ProductTyped, ProductSaves
<1>3. /\ saving[a].step \in 1..(AddStep(saving[a].op) + 1) /\ saving[a].by \in 0..saves
      /\ saving[a].step > 1 => product.there
  BY <1>1, <1>2 DEF ProductTyped, ProductSaves
<1>4. \A w : At2(a, w) <=> Steps[saving[a].op][saving[a].step] = w
  BY DEF At2, Step
<1> QED BY <1>1, <1>2, <1>3, <1>4, Places

(* One save goes on to its next statement. *)
LEMMA OnwardIs ==
    ASSUME ProductTyped, NEW a \in Admins, saving[a].op # "none",
           saving[a].step <= AddStep(saving[a].op), Onward(a)
    PROVE  /\ saving' \in [Admins -> Saving]
           /\ \A b \in Admins : b # a => saving'[b] = saving[b]
           /\ saving'[a].op = saving[a].op /\ saving'[a].step = saving[a].step + 1
           /\ saving'[a].by = saving[a].by /\ saving'[a].left = saving[a].left
           /\ Busy' = Busy /\ a \in Busy /\ Comparing' = Comparing \ {a}
<1> DEFINE s == saving[a]
           r == [s EXCEPT !.step = @ + 1]
<1>0. saving \in [Admins -> Saving]
  BY DEF ProductTyped, ProductSaves
<1>1. s \in Saving /\ s.op \in SaveOps /\ s.step \in 1..AddStep(s.op) /\ AddStep(s.op) \in 9..13
  BY SaveIsAt, StepNumbers
<1>2. r \in Saving /\ r.op = s.op /\ r.step = s.step + 1 /\ r.by = s.by /\ r.left = s.left
  BY <1>1 DEF Saving
<1>3. saving' = [saving EXCEPT ![a] = r]
  BY DEF Onward
<1> HIDE DEF s, r
<1>4. saving'[a] = r /\ \A b \in Admins : b # a => saving'[b] = saving[b]
  BY <1>0, <1>3
<1>5. saving' \in [Admins -> Saving]
  BY <1>0, <1>2, <1>3
<1> QED BY <1>1, <1>2, <1>4, <1>5 DEF Busy, Comparing, s

LEMMA NoSaveOK == NoSave \in Saving
<1>1. SomePrice \in Prices
  BY ProductAssumption DEF SomePrice
<1>2. 0 \in SaveIds
  BY ProductAssumption DEF SaveIds
<1> QED BY <1>1, <1>2 DEF NoSave, Saving, ProductStatus

(* One save ends, or is refused. *)
LEMMA EndIs ==
    ASSUME ProductTyped, NEW a \in Admins, saving' = [saving EXCEPT ![a] = NoSave]
    PROVE  /\ saving' \in [Admins -> Saving] /\ saving'[a].op = "none"
           /\ \A b \in Admins : b # a => saving'[b] = saving[b]
           /\ Busy' = Busy \ {a} /\ Comparing' = Comparing \ {a}
<1>0. saving \in [Admins -> Saving]
  BY DEF ProductTyped, ProductSaves
<1>1. NoSave \in Saving /\ NoSave.op = "none"
  BY NoSaveOK DEF NoSave
<1>2. saving'[a] = NoSave /\ \A b \in Admins : b # a => saving'[b] = saving[b]
  BY <1>0
<1> QED BY <1>0, <1>1, <1>2 DEF Busy, Comparing

(* What one save does to itself: the others stay where they are. *)
Others(a) == \A b \in Admins : b # a => saving'[b] = saving[b]

LEMMA SavesGoOn ==
    ASSUME ProductTyped, NEW a \in Admins, saving[a].op # "none",
           saving[a].step <= AddStep(saving[a].op), saving' \in [Admins -> Saving], Others(a),
           saving'[a].op = saving[a].op, saving'[a].by = saving[a].by,
           saving'[a].step \in {saving[a].step, saving[a].step + 1}, Busy' = Busy,
           UNCHANGED <<saves, changes>>, product'.there
    PROVE  ProductSaves'
<1>1. /\ saving[a].op \in SaveOps /\ saving[a].step \in 1..(AddStep(saving[a].op) + 1)
      /\ saving[a].by \in 0..saves /\ AddStep(saving[a].op) \in 9..13
  BY SaveIsAt, StepNumbers
<1>2. ASSUME NEW b \in Busy'
      PROVE  /\ saving'[b].step \in 1..(AddStep(saving'[b].op) + 1)
             /\ saving'[b].by <= saves'
  <2>1. b \in Busy /\ b \in Admins
    BY <1>2 DEF Busy
  <2>2. CASE b = a
    BY <2>2, <1>1
  <2>3. CASE b # a
    BY <2>1, <2>3 DEF Others, ProductTyped, ProductSaves
  <2> QED BY <2>2, <2>3
<1> QED BY <1>2 DEF ProductTyped, ProductSaves

LEMMA SavesEnd ==
    ASSUME ProductTyped, NEW a \in Admins, saving' \in [Admins -> Saving], Others(a),
           Busy' = Busy \ {a}, saves' = saves, changes' \in {changes, changes + 1},
           saves + changes' <= MaxWork, product.there => product'.there
    PROVE  ProductSaves'
<1>1. ASSUME NEW b \in Busy'
      PROVE  /\ saving'[b].step \in 1..(AddStep(saving'[b].op) + 1)
             /\ saving'[b].by <= saves'
             /\ saving'[b].step > 1 => product'.there
  <2>1. b \in Busy /\ b \in Admins /\ b # a
    BY <1>1 DEF Busy
  <2> QED BY <2>1 DEF Others, ProductTyped, ProductSaves
<1> QED BY <1>1 DEF ProductTyped, ProductSaves

(* A save that goes on or ends leaves the prices and what others compared.   *)
LEMMA PricesRest ==
    ASSUME ProductTyped, PriceInv, NEW a \in Admins, Others(a), a \notin Comparing',
           product'.sale = product.sale, product'.mrp = product.mrp,
           priceRaced' = priceRaced
    PROVE  PriceInv'
<1>1. \A b \in Comparing' : b \in Comparing /\ saving'[b] = saving[b]
  BY DEF Others, Comparing
<1> QED BY <1>1 DEF PriceInv

(* The index, when a save that has not ended stays or goes on. *)
LEMMA IndexRests ==
    ASSUME IndexInv, UNCHANGED <<index, tasks, product, unsynced>>, WrittenYet => WrittenYet'
    PROVE  IndexInv'
BY DEF IndexInv, Current

LEMMA StillWritten ==
    ASSUME ProductTyped, NEW a \in Admins, Others(a), Busy \subseteq Busy',
           saving[a].step > 1 => saving'[a].step > 1
    PROVE  WrittenYet => WrittenYet'
BY DEF WrittenYet, Others, Busy

LEMMA LinesRest ==
    ASSUME ProductTyped, LinesInv, NEW a \in Admins, Others(a), UNCHANGED <<lineAdded, blocked>>,
           Busy' \subseteq Busy,
           ~(a \in Busy' /\ saving'[a].op = "update" /\ saving'[a].step = DropStep("update")),
           \A i \in Present' : variant'[i].inCart => i \in Present /\ variant[i].inCart
    PROVE  LinesInv'
<1>1. \A b \in Busy' : b # a => b \in Busy /\ saving'[b] = saving[b]
  BY DEF Others, Busy
<1> QED BY <1>1 DEF LinesInv

(* A save starts. *)
LEMMA BeginIs ==
    ASSUME ProductTyped, NEW a \in Admins, NEW op \in SaveOps, NEW mrp \in Prices, NEW sale \in Prices,
           NEW named \in SUBSET {"mrp", "sale"}, NEW status \in FormStatus,
           Begin(a, op, mrp, sale, named, status)
    PROVE  /\ saving' \in [Admins -> Saving] /\ Others(a) /\ saving[a].op = "none"
           /\ saving'[a].op = op /\ saving'[a].step = 1 /\ saving'[a].by = saves + 1
           /\ saving'[a].left = Skus /\ saving'[a].mrp = mrp /\ saving'[a].sale = sale
           /\ saving'[a].sent = named
           /\ a \notin Busy /\ Busy' = Busy \cup {a} /\ Comparing' = Comparing \cup {a}
           /\ saves' = saves + 1 /\ saves + changes < MaxWork
<1> DEFINE r == [op |-> op, step |-> 1, by |-> saves + 1, status |-> status, mrp |-> mrp,
                 sale |-> sale, sent |-> named, left |-> Skus]
<1>0. saving \in [Admins -> Saving] /\ saves \in Nat /\ changes \in Nat
  BY DEF ProductTyped, ProductSaves
<1>1. saves + 1 \in SaveIds /\ status \in ProductStatus
  BY <1>0, ProductAssumption DEF Begin, SaveIds, ProductStatus
<1>2. r \in Saving
  BY <1>1 DEF Saving
<1>3. saving' = [saving EXCEPT ![a] = r] /\ saving[a].op = "none"
  BY DEF Begin
<1>4. saving'[a] = r /\ \A b \in Admins : b # a => saving'[b] = saving[b]
  BY <1>0, <1>3
<1>5. saving' \in [Admins -> Saving]
  BY <1>0, <1>2, <1>3
<1>6. /\ r.op = op /\ r.step = 1 /\ r.by = saves + 1 /\ r.left = Skus /\ r.mrp = mrp
      /\ r.sale = sale /\ r.sent = named
  OBVIOUS
<1> HIDE DEF r
<1>7. op # "none"
  BY DEF SaveOps
<1>8. Busy' = Busy \cup {a} /\ Comparing' = Comparing \cup {a} /\ a \notin Busy
  BY <1>3, <1>4, <1>6, <1>7 DEF Busy, Comparing
<1> QED BY <1>3, <1>4, <1>5, <1>6, <1>8 DEF Begin, Others

LEMMA ProductBeginKeeps ==
    ASSUME ProductInv, NEW a \in Admins, NEW op \in SaveOps, NEW mrp \in Prices, NEW sale \in Prices,
           NEW named \in SUBSET {"mrp", "sale"}, NEW status \in FormStatus,
           Begin(a, op, mrp, sale, named, status), op = "create" => ~product.there,
           sale <= mrp, "mrp" \in named \/ mrp = product.mrp, "sale" \in named \/ sale = product.sale
    PROVE  ProductInv'
<1>0. ProductTyped /\ WholeInv /\ PriceInv /\ OrdersKeepVariants /\ LinesInv /\ IndexInv
  BY DEF ProductInv
<1>b. /\ saving' \in [Admins -> Saving] /\ Others(a) /\ saving[a].op = "none"
      /\ saving'[a].op = op /\ saving'[a].step = 1 /\ saving'[a].by = saves + 1
      /\ saving'[a].left = Skus /\ saving'[a].mrp = mrp /\ saving'[a].sale = sale
      /\ saving'[a].sent = named
      /\ a \notin Busy /\ Busy' = Busy \cup {a} /\ Comparing' = Comparing \cup {a}
      /\ saves' = saves + 1 /\ saves + changes < MaxWork
  BY <1>0, BeginIs
<1>u. UNCHANGED <<product, list, variant, variants, orderLine, changes, index, tasks, rebuilt,
                  lineAdded, blocked, unsynced>>
  BY DEF Begin, productParts, searchParts
<1>s. saves \in Nat /\ changes \in Nat /\ MaxWork \in Nat
  BY <1>0, ProductAssumption DEF ProductTyped, ProductSaves
<1>n. /\ AddStep(op) \in 9..13
      /\ op = "create" <=> DropStep(op) = 0
      /\ op # "create" => DropStep(op) > 1
      /\ \A l \in Lists : FillStep(op, l) \in 3..20
  BY StepNumbers
<1>1. ProductTyped'
  <2>1. ProductRows' /\ ProductSearch'
    BY <1>0, <1>u DEF ProductTyped, ProductRows, ProductSearch, Present
  <2>2. ProductSaves'
    <3>1. ASSUME NEW b \in Busy'
          PROVE  /\ saving'[b].step \in 1..(AddStep(saving'[b].op) + 1)
                 /\ saving'[b].by <= saves'
                 /\ saving'[b].step > 1 => product'.there
      <4>1. CASE b = a
        <5>1. saving'[b].step = 1 /\ saving'[b].by = saves'
          BY <4>1, <1>b
        <5>2. saving'[b].op = op
          BY <4>1, <1>b
        <5>3. 1 \in 1..(AddStep(op) + 1) /\ saves' <= saves' /\ ~(1 > 1)
          BY <1>n, <1>b, <1>s
        <5> QED BY <5>1, <5>2, <5>3
      <4>2. CASE b # a
        <5>1. b \in Busy /\ b \in Admins /\ saving'[b] = saving[b]
          BY <4>2, <3>1, <1>b DEF Others, Busy
        <5>2. saving[b].by \in Nat /\ saves \in Nat
          BY <5>1, <1>0 DEF ProductTyped, ProductSaves, Saving, SaveIds
        <5> QED BY <5>1, <5>2, <1>0, <1>b, <1>u DEF ProductTyped, ProductSaves
      <4> QED BY <4>1, <4>2
    <3>2. saves' \in Nat /\ changes' \in Nat /\ saves' + changes' <= MaxWork
      BY <1>s, <1>b, <1>u
    <3> QED BY <3>1, <3>2, <1>b DEF ProductSaves
  <2>3. ProductFlags'
    BY <1>0, <1>u DEF ProductTyped, ProductFlags, Begin
  <2> QED BY <2>1, <2>2, <2>3 DEF ProductTyped
<1>2. WholeInv'
  <2>1. ASSUME ~mixed'
        PROVE  /\ Busy' = {a} /\ ~mixed /\ Busy = {}
    BY <2>1, <1>b DEF Begin
  <2>2. ASSUME ~mixed'
        PROVE  ListsSoFar(saving[a])' /\ VariantsSoFar(saving[a])'
    <3>1. op = "create" => NothingThere
      BY <2>1, <2>2, <1>0 DEF WholeInv
    <3>2. ListsSoFar(saving[a])'
      BY <3>1, <1>b, <1>n, <1>u DEF ListsSoFar, NothingThere, MainLists
    <3>3. VariantsSoFar(saving[a])'
      <4>1. 1 > DropStep(op) => op = "create"
        BY <1>n, StepNumbers
      <4>2. 1 > DropStep(op) => Present' = {}
        BY <4>1, <3>1, <1>u DEF NothingThere, Present
      <4>3. Skus \ Skus = {} /\ 1 < AddStep(op) /\ ~(1 > AddStep(op))
        BY <1>n
      <4> HIDE DEF Present
      <4> QED BY <4>2, <4>3, <1>b DEF VariantsSoFar
    <3> QED BY <3>2, <3>3
  <2> QED BY <2>1, <2>2, <1>0, <1>u DEF WholeInv
<1>3. PriceInv'
  BY <1>0, <1>b, <1>u DEF PriceInv, Begin, Others, Comparing
<1>4. OrdersKeepVariants'
  BY <1>0, <1>u DEF OrdersKeepVariants, Present
<1>5. LinesInv'
  <2>1. DropStep("update") = 10
    BY DEF DropStep
  <2> QED BY <2>1, <1>0, <1>b, <1>u DEF LinesInv, Present, Others, Busy
<1>6. IndexInv'
  <2>1. WrittenYet => WrittenYet'
    BY <1>b DEF WrittenYet, Others, Busy
  <2> QED BY <2>1, <1>0, <1>u, IndexRests
<1> QED BY <1>1, <1>2, <1>3, <1>4, <1>5, <1>6 DEF ProductInv

LEMMA StartKeeps ==
    ASSUME ProductInv, NEW a \in Admins, StartSave(a)
    PROVE  ProductInv'
<1>0. product.mrp \in Prices /\ product.sale \in Prices /\ {"mrp", "sale"} \in SUBSET {"mrp", "sale"}
  BY DEF ProductInv, ProductTyped, ProductRows, Product
<1>1. CASE createProduct(a)
  <2>1. PICK mrp \in Prices, sale \in Prices, status \in FormStatus :
            ~product.there /\ sale <= mrp /\ Begin(a, "create", mrp, sale, {"mrp", "sale"}, status)
    BY <1>1 DEF createProduct
  <2> QED BY <2>1, <1>0, ProductBeginKeeps DEF SaveOps
<1>2. CASE updateProduct(a)
  <2>1. PICK mrp \in Prices, sale \in Prices, status \in FormStatus, named \in SUBSET {"mrp", "sale"} :
            /\ "mrp" \notin named => mrp = product.mrp
            /\ "sale" \notin named => sale = product.sale
            /\ sale <= mrp
            /\ Begin(a, "update", mrp, sale, named, status)
    BY <1>2 DEF updateProduct, UpdateWith
  <2> QED BY <2>1, ProductBeginKeeps DEF SaveOps
<1>3. CASE importProduct(a)
  <2>1. PICK mrp \in Prices, sale \in Prices, status \in FormStatus :
            sale <= mrp /\ Begin(a, "import", mrp, sale, {"mrp", "sale"}, status)
    BY <1>3 DEF importProduct
  <2> QED BY <2>1, <1>0, ProductBeginKeeps DEF SaveOps
<1> QED BY <1>1, <1>2, <1>3 DEF StartSave

(* A save ends half way: it leaves the rows, and the history says so. *)
LEMMA ThrowsKeeps ==
    ASSUME ProductInv, NEW a \in Admins, Throws(a),
           UNCHANGED <<product, list, variant, variants, orderLine, saves, index, tasks, priceRaced,
                       rebuilt, lineAdded>>,
           changes' \in {changes, changes + 1}, saves + changes' <= MaxWork,
           blocked' = blocked \/ (lineAdded /\ blocked' \in BOOLEAN)
    PROVE  ProductInv'
<1>0. ProductTyped /\ WholeInv /\ PriceInv /\ OrdersKeepVariants /\ LinesInv /\ IndexInv
  BY DEF ProductInv
<1>e. /\ saving' \in [Admins -> Saving] /\ saving'[a].op = "none"
      /\ Others(a) /\ Busy' = Busy \ {a} /\ Comparing' = Comparing \ {a}
  BY <1>0, EndIs DEF Throws, Others
<1>1. ProductTyped'
  <2>1. ProductRows' /\ ProductSearch'
    BY <1>0 DEF ProductTyped, ProductRows, ProductSearch
  <2>2. ProductSaves'
    BY <1>0, <1>e, SavesEnd
  <2>3. ProductFlags'
    BY <1>0 DEF ProductTyped, ProductFlags, Throws
  <2> QED BY <2>1, <2>2, <2>3 DEF ProductTyped
<1>2. WholeInv' /\ IndexInv'
  BY DEF WholeInv, IndexInv, Throws
<1>3. PriceInv'
  BY <1>0, <1>e, PricesRest
<1>4. OrdersKeepVariants'
  BY <1>0 DEF OrdersKeepVariants, Present
<1>5. LinesInv'
  <2>1. CASE lineAdded
    BY <2>1 DEF LinesInv
  <2>2. CASE ~lineAdded
    <3>1. \A i \in Present' : variant'[i].inCart => i \in Present /\ variant[i].inCart
      BY DEF Present
    <3> QED BY <2>2, <3>1, <1>0, <1>e, LinesRest
  <2> QED BY <2>1, <2>2
<1> QED BY <1>1, <1>2, <1>3, <1>4, <1>5 DEF ProductInv

LEMMA WriteKeeps ==
    ASSUME ProductInv, NEW a \in Admins, WriteProduct(a)
    PROVE  ProductInv'
<1> DEFINE s == saving[a]
<1>0. ProductTyped /\ WholeInv /\ PriceInv /\ OrdersKeepVariants /\ LinesInv /\ IndexInv
  BY DEF ProductInv
<1>a. s.op # "none" /\ At2(a, Write)
  BY DEF WriteProduct, At2
<1>s. /\ a \in Busy /\ s \in Saving /\ s.op \in SaveOps /\ s.by \in 0..saves /\ s.step = 1
  BY <1>0, <1>a, SaveIsAt
<1>n. saves \in Nat /\ changes \in Nat /\ saves + changes <= MaxWork /\ MaxWork \in Nat
  BY <1>0, ProductAssumption DEF ProductTyped, ProductSaves
<1>1. CASE s.op = "create" /\ product.there
  <2>1. Throws(a) /\ changes' = changes
    BY <1>1 DEF WriteProduct
  <2>2. UNCHANGED <<product, list, variant, variants, orderLine, saves, index, tasks, priceRaced,
                    rebuilt, lineAdded, blocked>>
    BY <1>1 DEF WriteProduct, searchParts
  <2> QED BY <2>1, <2>2, <1>n, ThrowsKeeps
<1>2. CASE ~(s.op = "create" /\ product.there)
  <2> DEFINE r == [NoSave EXCEPT !.op = s.op, !.step = 2, !.by = s.by, !.left = s.left]
  <2>p. /\ product' = [there |-> TRUE, deleted |-> product.deleted, status |-> s.status,
                       mrp |-> IF "mrp" \in s.sent THEN s.mrp ELSE product.mrp,
                       sale |-> IF "sale" \in s.sent THEN s.sale ELSE product.sale]
        /\ saving' = [saving EXCEPT ![a] = r]
        /\ UNCHANGED <<list, variant, variants, orderLine, saves, changes, index, tasks, mixed, unsynced,
                       priceRaced, rebuilt, lineAdded, blocked>>
    BY <1>2 DEF WriteProduct, searchParts
  <2>r. r \in Saving /\ r.op = s.op /\ r.step = 2 /\ r.by = s.by /\ r.left = s.left
    <3>1. NoSave \in Saving
      BY NoSaveOK
    <3>2. s.op \in SaveOps /\ s.by \in SaveIds /\ s.left \in SUBSET Skus /\ 2 \in 0..20
      BY <1>s DEF Saving
    <3> HIDE DEF s
    <3> QED BY <3>1, <3>2 DEF Saving
  <2> HIDE DEF r
  <2>k. /\ saving' \in [Admins -> Saving] /\ saving'[a] = r /\ Others(a)
    BY <1>0, <2>p, <2>r DEF Others, ProductTyped, ProductSaves
  <2>f. /\ saving'[a].op = s.op /\ saving'[a].step = s.step + 1 /\ saving'[a].by = s.by
        /\ saving'[a].left = s.left /\ saving'[a].step = 2
    BY <2>k, <2>r, <1>s
  <2>b. Busy' = Busy /\ Comparing' = Comparing \ {a}
    BY <2>k, <2>f, <1>s, <1>a DEF Others, Busy, Comparing
  <2> HIDE DEF s
  <2>q. product' \in Product /\ product'.there /\ product'.deleted = product.deleted
    BY <2>p, <1>s, <1>0 DEF Product, Saving, ProductTyped, ProductRows
  <2>n. /\ AddStep(s.op) \in 9..13
        /\ s.op = "create" <=> DropStep(s.op) = 0
        /\ s.op # "create" => DropStep(s.op) > 1
        /\ \A l \in Lists : FillStep(s.op, l) \in 3..20
    BY <1>s, StepNumbers
  <2>1. ProductTyped'
    <3>1. ProductRows' /\ ProductSearch'
      BY <1>0, <2>p, <2>q DEF ProductTyped, ProductRows, ProductSearch
    <3>2. ProductSaves'
      BY <1>0, <2>k, <2>f, <2>b, <2>p, <2>q, <2>n, <1>s, <1>a, SavesGoOn DEF s
    <3>3. ProductFlags'
      BY <1>0, <2>p DEF ProductTyped, ProductFlags
    <3> QED BY <3>1, <3>2, <3>3 DEF ProductTyped
  <2>2. WholeInv'
    <3>1. ASSUME ~mixed
          PROVE  Busy = {a} /\ ListsSoFar(s) /\ VariantsSoFar(s)
      BY <3>1, <1>0, <1>s DEF WholeInv, s
    <3>2. ASSUME ~mixed
          PROVE  ListsSoFar(saving[a])' /\ VariantsSoFar(saving[a])'
      <4>1. ListsSoFar(saving[a])'
        BY <3>1, <3>2, <2>f, <2>n, <2>p, <1>s DEF ListsSoFar, MainLists
      <4>2. VariantsSoFar(saving[a])'
        <5>1. Present' = Present /\ variant' = variant
          BY <2>p DEF Present
        <5>2. s.step = 1 /\ (2 > DropStep(s.op) => 1 > DropStep(s.op))
          BY <2>n, <1>s, StepNumbers DEF s
        <5> HIDE DEF Present
        <5> QED BY <3>1, <3>2, <5>1, <5>2, <2>f, <2>n DEF VariantsSoFar
      <4> QED BY <4>1, <4>2
    <3> QED BY <3>1, <3>2, <2>b, <2>p, <1>0 DEF WholeInv
  <2>3. PriceInv'
    <3>1. ASSUME ~priceRaced
          PROVE  Comparing' = {} /\ product'.sale <= product'.mrp
      <4>1. a \in Comparing
        BY <1>s, <1>a DEF Comparing, s
      <4> QED BY <3>1, <4>1, <1>0, <2>b, <2>p DEF PriceInv, s
    <3> QED BY <3>1, <2>p DEF PriceInv
  <2>4. OrdersKeepVariants'
    BY <1>0, <2>p DEF OrdersKeepVariants, Present
  <2>5. LinesInv'
    <3>1. saving'[a].step # DropStep("update")
      BY <2>f DEF DropStep
    <3>2. \A i \in Present' : variant'[i].inCart => i \in Present /\ variant[i].inCart
      BY <2>p DEF Present
    <3> QED BY <3>1, <3>2, <1>0, <2>k, <2>b, <2>p, LinesRest
  <2>6. IndexInv'
    <3>1. WrittenYet'
      BY <2>b, <2>f, <1>s DEF WrittenYet
    <3> QED BY <3>1, <1>0, <2>p DEF IndexInv
  <2> QED BY <2>1, <2>2, <2>3, <2>4, <2>5, <2>6 DEF ProductInv
<1> QED BY <1>1, <1>2

(* A statement after the first: what is left to show is the lists and the    *)
(* variants.                                                                 *)
LEMMA GoesOnKeeps ==
    ASSUME ProductInv, NEW a \in Admins, saving[a].op # "none", saving[a].step > 1,
           saving[a].step <= AddStep(saving[a].op), Onward(a),
           UNCHANGED <<product, saves, changes, index, tasks, mixed, priceRaced, unsynced, lineAdded,
                       blocked>>,
           ProductRows', rebuilt' \in BOOLEAN, OrdersKeepVariants', LinesInv',
           ~mixed => \A l \in Lists \ MainLists : list'[l] = {} \/ \E s \in SaveIds : list'[l] = {s},
           ~mixed => ListsSoFar(saving[a])' /\ VariantsSoFar(saving[a])'
    PROVE  ProductInv'
<1>0. ProductTyped /\ WholeInv /\ PriceInv /\ IndexInv
  BY DEF ProductInv
<1>s. a \in Busy /\ product.there /\ saving[a].step \in Nat
  BY <1>0, SaveIsAt
<1>o. /\ saving' \in [Admins -> Saving] /\ Others(a)
      /\ saving'[a].op = saving[a].op /\ saving'[a].step = saving[a].step + 1
      /\ saving'[a].by = saving[a].by
      /\ Busy' = Busy /\ Comparing' = Comparing \ {a}
  BY <1>0, OnwardIs DEF Others
<1>1. ProductTyped'
  <2>1. ProductSaves'
    BY <1>0, <1>s, <1>o, SavesGoOn
  <2>2. ProductSearch' /\ ProductFlags'
    BY <1>0 DEF ProductTyped, ProductSearch, ProductFlags
  <2> QED BY <2>1, <2>2 DEF ProductTyped
<1>2. WholeInv'
  BY <1>0, <1>s, <1>o DEF WholeInv
<1>3. PriceInv'
  BY <1>0, <1>o, PricesRest
<1>4. IndexInv'
  <2>1. WrittenYet => WrittenYet'
    BY <1>0, <1>s, <1>o, StillWritten
  <2> QED BY <2>1, <1>0, IndexRests
<1> QED BY <1>1, <1>2, <1>3, <1>4 DEF ProductInv

(* The variants, and what carts and orders know of them, rest. *)
LEMMA VariantsRest ==
    ASSUME ProductInv, NEW a \in Admins, saving[a].op # "none", saving[a].step > 1,
           saving[a].step <= AddStep(saving[a].op), Onward(a),
           UNCHANGED <<product, variant, variants, orderLine, rebuilt, lineAdded, blocked, mixed>>,
           saving[a].op = "update" => saving[a].step # 9, saving[a].step # DropStep(saving[a].op),
           saving[a].step # AddStep(saving[a].op)
    PROVE  /\ OrdersKeepVariants' /\ LinesInv'
           /\ VariantsSoFar(saving[a]) => VariantsSoFar(saving[a])'
           /\ ~mixed => ListsSoFar(saving[a]) /\ VariantsSoFar(saving[a])
<1> DEFINE s == saving[a]
<1>0. ProductTyped /\ WholeInv /\ OrdersKeepVariants /\ LinesInv
  BY DEF ProductInv
<1>s. a \in Busy /\ s.op \in SaveOps /\ s.step \in Nat
  BY <1>0, SaveIsAt
<1>o. /\ Others(a) /\ saving'[a].op = s.op /\ saving'[a].step = s.step + 1
      /\ saving'[a].by = s.by /\ saving'[a].left = s.left
      /\ Busy' = Busy /\ Comparing' = Comparing \ {a}
  BY <1>0, OnwardIs DEF Others
<1>p. Present' = Present
  BY DEF Present
<1>n. AddStep(s.op) \in 9..13 /\ DropStep(s.op) \in 0..10
  BY <1>s, StepNumbers
<1> HIDE DEF s, Present
<1>1. OrdersKeepVariants'
  BY <1>0, <1>p DEF OrdersKeepVariants
<1>2. LinesInv'
  <2>1. ~(saving'[a].op = "update" /\ saving'[a].step = DropStep("update"))
    BY <1>o, <1>s DEF DropStep, s
  <2> QED BY <2>1, <1>0, <1>o, <1>p, LinesRest
<1>3. VariantsSoFar(s) => VariantsSoFar(saving[a])'
  <2>1. s.step # DropStep(s.op) /\ s.step # AddStep(s.op)
    BY DEF s
  <2> QED BY <2>1, <1>n, <1>o, <1>p, <1>s DEF VariantsSoFar
<1>4. ~mixed => ListsSoFar(s) /\ VariantsSoFar(s)
  BY <1>0, <1>s DEF WholeInv, s
<1> QED BY <1>1, <1>2, <1>3, <1>4 DEF s

LEMMA ClearListKeeps ==
    ASSUME ProductInv, NEW a \in Admins, ClearList(a)
    PROVE  ProductInv'
<1> DEFINE s == saving[a]
<1>0. ProductTyped /\ WholeInv
  BY DEF ProductInv
<1>l. PICK l \in Lists : At2(a, Clear(l)) /\ list' = [list EXCEPT ![l] = {}]
  BY DEF ClearList
<1>u. /\ Onward(a)
      /\ UNCHANGED <<product, variant, variants, orderLine, saves, changes, index, tasks, mixed,
                     priceRaced, rebuilt, lineAdded, blocked, unsynced>>
  BY DEF ClearList, searchParts, productHistory
<1>s. /\ a \in Busy /\ s.op \in SaveOps /\ s.step \in 1..(AddStep(s.op) + 1) /\ s.op # "none"
      /\ s.step + 1 = FillStep(s.op, l) /\ l # "seo"
      /\ s.op = "create" => l # "options"
  BY <1>0, <1>l, SaveIsAt DEF At2
<1>n. /\ AddStep(s.op) \in 9..13 /\ DropStep(s.op) \in 0..10
      /\ FillStep(s.op, l) \in 3..20
      /\ FillStep(s.op, l) = 20 \/ FillStep(s.op, l) < AddStep(s.op)
      /\ s.op # "create" => FillStep(s.op, l) # DropStep(s.op) + 1
      /\ s.op = "create" => DropStep(s.op) = 0
      /\ s.op = "update" => FillStep(s.op, l) \notin {9, 10}
      /\ \A m \in Lists : FillStep(s.op, m) \in 3..20
      /\ \A m \in Lists : l # m /\ FillStep(s.op, l) < 20 => FillStep(s.op, l) # FillStep(s.op, m)
      /\ \A m \in Lists : l # m /\ FillStep(s.op, m) < 20 => FillStep(s.op, m) + 1 # FillStep(s.op, l)
  BY <1>s, StepNumbers
<1>o. /\ saving'[a].op = s.op /\ saving'[a].step = s.step + 1 /\ saving'[a].by = s.by
  BY <1>0, <1>s, <1>n, <1>u, OnwardIs
<1>w. \A m \in Lists : list'[m] = IF m = l THEN {} ELSE list[m]
  BY <1>0, <1>l DEF ProductTyped, ProductRows
<1>p. s.step > 1 /\ s.step < AddStep(s.op) /\ s.step # DropStep(s.op) /\ (s.op = "update" => s.step # 9)
  BY <1>s, <1>n
<1> HIDE DEF s
<1>1. ProductRows'
  BY <1>0, <1>l, <1>u DEF ProductTyped, ProductRows
<1>2. /\ OrdersKeepVariants' /\ LinesInv'
      /\ VariantsSoFar(saving[a]) => VariantsSoFar(saving[a])'
      /\ ~mixed => ListsSoFar(saving[a]) /\ VariantsSoFar(saving[a])
  BY <1>s, <1>n, <1>u, <1>p, VariantsRest DEF s
<1>3. ListsSoFar(s) => ListsSoFar(saving[a])'
  <2>1. SUFFICES ASSUME ListsSoFar(s), NEW m \in Lists
                 PROVE  /\ \/ s.op = "create" /\ s.step + 1 <= FillStep(s.op, m)
                           \/ s.step + 1 = FillStep(s.op, m) /\ m # "seo"
                           => list'[m] = {}
                        /\ m \in MainLists /\ s.step + 1 > FillStep(s.op, m) => list'[m] = {s.by}
    BY <1>o DEF ListsSoFar
  <2>2. CASE m = l
    BY <2>2, <1>s, <1>n, <1>w
  <2>3. CASE m # l
    <3>1. list'[m] = list[m]
      BY <2>3, <1>w
    <3>2. /\ s.step + 1 # FillStep(s.op, m) /\ s.step # FillStep(s.op, m)
          /\ s.step \in Nat /\ FillStep(s.op, m) \in Nat
      BY <2>3, <1>s, <1>n
    <3> QED BY <2>1, <3>1, <3>2 DEF ListsSoFar
  <2> QED BY <2>2, <2>3
<1>4. ~mixed => \A m \in Lists \ MainLists : list'[m] = {} \/ \E k \in SaveIds : list'[m] = {k}
  BY <1>0, <1>w DEF WholeInv
<1>5. rebuilt' \in BOOLEAN
  BY <1>0, <1>u DEF ProductTyped, ProductFlags
<1> QED BY <1>s, <1>n, <1>u, <1>p, <1>1, <1>2, <1>3, <1>4, <1>5, GoesOnKeeps DEF s

LEMMA FillListKeeps ==
    ASSUME ProductInv, NEW a \in Admins, FillList(a)
    PROVE  ProductInv'
<1> DEFINE s == saving[a]
<1>0. ProductTyped /\ WholeInv
  BY DEF ProductInv
<1>l. PICK l \in Lists :
          /\ At2(a, Fill(l))
          /\ IF l \in {"tags", "options"} /\ list[l] # {}
             THEN Throws(a) /\ UNCHANGED list
             ELSE /\ list' = [list EXCEPT ![l] = IF l = "seo" THEN {s.by} ELSE @ \cup {s.by}]
                  /\ Onward(a) /\ UNCHANGED <<mixed, unsynced>>
  BY DEF FillList
<1>u. UNCHANGED <<product, variant, variants, orderLine, saves, changes, index, tasks,
                  priceRaced, rebuilt, lineAdded, blocked>>
  BY DEF FillList, searchParts
<1>s. /\ a \in Busy /\ s.op \in SaveOps /\ s.step \in 1..(AddStep(s.op) + 1) /\ s.op # "none"
      /\ s.step = FillStep(s.op, l) /\ s.by \in 0..saves
  BY <1>0, <1>l, SaveIsAt DEF At2
<1>m. saves \in Nat /\ changes \in Nat /\ saves + changes <= MaxWork /\ MaxWork \in Nat
  BY <1>0, ProductAssumption DEF ProductTyped, ProductSaves
<1>b. s.by \in SaveIds
  BY <1>s, <1>m DEF SaveIds
<1>1. CASE l \in {"tags", "options"} /\ list[l] # {}
  BY <1>1, <1>l, <1>u, <1>m, ThrowsKeeps
<1>2. CASE ~(l \in {"tags", "options"} /\ list[l] # {})
  <2>l. /\ list' = [list EXCEPT ![l] = IF l = "seo" THEN {s.by} ELSE @ \cup {s.by}]
        /\ Onward(a) /\ UNCHANGED <<mixed, unsynced>>
    BY <1>2, <1>l
  <2>n. /\ AddStep(s.op) \in 9..13 /\ DropStep(s.op) \in 0..10
        /\ FillStep(s.op, l) \in 3..20
        /\ FillStep(s.op, l) = 20 \/ FillStep(s.op, l) < AddStep(s.op)
        /\ FillStep(s.op, l) # DropStep(s.op)
        /\ s.op = "update" => FillStep(s.op, l) \notin {9, 10}
        /\ \A m \in Lists : FillStep(s.op, m) \in 3..20
        /\ \A m \in Lists : l # m /\ FillStep(s.op, l) < 20 => FillStep(s.op, l) # FillStep(s.op, m)
        /\ \A m \in Lists : /\ l # m /\ FillStep(s.op, l) < 20 /\ s.op # "create" /\ m # "seo"
                            => FillStep(s.op, l) + 1 # FillStep(s.op, m)
    BY <1>s, StepNumbers
  <2>p. s.step > 1 /\ s.step < AddStep(s.op) /\ s.step # DropStep(s.op) /\ (s.op = "update" => s.step # 9)
    BY <1>s, <2>n
  <2>o. /\ saving'[a].op = s.op /\ saving'[a].step = s.step + 1 /\ saving'[a].by = s.by
    BY <1>0, <1>s, <2>n, <2>l, OnwardIs
  <2>w. \A m \in Lists : list'[m] = IF m = l THEN (IF l = "seo" THEN {s.by} ELSE list[l] \cup {s.by})
                                    ELSE list[m]
    BY <1>0, <2>l DEF ProductTyped, ProductRows
  <2>e. ~mixed => ListsSoFar(s)
    BY <1>0, <1>s DEF WholeInv
  <2> HIDE DEF s
  <2>f. ~mixed => list'[l] = {s.by}
    BY <2>e, <2>w, <1>s DEF ListsSoFar
  <2>1. ProductRows'
    <3>1. list' \in [Lists -> SUBSET SaveIds]
      BY <1>0, <2>l, <1>b DEF ProductTyped, ProductRows
    <3> QED BY <3>1, <1>0, <1>u DEF ProductTyped, ProductRows
  <2>2. /\ OrdersKeepVariants' /\ LinesInv'
        /\ VariantsSoFar(saving[a]) => VariantsSoFar(saving[a])'
        /\ ~mixed => ListsSoFar(saving[a]) /\ VariantsSoFar(saving[a])
    BY <1>s, <2>n, <1>u, <2>l, <2>p, VariantsRest DEF s
  <2>3. ~mixed => ListsSoFar(saving[a])'
    <3>1. SUFFICES ASSUME ~mixed, ListsSoFar(s), NEW m \in Lists
                   PROVE  /\ \/ s.op = "create" /\ s.step + 1 <= FillStep(s.op, m)
                             \/ s.step + 1 = FillStep(s.op, m) /\ m # "seo"
                             => list'[m] = {}
                          /\ m \in MainLists /\ s.step + 1 > FillStep(s.op, m) => list'[m] = {s.by}
      BY <2>o, <2>e DEF ListsSoFar
    <3>2. CASE m = l
      BY <3>1, <3>2, <1>s, <2>n, <2>f
    <3>3. CASE m # l
      <4>1. list'[m] = list[m]
        BY <3>3, <2>w
      <4>2. /\ s.op # "create" /\ m # "seo" => s.step + 1 # FillStep(s.op, m)
            /\ s.step # FillStep(s.op, m)
            /\ s.step \in Nat /\ FillStep(s.op, m) \in Nat
        BY <3>3, <1>s, <2>n
      <4> QED BY <3>1, <4>1, <4>2 DEF ListsSoFar
    <3> QED BY <3>2, <3>3
  <2>4. ~mixed => \A m \in Lists \ MainLists : list'[m] = {} \/ \E k \in SaveIds : list'[m] = {k}
    <3>1. ASSUME ~mixed, NEW m \in Lists \ MainLists
          PROVE  list'[m] = {} \/ \E k \in SaveIds : list'[m] = {k}
      <4>1. CASE m = l
        BY <4>1, <3>1, <2>f, <1>b
      <4>2. CASE m # l
        BY <4>2, <3>1, <1>0, <2>w DEF WholeInv
      <4> QED BY <4>1, <4>2
    <3> QED BY <3>1
  <2>5. rebuilt' \in BOOLEAN
    BY <1>0, <1>u DEF ProductTyped, ProductFlags
  <2> QED BY <1>s, <2>n, <1>u, <2>l, <2>p, <2>1, <2>2, <2>3, <2>4, <2>5, GoesOnKeeps DEF s
<1> QED BY <1>1, <1>2

(* Statements that leave the lists: they were what they are. *)
LEMMA ListsRest ==
    ASSUME ProductInv, NEW a \in Admins, saving[a].op # "none", saving[a].step > 1,
           saving[a].step <= AddStep(saving[a].op),
           saving'[a].op = saving[a].op, saving'[a].by = saving[a].by,
           saving'[a].step = saving[a].step + 1, list' = list, mixed' = mixed,
           \A l \in Lists : saving[a].step # FillStep(saving[a].op, l),
           saving[a].op # "create" =>
               \A l \in Lists : l # "seo" => saving[a].step + 1 # FillStep(saving[a].op, l)
    PROVE  /\ ~mixed => ListsSoFar(saving[a])' /\ VariantsSoFar(saving[a])
           /\ ~mixed => \A l \in Lists \ MainLists : list'[l] = {} \/ \E k \in SaveIds : list'[l] = {k}
<1> DEFINE s == saving[a]
<1>0. ProductTyped /\ WholeInv
  BY DEF ProductInv
<1>s. a \in Busy /\ s.op \in SaveOps /\ s.step \in 1..(AddStep(s.op) + 1)
  BY <1>0, SaveIsAt
<1>n. AddStep(s.op) \in 9..13 /\ \A l \in Lists : FillStep(s.op, l) \in 3..20
  BY <1>s, StepNumbers
<1>1. ~mixed => ListsSoFar(s) /\ VariantsSoFar(s)
  BY <1>0, <1>s DEF WholeInv
<1>2. /\ \A l \in Lists : s.step # FillStep(s.op, l)
      /\ s.op # "create" => \A l \in Lists : l # "seo" => s.step + 1 # FillStep(s.op, l)
      /\ saving'[a].op = s.op /\ saving'[a].by = s.by /\ saving'[a].step = s.step + 1
  OBVIOUS
<1> HIDE DEF s
<1>3. ListsSoFar(s) => ListsSoFar(saving[a])'
  BY <1>2, <1>n, <1>s DEF ListsSoFar
<1> QED BY <1>0, <1>1, <1>3 DEF WholeInv, s

LEMMA ClearLinesKeeps ==
    ASSUME ProductInv, NEW a \in Admins, ClearLines(a)
    PROVE  ProductInv'
<1> DEFINE s == saving[a]
<1>0. ProductTyped /\ WholeInv /\ LinesInv /\ OrdersKeepVariants
  BY DEF ProductInv
<1>u. /\ Onward(a) /\ At2(a, Lines)
      /\ variant' = [i \in VariantIds |-> [variant[i] EXCEPT !.inCart = FALSE]]
      /\ UNCHANGED <<product, list, variants, orderLine, saves, changes, index, tasks, mixed,
                     priceRaced, rebuilt, lineAdded, blocked, unsynced>>
  BY DEF ClearLines, searchParts, productHistory
<1>s. /\ a \in Busy /\ s.op = "update" /\ s.step = 9 /\ s.op # "none" /\ s.op \in SaveOps
  BY <1>0, <1>u, SaveIsAt DEF At2
<1>n. /\ AddStep(s.op) \in 9..13 /\ DropStep(s.op) = 10 /\ DropStep(s.op) < AddStep(s.op)
      /\ \A l \in Lists : FillStep(s.op, l) \notin {9, 10}
  BY <1>s, StepNumbers
<1>o. /\ saving'[a].op = s.op /\ saving'[a].step = s.step + 1 /\ saving'[a].by = s.by
      /\ saving'[a].left = s.left
  BY <1>0, <1>s, <1>n, <1>u, OnwardIs
<1>p. s.step > 1 /\ s.step <= AddStep(s.op)
  BY <1>s, <1>n
<1>v. \A i \in VariantIds : /\ variant'[i] \in Variant /\ ~variant'[i].inCart
                            /\ variant'[i].there = variant[i].there /\ variant'[i].by = variant[i].by
                            /\ variant'[i].sku = variant[i].sku
  <2>1. variant \in [VariantIds -> Variant]
    BY <1>0 DEF ProductTyped, ProductRows
  <2> QED BY <2>1, <1>u DEF Variant
<1>w. variants \in Nat /\ 1..variants \subseteq VariantIds
  BY <1>0, ProductAssumption DEF ProductTyped, ProductRows, VariantIds
<1>z. Present' = Present /\ Present \subseteq VariantIds
  BY <1>u, <1>v, <1>w DEF Present
<1>1. ProductRows'
  <2>1. variant' \in [VariantIds -> Variant]
    BY <1>u, <1>v
  <2> QED BY <2>1, <1>0, <1>u DEF ProductTyped, ProductRows
<1> HIDE DEF s, Present
<1>2. OrdersKeepVariants'
  BY <1>0, <1>u, <1>z DEF OrdersKeepVariants
<1>3. LinesInv'
  BY <1>0, <1>u, <1>v, <1>z DEF LinesInv
<1>4. /\ ~mixed => ListsSoFar(saving[a])' /\ VariantsSoFar(s)
      /\ ~mixed => \A l \in Lists \ MainLists : list'[l] = {} \/ \E k \in SaveIds : list'[l] = {k}
  <2>1. /\ \A l \in Lists : s.step # FillStep(s.op, l) /\ s.step + 1 # FillStep(s.op, l)
    BY <1>s, <1>n
  <2> QED BY <2>1, <1>s, <1>o, <1>p, <1>u, ListsRest DEF s
<1>5. VariantsSoFar(s) => VariantsSoFar(saving[a])'
  <2>1. s.step < AddStep(s.op) /\ ~(s.step + 1 > AddStep(s.op)) /\ ~(s.step + 1 > DropStep(s.op))
    BY <1>s, <1>n
  <2> QED BY <2>1, <1>o DEF VariantsSoFar
<1>6. rebuilt' \in BOOLEAN
  BY <1>0, <1>u DEF ProductTyped, ProductFlags
<1> QED BY <1>s, <1>u, <1>p, <1>1, <1>2, <1>3, <1>4, <1>5, <1>6, GoesOnKeeps DEF s

LEMMA ClearVariantsKeeps ==
    ASSUME ProductInv, NEW a \in Admins, ClearVariants(a)
    PROVE  ProductInv'
<1> DEFINE s == saving[a]
<1>0. ProductTyped /\ WholeInv /\ LinesInv /\ OrdersKeepVariants
  BY DEF ProductInv
<1>u. UNCHANGED <<product, list, variants, saves, changes, index, tasks, priceRaced, lineAdded>>
  BY DEF ClearVariants, searchParts
<1>s. /\ a \in Busy /\ s.step = DropStep(s.op) /\ s.op # "none" /\ s.op # "create" /\ s.op \in SaveOps
  BY <1>0, SaveIsAt DEF ClearVariants, At2
<1>m. saves \in Nat /\ changes \in Nat /\ saves + changes <= MaxWork /\ MaxWork \in Nat
  BY <1>0, ProductAssumption DEF ProductTyped, ProductSaves
<1>n. /\ AddStep(s.op) \in 9..13 /\ DropStep(s.op) \in 0..10 /\ DropStep(s.op) > 1
      /\ DropStep(s.op) < AddStep(s.op)
      /\ \A l \in Lists : FillStep(s.op, l) # DropStep(s.op) /\ FillStep(s.op, l) # DropStep(s.op) + 1
  BY <1>s, StepNumbers
<1>1. CASE \E i \in Present : variant[i].inCart
  <2>1. /\ Throws(a) /\ blocked' = (blocked \/ s.op = "update")
        /\ UNCHANGED <<variant, orderLine, rebuilt>>
    BY <1>1 DEF ClearVariants
  <2>2. s.op = "update" => lineAdded
    BY <1>0, <1>1, <1>s DEF LinesInv
  <2>3. blocked' = blocked \/ (lineAdded /\ blocked' \in BOOLEAN)
    <3>1. blocked \in BOOLEAN
      BY <1>0 DEF ProductTyped, ProductFlags
    <3> QED BY <3>1, <2>1, <2>2
  <2> QED BY <2>1, <2>3, <1>u, <1>m, ThrowsKeeps
<1>2. CASE ~\E i \in Present : variant[i].inCart
  <2>u. /\ variant' = [i \in VariantIds |-> [variant[i] EXCEPT !.there = FALSE]]
        /\ orderLine' = [o \in DOMAIN orderLine |-> 0]
        /\ rebuilt' = TRUE /\ Onward(a) /\ UNCHANGED <<blocked, mixed, unsynced>>
    BY <1>2 DEF ClearVariants
  <2>o. /\ saving'[a].op = s.op /\ saving'[a].step = s.step + 1 /\ saving'[a].by = s.by
        /\ saving'[a].left = s.left /\ Others(a) /\ Busy' = Busy
    BY <1>0, <1>s, <1>n, <2>u, OnwardIs DEF Others
  <2>p. s.step > 1 /\ s.step <= AddStep(s.op)
    BY <1>s, <1>n
  <2>v. variant' \in [VariantIds -> Variant] /\ \A i \in VariantIds : ~variant'[i].there
    <3>1. variant \in [VariantIds -> Variant]
      BY <1>0 DEF ProductTyped, ProductRows
    <3>2. \A i \in VariantIds : [variant[i] EXCEPT !.there = FALSE] \in Variant
      BY <3>1 DEF Variant
    <3> QED BY <3>2, <2>u, <3>1 DEF Variant
  <2>w. variants \in Nat /\ 1..variants \subseteq VariantIds
    BY <1>0, ProductAssumption DEF ProductTyped, ProductRows, VariantIds
  <2>z. Present' = {}
    BY <1>u, <2>v, <2>w DEF Present
  <2>1. ProductRows'
    <3>1. orderLine' \in Seq(VariantIds \cup {0}) /\ \A x \in DOMAIN orderLine' : orderLine'[x] = 0
      <4>1. orderLine \in Seq(VariantIds \cup {0})
        BY <1>0 DEF ProductTyped, ProductRows
      <4> QED BY <4>1, <2>u
    <3> QED BY <3>1, <2>v, <2>w, <1>0, <1>u DEF ProductTyped, ProductRows
  <2> HIDE DEF s, Present
  <2>2. OrdersKeepVariants'
    BY <2>u DEF OrdersKeepVariants
  <2>3. LinesInv'
    BY <1>0, <1>u, <2>u, <2>z DEF LinesInv
  <2>4. /\ ~mixed => ListsSoFar(saving[a])' /\ VariantsSoFar(s)
        /\ ~mixed => \A l \in Lists \ MainLists : list'[l] = {} \/ \E k \in SaveIds : list'[l] = {k}
    <3>1. /\ \A l \in Lists : s.step # FillStep(s.op, l) /\ s.step + 1 # FillStep(s.op, l)
      BY <1>s, <1>n
    <3> QED BY <3>1, <1>s, <2>o, <2>p, <1>u, <2>u, ListsRest DEF s
  <2>5. VariantsSoFar(s) => VariantsSoFar(saving[a])'
    <3>1. s.step < AddStep(s.op) /\ ~(s.step + 1 > AddStep(s.op))
      BY <1>s, <1>n
    <3>2. VariantsSoFar(s) => s.left = Skus
      BY <3>1 DEF VariantsSoFar
    <3>3. Skus \ Skus = {}
      OBVIOUS
    <3> QED BY <3>1, <3>2, <3>3, <2>o, <2>z DEF VariantsSoFar
  <2> QED BY <1>s, <1>u, <2>u, <2>p, <2>1, <2>2, <2>3, <2>4, <2>5, GoesOnKeeps DEF s
<1> QED BY <1>1, <1>2

LEMMA AddIs ==
    ASSUME ProductTyped, NEW a \in Admins, NEW k \in saving[a].left, saving[a].op # "none",
           saving[a].step = AddStep(saving[a].op),
           saving' = [saving EXCEPT ![a].left = @ \ {k},
                                    ![a].step = IF saving[a].left = {k} THEN @ + 1 ELSE @]
    PROVE  /\ saving' \in [Admins -> Saving] /\ Others(a)
           /\ saving'[a].op = saving[a].op /\ saving'[a].by = saving[a].by
           /\ saving'[a].left = saving[a].left \ {k}
           /\ saving'[a].step = IF saving[a].left = {k} THEN saving[a].step + 1 ELSE saving[a].step
           /\ Busy' = Busy
<1> DEFINE s == saving[a]
           n == IF s.left = {k} THEN s.step + 1 ELSE s.step
           r == [s EXCEPT !.left = s.left \ {k}, !.step = n]
<1>0. saving \in [Admins -> Saving]
  BY DEF ProductTyped, ProductSaves
<1>1. s \in Saving /\ s.op \in SaveOps /\ s.step = AddStep(s.op) /\ AddStep(s.op) \in 9..13
  BY SaveIsAt, StepNumbers
<1>2. n \in 0..20 /\ s.left \ {k} \in SUBSET Skus
  BY <1>1 DEF Saving
<1>3. r \in Saving /\ r.op = s.op /\ r.step = n /\ r.by = s.by /\ r.left = s.left \ {k}
  <2> HIDE DEF n
  <2> QED BY <1>1, <1>2 DEF Saving
<1>4. saving' = [saving EXCEPT ![a] = r]
  BY <1>0
<1> HIDE DEF r
<1>5. saving'[a] = r /\ \A b \in Admins : b # a => saving'[b] = saving[b]
  BY <1>0, <1>4
<1>6. saving' \in [Admins -> Saving]
  BY <1>0, <1>3, <1>4
<1> QED BY <1>1, <1>3, <1>5, <1>6 DEF Busy, Others

LEMMA AddVariantKeeps ==
    ASSUME ProductInv, NEW a \in Admins, AddVariant(a)
    PROVE  ProductInv'
<1> DEFINE s == saving[a]
           new == variants + 1
<1>0. ProductTyped /\ WholeInv /\ PriceInv /\ OrdersKeepVariants /\ LinesInv /\ IndexInv
  BY DEF ProductInv
<1>k. PICK k \in s.left :
        /\ At2(a, AddVariants)
        /\ IF \E i \in Present : variant[i].sku = k
           THEN Throws(a) /\ UNCHANGED <<variant, variants>>
           ELSE /\ variants < MaxVariants
                /\ variants' = new
                /\ variant' = [variant EXCEPT ![new] =
                      [there |-> TRUE, sku |-> k, by |-> s.by, inCart |-> FALSE]]
                /\ saving' = [saving EXCEPT ![a].left = @ \ {k},
                                            ![a].step = IF s.left = {k} THEN @ + 1 ELSE @]
                /\ UNCHANGED <<mixed, unsynced>>
        /\ UNCHANGED <<product, list, orderLine, saves, changes, searchParts, priceRaced, rebuilt,
                       lineAdded, blocked>>
  BY DEF AddVariant
<1>u. UNCHANGED <<product, list, orderLine, saves, changes, index, tasks, priceRaced, rebuilt,
                  lineAdded, blocked>>
  BY <1>k DEF searchParts
<1>s. /\ a \in Busy /\ s.step = AddStep(s.op) /\ s.op # "none" /\ s.op \in SaveOps /\ s \in Saving
      /\ s.by \in 0..saves
  BY <1>0, <1>k, SaveIsAt DEF At2
<1>m. saves \in Nat /\ changes \in Nat /\ saves + changes <= MaxWork /\ MaxWork \in Nat
  BY <1>0, ProductAssumption DEF ProductTyped, ProductSaves
<1>n. /\ AddStep(s.op) \in 9..13 /\ DropStep(s.op) \in 0..10 /\ DropStep(s.op) < AddStep(s.op)
      /\ \A l \in Lists : /\ FillStep(s.op, l) \in 3..20
                          /\ FillStep(s.op, l) = 20 \/ FillStep(s.op, l) < AddStep(s.op)
      /\ s.op = "update" => DropStep(s.op) = 10
  BY <1>s, StepNumbers
<1>1. CASE \E i \in Present : variant[i].sku = k
  BY <1>1, <1>k, <1>u, <1>m, ThrowsKeeps
<1>2. CASE ~\E i \in Present : variant[i].sku = k
  <2>k. /\ variants < MaxVariants
        /\ variants' = new
        /\ variant' = [variant EXCEPT ![new] =
               [there |-> TRUE, sku |-> k, by |-> s.by, inCart |-> FALSE]]
        /\ saving' = [saving EXCEPT ![a].left = @ \ {k},
                                    ![a].step = IF s.left = {k} THEN @ + 1 ELSE @]
        /\ UNCHANGED <<mixed, unsynced>>
    BY <1>2, <1>k
  <2>v. /\ variants \in Nat /\ new \in VariantIds /\ variant \in [VariantIds -> Variant]
        /\ 1..variants \subseteq VariantIds /\ k \in Skus /\ s.by \in SaveIds
    BY <2>k, <1>0, <1>s, ProductAssumption
       DEF ProductTyped, ProductRows, VariantIds, Saving, SaveIds
  <2>o. /\ saving' \in [Admins -> Saving] /\ Others(a)
        /\ saving'[a].op = s.op /\ saving'[a].by = s.by /\ saving'[a].left = s.left \ {k}
        /\ saving'[a].step = IF s.left = {k} THEN s.step + 1 ELSE s.step
        /\ Busy' = Busy
    BY <2>k, <1>0, <1>s, AddIs
  <2>w. /\ variant'[new].there /\ variant'[new].sku = k /\ variant'[new].by = s.by
        /\ ~variant'[new].inCart
        /\ \A i \in VariantIds : i # new => variant'[i] = variant[i]
        /\ variant' \in [VariantIds -> Variant]
    <3>1. [there |-> TRUE, sku |-> k, by |-> s.by, inCart |-> FALSE] \in Variant
      BY <2>v DEF Variant
    <3> QED BY <3>1, <2>k, <2>v
  <2>z. Present' = Present \cup {new} /\ new \notin Present /\ Present \subseteq VariantIds
    BY <2>k, <2>v, <2>w DEF Present
  <2> HIDE DEF s, Present
  <2>p. saving'[a].step \in {s.step, s.step + 1} /\ saving'[a].step > 1 /\ s.step > 1
    BY <2>o, <1>s, <1>n
  <2>1. ProductTyped'
    <3>1. ProductRows'
      <4>1. \A x \in DOMAIN orderLine : orderLine[x] \in 0..variants
        BY <1>0 DEF ProductTyped, ProductRows
      <4>2. variants' \in 0..MaxVariants /\ 0..variants \subseteq 0..variants'
        BY <2>k, <2>v, ProductAssumption
      <4> HIDE DEF new
      <4> QED BY <4>1, <4>2, <2>w, <1>0, <1>u DEF ProductTyped, ProductRows
    <3>2. ProductSaves'
      <4>1. product'.there /\ s.step <= AddStep(s.op) /\ UNCHANGED <<saves, changes>>
        <5>1. product.there
          BY <1>0, <1>s, <2>p DEF ProductTyped, ProductSaves, s
        <5> QED BY <5>1, <1>u, <1>s, <1>n
      <4> QED BY <4>1, <1>0, <1>s, <1>u, <2>o, <2>p, SavesGoOn DEF s
    <3>3. ProductSearch' /\ ProductFlags'
      BY <1>0, <1>u, <2>k DEF ProductTyped, ProductSearch, ProductFlags
    <3> QED BY <3>1, <3>2, <3>3 DEF ProductTyped
  <2>2. WholeInv'
    <3>1. ASSUME ~mixed
          PROVE  ListsSoFar(s) /\ VariantsSoFar(s)
      BY <3>1, <1>0, <1>s DEF WholeInv, s
    <3>2. ListsSoFar(s) => ListsSoFar(saving[a])'
      BY <1>s, <1>n, <1>u, <2>o, <2>p DEF ListsSoFar
    <3>3. VariantsSoFar(s) => VariantsSoFar(saving[a])'
      <4>1. s.step > DropStep(s.op) /\ ~(saving'[a].step < AddStep(s.op))
        BY <1>s, <1>n, <2>p
      <4>2. saving'[a].step > AddStep(s.op) => s.left \ {k} = {}
        BY <1>s, <1>n, <2>o
      <4>3. \A i \in Present : variant'[i] = variant[i]
        BY <2>w, <2>z
      <4> HIDE DEF new
      <4>4. ASSUME VariantsSoFar(s)
            PROVE  /\ \A i \in Present' : variant'[i].by = s.by /\ variant'[i].sku \notin s.left \ {k}
                   /\ \A j \in Skus \ (s.left \ {k}) : \E i \in Present' : variant'[i].sku = j
        BY <4>1, <4>3, <4>4, <2>w, <2>z DEF VariantsSoFar
      <4> QED BY <4>1, <4>2, <4>4, <2>o DEF VariantsSoFar
    <3> QED BY <3>1, <3>2, <3>3, <2>k, <2>o, <1>u, <1>0, <1>s DEF WholeInv
  <2>3. PriceInv'
    <3>1. a \notin Comparing'
      BY <2>p DEF Comparing
    <3> QED BY <3>1, <1>0, <1>u, <2>o, PricesRest
  <2>4. OrdersKeepVariants'
    BY <1>0, <1>u, <2>z DEF OrdersKeepVariants
  <2>5. LinesInv'
    <3>1. ~(saving'[a].op = "update" /\ saving'[a].step = DropStep("update"))
      <4>1. DropStep("update") = 10
        BY DEF DropStep
      <4>2. s.op = "update" => s.step > 10
        BY <1>s, <1>n
      <4> QED BY <4>1, <4>2, <2>o, <2>p, <1>s, <1>n
    <3>2. \A i \in Present' : variant'[i].inCart => i \in Present /\ variant[i].inCart
      BY <2>w, <2>z
    <3> QED BY <3>1, <3>2, <1>0, <1>u, <2>o, LinesRest
  <2>6. IndexInv'
    <3>1. WrittenYet => WrittenYet'
      BY <1>0, <2>o, <2>p, StillWritten DEF s
    <3> QED BY <3>1, <1>0, <1>u, <2>k, IndexRests
  <2> QED BY <2>1, <2>2, <2>3, <2>4, <2>5, <2>6 DEF ProductInv
<1> QED BY <1>1, <1>2

(* An update of the index is sent off to read the product. *)
LEMMA SpawnReads ==
    ASSUME ProductTyped, NEW id \in Nat, NEW of \in {"product", "all"}, SpawnFor(of, "read", id),
           index' = index, product'.there,
           of = "all" => IndexInv /\ UNCHANGED <<product, saving>>
    PROVE  IndexInv' /\ ProductSearch' /\ unsynced' \in BOOLEAN
<1> DEFINE t == [id |-> id, of |-> of, at |-> "read", doc |-> Missing]
<1>1. t \in Task
  BY DEF Task, Document
<1>2. tasks' = tasks \cup {t} /\ unsynced' = (unsynced \/ tasks # {})
  BY DEF SpawnFor
<1>3. ProductSearch' /\ unsynced' \in BOOLEAN
  BY <1>1, <1>2 DEF ProductTyped, ProductSearch, ProductFlags
<1>4. t.at = "read" /\ t.of = of
  OBVIOUS
<1> HIDE DEF t
<1>5. ASSUME ~unsynced' PROVE tasks' = {t} /\ tasks = {} /\ ~unsynced
  BY <1>5, <1>2
<1>6. ASSUME ~unsynced', of = "all" PROVE (index = Current \/ WrittenYet)'
  <2>1. index = Current \/ WrittenYet
    BY <1>5, <1>6 DEF IndexInv
  <2> QED BY <2>1, <1>6 DEF Current, WrittenYet, Busy
<1> HIDE DEF WrittenYet, Current
<1> QED BY <1>3, <1>4, <1>5, <1>6 DEF IndexInv

LEMMA EndSaveKeeps ==
    ASSUME ProductInv, NEW a \in Admins, EndSave(a)
    PROVE  ProductInv'
<1> DEFINE s == saving[a]
<1>0. ProductTyped /\ WholeInv /\ PriceInv /\ OrdersKeepVariants /\ LinesInv /\ IndexInv
  BY DEF ProductInv
<1>u. /\ At2(a, Reindex) /\ Spawn("read", s.by) /\ saving' = [saving EXCEPT ![a] = NoSave]
      /\ UNCHANGED <<product, list, variant, variants, orderLine, saves, changes, index, mixed,
                     priceRaced, rebuilt, lineAdded, blocked>>
  BY DEF EndSave, productParts
<1>s. /\ a \in Busy /\ s.step = AddStep(s.op) + 1 /\ s.op # "none" /\ s.op \in SaveOps
      /\ s.by \in 0..saves
  BY <1>0, <1>u, SaveIsAt DEF At2
<1>m. saves \in Nat /\ changes \in Nat /\ saves + changes <= MaxWork
  BY <1>0 DEF ProductTyped, ProductSaves
<1>n. /\ AddStep(s.op) \in 9..13 /\ DropStep(s.op) \in 0..10 /\ DropStep(s.op) < AddStep(s.op)
      /\ \A l \in MainLists : FillStep(s.op, l) < AddStep(s.op)
      /\ \A l \in Lists : FillStep(s.op, l) \in 3..20
  BY <1>s, StepNumbers
<1>e. /\ saving' \in [Admins -> Saving] /\ saving'[a].op = "none"
      /\ Others(a) /\ Busy' = Busy \ {a} /\ Comparing' = Comparing \ {a}
  BY <1>0, <1>u, EndIs DEF Others
<1>t. product.there
  <2>1. s.step > 1
    BY <1>s, <1>n
  <2> QED BY <2>1, <1>0, <1>s, SaveIsAt DEF s
<1>p. Present' = Present
  BY <1>u DEF Present
<1>r. \A i \in Present : variant[i].sku \in Skus
  BY <1>0, ProductAssumption DEF Present, ProductTyped, ProductRows, Variant, VariantIds
<1>i. IndexInv' /\ ProductSearch' /\ unsynced' \in BOOLEAN
  <2>1. s.by \in Nat
    BY <1>s
  <2>2. SpawnFor("product", "read", s.by)
    BY <1>u DEF Spawn
  <2> QED BY <2>1, <2>2, <1>0, <1>u, <1>t, SpawnReads
<1> HIDE DEF s, Present
<1>1. ProductTyped'
  <2>1. ProductRows'
    BY <1>0, <1>u DEF ProductTyped, ProductRows
  <2>2. ProductSaves'
    BY <1>0, <1>e, <1>m, <1>u, SavesEnd
  <2>3. ProductFlags'
    BY <1>0, <1>u, <1>i DEF ProductTyped, ProductFlags
  <2> QED BY <2>1, <2>2, <2>3, <1>i DEF ProductTyped
<1>2. WholeInv'
  <2>1. ASSUME ~mixed
        PROVE  Busy' = {} /\ ListsSoFar(s) /\ VariantsSoFar(s)
    BY <2>1, <1>0, <1>s, <1>e DEF WholeInv, s
  <2>2. ASSUME ~mixed
        PROVE  OneSave'
    <3>1. \A l \in MainLists : list[l] = {s.by}
      BY <2>1, <2>2, <1>s, <1>n DEF ListsSoFar, MainLists
    <3>2. /\ \A i \in Present : variant[i].by = s.by
          /\ \A k \in Skus : \E i \in Present : variant[i].sku = k
      <4>1. s.step > DropStep(s.op) /\ s.step > AddStep(s.op)
        BY <1>s, <1>n
      <4> QED BY <4>1, <2>1, <2>2 DEF VariantsSoFar
    <3>3. {variant[i].sku : i \in Present} = Skus
      BY <3>2, <1>r
    <3> QED BY <3>1, <3>2, <3>3, <1>s, <1>p, <1>u DEF OneSave
  <2> QED BY <2>1, <2>2, <1>u, <1>t, <1>0 DEF WholeInv
<1>3. PriceInv'
  BY <1>0, <1>e, <1>u, PricesRest
<1>4. OrdersKeepVariants'
  BY <1>0, <1>u, <1>p DEF OrdersKeepVariants
<1>5. LinesInv'
  <2>1. \A i \in Present' : variant'[i].inCart => i \in Present /\ variant[i].inCart
    BY <1>p, <1>u
  <2> QED BY <2>1, <1>0, <1>e, <1>u, LinesRest
<1> QED BY <1>1, <1>2, <1>3, <1>4, <1>5, <1>i DEF ProductInv

LEMMA BreakKeeps ==
    ASSUME ProductInv, NEW a \in Admins, SaveBreaks(a)
    PROVE  ProductInv'
<1>1. saves \in Nat /\ changes \in Nat /\ MaxWork \in Nat /\ saves + changes < MaxWork
  BY ProductAssumption DEF ProductInv, ProductTyped, ProductSaves, SaveBreaks
<1>2. changes' \in {changes, changes + 1} /\ saves + changes' <= MaxWork /\ Throws(a)
  BY <1>1 DEF SaveBreaks
<1>3. UNCHANGED <<product, list, variant, variants, orderLine, saves, index, tasks, priceRaced,
                  rebuilt, lineAdded, blocked>>
  BY DEF SaveBreaks, productParts, searchParts
<1> QED BY <1>2, <1>3, ThrowsKeeps

-----------------------------------------------------------------------------
(* Changes while the saves stay where they are. *)

LEMMA SavesRest ==
    ASSUME ProductTyped, UNCHANGED <<saving, saves>>, changes' \in {changes, changes + 1},
           saves + changes' <= MaxWork, product'.there = product.there
    PROVE  ProductSaves' /\ Busy' = Busy /\ Comparing' = Comparing /\ WrittenYet' = WrittenYet
<1>1. Busy' = Busy /\ Comparing' = Comparing
  BY DEF Busy, Comparing
<1>2. WrittenYet' = WrittenYet
  BY <1>1 DEF WrittenYet
<1> QED BY <1>1, <1>2 DEF ProductTyped, ProductSaves

LEMMA WholeRests ==
    ASSUME WholeInv, ProductTyped, UNCHANGED <<list, saving, saves, mixed, variants>>,
           product'.there = product.there,
           \A i \in VariantIds : /\ variant'[i].there = variant[i].there
                                 /\ variant'[i].by = variant[i].by /\ variant'[i].sku = variant[i].sku
    PROVE  WholeInv'
<1>1. Present' = Present /\ Present \subseteq VariantIds
  BY ProductAssumption DEF Present, ProductTyped, ProductRows, VariantIds
<1>2. Busy' = Busy
  BY DEF Busy
<1>3. {variant'[i].sku : i \in Present'} = {variant[i].sku : i \in Present}
  BY <1>1
<1>4. \A a : ListsSoFar(saving[a])' <=> ListsSoFar(saving[a])
  BY DEF ListsSoFar
<1> HIDE DEF Present, Busy
<1>5. \A a : VariantsSoFar(saving[a])' <=> VariantsSoFar(saving[a])
  BY <1>1 DEF VariantsSoFar
<1>6. (OneSave' <=> OneSave) /\ (NothingThere' <=> NothingThere)
  BY <1>1, <1>3 DEF OneSave, NothingThere
<1> QED BY <1>2, <1>4, <1>5, <1>6 DEF WholeInv

(* What a change of the product alone leaves. *)
LEMMA ChangeKeeps ==
    ASSUME ProductInv, NEW p \in Product, Change1(p), p.there,
           priceRaced' \in BOOLEAN, (p.mrp = product.mrp /\ p.sale = product.sale) \/ priceRaced',
           priceRaced => priceRaced', ProductSearch', IndexInv', unsynced' \in BOOLEAN
    PROVE  ProductInv'
<1>0. ProductTyped /\ WholeInv /\ PriceInv /\ OrdersKeepVariants /\ LinesInv
  BY DEF ProductInv
<1>u. /\ product' = p /\ product.there
      /\ changes' = changes + 1 /\ saves + changes < MaxWork
      /\ UNCHANGED <<list, variant, variants, orderLine, saving, saves, index, mixed, rebuilt,
                     lineAdded, blocked>>
  BY DEF Change1
<1>m. saves \in Nat /\ changes \in Nat /\ MaxWork \in Nat
  BY <1>0, ProductAssumption DEF ProductTyped, ProductSaves
<1>b. changes' \in {changes, changes + 1} /\ saves + changes' <= MaxWork
  BY <1>u, <1>m
<1>s. ProductSaves' /\ Busy' = Busy /\ Comparing' = Comparing
  BY <1>0, <1>u, <1>b, SavesRest
<1>1. ProductTyped'
  BY <1>0, <1>u, <1>s DEF ProductTyped, ProductRows, ProductFlags
<1>2. WholeInv'
  BY <1>0, <1>u, WholeRests
<1>3. PriceInv'
  BY <1>0, <1>u, <1>s DEF PriceInv
<1>4. OrdersKeepVariants' /\ LinesInv'
  <2>1. Present' = Present
    BY <1>u DEF Present
  <2> HIDE DEF Present
  <2> QED BY <2>1, <1>0, <1>u, <1>s DEF OrdersKeepVariants, LinesInv
<1> QED BY <1>1, <1>2, <1>3, <1>4 DEF ProductInv

LEMMA ProductChangesKeep ==
    ASSUME ProductInv,
           \/ \E s \in Statuses : BulkStatus(s) \/ setStatus(s)
           \/ \E p \in Prices : BulkSalePrice(p)
           \/ deleteProduct
    PROVE  ProductInv'
<1>0. ProductTyped /\ PriceInv /\ product \in Product
  BY DEF ProductInv, ProductTyped, ProductRows
<1>f. priceRaced \in BOOLEAN /\ unsynced \in BOOLEAN
  BY <1>0 DEF ProductTyped, ProductFlags
<1>1. ASSUME NEW s \in Statuses, BulkStatus(s)
      PROVE  ProductInv'
  <2> DEFINE p == [product EXCEPT !.status = s]
  <2>1. Change1(p) /\ Spawn("read", MaxWork + changes') /\ priceRaced' = priceRaced
    BY <1>1 DEF BulkStatus
  <2>2. /\ p \in Product /\ p.there = product.there /\ p.mrp = product.mrp /\ p.sale = product.sale
    BY <1>0, ProductAssumption DEF Product, ProductStatus
  <2> HIDE DEF p
  <2>3. product' = p /\ product.there /\ MaxWork + changes' \in Nat /\ index' = index
    BY <2>1, <1>0, ProductAssumption DEF Change1, ProductTyped, ProductSaves
  <2>4. IndexInv' /\ ProductSearch' /\ unsynced' \in BOOLEAN
    BY <2>1, <2>2, <2>3, <1>0, SpawnReads DEF Spawn
  <2> QED BY <2>1, <2>2, <2>3, <2>4, <1>f, ChangeKeeps
<1>2. ASSUME NEW s \in Statuses, setStatus(s)
      PROVE  ProductInv'
  <2> DEFINE p == [product EXCEPT !.status = s]
  <2>1. Change1(p) /\ unsynced' = TRUE /\ UNCHANGED <<tasks, priceRaced>>
    BY <1>2 DEF setStatus
  <2>2. /\ p \in Product /\ p.there = product.there /\ p.mrp = product.mrp /\ p.sale = product.sale
    BY <1>0, ProductAssumption DEF Product, ProductStatus
  <2> HIDE DEF p
  <2>3. product' = p /\ product.there /\ index' = index
    BY <2>1 DEF Change1
  <2>4. IndexInv' /\ ProductSearch' /\ unsynced' \in BOOLEAN
    BY <2>1, <2>2, <2>3, <1>0 DEF IndexInv, ProductTyped, ProductSearch
  <2> QED BY <2>1, <2>2, <2>3, <2>4, <1>f, ChangeKeeps
<1>3. ASSUME NEW s \in Prices, BulkSalePrice(s)
      PROVE  ProductInv'
  <2> DEFINE p == [product EXCEPT !.sale = s]
  <2>1. Change1(p) /\ Spawn("read", MaxWork + changes') /\ priceRaced' = TRUE
    BY <1>3 DEF BulkSalePrice
  <2>2. p \in Product /\ p.there = product.there
    BY <1>0 DEF Product
  <2> HIDE DEF p
  <2>3. product' = p /\ product.there /\ MaxWork + changes' \in Nat /\ index' = index
    BY <2>1, <1>0, ProductAssumption DEF Change1, ProductTyped, ProductSaves
  <2>4. IndexInv' /\ ProductSearch' /\ unsynced' \in BOOLEAN
    BY <2>1, <2>2, <2>3, <1>0, SpawnReads DEF Spawn
  <2> QED BY <2>1, <2>2, <2>3, <2>4, <1>f, ChangeKeeps
<1>4. CASE deleteProduct
  <2> DEFINE p == [product EXCEPT !.deleted = TRUE, !.status = "ARCHIVED"]
             t == [id |-> MaxWork + changes', of |-> "product", at |-> "remove", doc |-> Missing]
  <2>1. /\ Change1(p) /\ tasks' = tasks \cup {t} /\ unsynced' = (unsynced \/ tasks # {})
        /\ priceRaced' = priceRaced
    BY <1>4 DEF deleteProduct, Spawn, SpawnFor
  <2>2. /\ p \in Product /\ p.there = product.there /\ p.mrp = product.mrp /\ p.sale = product.sale
        /\ p.deleted
    BY <1>0 DEF Product, ProductStatus
  <2> HIDE DEF p
  <2>3. product' = p /\ product.there /\ MaxWork + changes' \in Nat /\ index' = index
    BY <2>1, <1>0, ProductAssumption DEF Change1, ProductTyped, ProductSaves
  <2>4. t \in Task /\ t.doc = Missing /\ t.at = "remove"
    BY <2>3 DEF Task, Document
  <2> HIDE DEF t
  <2>5. ProductSearch' /\ unsynced' \in BOOLEAN
    BY <2>1, <2>2, <2>3, <2>4, <1>0, <1>f DEF ProductTyped, ProductSearch
  <2>6. IndexInv'
    <3>1. Current' = Missing
      BY <2>2, <2>3 DEF Current
    <3>2. ASSUME ~unsynced' PROVE tasks' = {t}
      BY <3>2, <2>1
    <3> QED BY <3>1, <3>2, <2>4 DEF IndexInv
  <2> QED BY <2>1, <2>2, <2>3, <2>5, <2>6, <1>f, ChangeKeeps
<1> QED BY <1>1, <1>2, <1>3, <1>4

(* Customers. *)
LEMMA CartKeeps ==
    ASSUME ProductInv, NEW i \in VariantIds, AddToCart(i)
    PROVE  ProductInv'
<1>0. ProductTyped /\ WholeInv /\ PriceInv /\ OrdersKeepVariants /\ LinesInv /\ IndexInv
  BY DEF ProductInv
<1>u. /\ variant' = [variant EXCEPT ![i].inCart = TRUE]
      /\ lineAdded' = (lineAdded \/ ClearingLines) /\ i \in Present
      /\ changes' = changes + 1 /\ saves + changes < MaxWork
      /\ UNCHANGED <<product, list, variants, orderLine, saving, saves, index, tasks, mixed, priceRaced,
                     rebuilt, blocked, unsynced>>
  BY DEF AddToCart, Buyable, searchParts
<1>m. saves \in Nat /\ changes \in Nat /\ MaxWork \in Nat
  BY <1>0, ProductAssumption DEF ProductTyped, ProductSaves
<1>b. changes' \in {changes, changes + 1} /\ saves + changes' <= MaxWork
  BY <1>u, <1>m
<1>s. ProductSaves' /\ Busy' = Busy /\ Comparing' = Comparing /\ WrittenYet' = WrittenYet
  BY <1>0, <1>u, <1>b, SavesRest
<1>v. /\ variant' \in [VariantIds -> Variant]
      /\ \A j \in VariantIds : /\ variant'[j].there = variant[j].there /\ variant'[j].by = variant[j].by
                               /\ variant'[j].sku = variant[j].sku
  <2>1. variant \in [VariantIds -> Variant]
    BY <1>0 DEF ProductTyped, ProductRows
  <2> QED BY <2>1, <1>u DEF Variant
<1>p. Present' = Present
  BY <1>u, <1>v, <1>0, ProductAssumption DEF Present, ProductTyped, ProductRows, VariantIds
<1> HIDE DEF Present
<1>1. ProductTyped'
  <2>1. ProductRows' /\ ProductSearch' /\ ProductFlags'
    BY <1>0, <1>u, <1>v DEF ProductTyped, ProductRows, ProductSearch, ProductFlags, ClearingLines
  <2> QED BY <2>1, <1>s DEF ProductTyped
<1>2. WholeInv'
  BY <1>0, <1>u, <1>v, WholeRests
<1>3. PriceInv'
  BY <1>0, <1>u, <1>s DEF PriceInv
<1>4. OrdersKeepVariants'
  BY <1>0, <1>u, <1>p DEF OrdersKeepVariants
<1>5. LinesInv'
  <2>1. ASSUME ~lineAdded', NEW a \in Busy, saving[a].op = "update",
               saving[a].step = DropStep("update")
        PROVE  FALSE
    <3>1. a \in Admins /\ saving[a].op # "none"
      BY <2>1 DEF Busy
    <3>2. At2(a, DropVariants)
      BY <2>1, <3>1, <1>0, SaveIsAt
    <3> QED BY <2>1, <3>1, <3>2, <1>u DEF ClearingLines
  <2>2. ~lineAdded' => ~lineAdded
    BY <1>u
  <2> QED BY <2>1, <2>2, <1>0, <1>u, <1>s DEF LinesInv
<1>6. IndexInv'
  BY <1>0, <1>u, <1>s, IndexRests
<1> QED BY <1>1, <1>2, <1>3, <1>4, <1>5, <1>6 DEF ProductInv

LEMMA ProductOrderKeeps ==
    ASSUME ProductInv, NEW i \in VariantIds, PlaceOrder(i)
    PROVE  ProductInv'
<1>0. ProductTyped /\ WholeInv /\ PriceInv /\ OrdersKeepVariants /\ LinesInv /\ IndexInv
  BY DEF ProductInv
<1>u. /\ variant' = [variant EXCEPT ![i].inCart = FALSE]
      /\ orderLine' = Append(orderLine, i) /\ i \in Present
      /\ changes' = changes + 1 /\ saves + changes < MaxWork
      /\ UNCHANGED <<product, list, variants, saving, saves, index, tasks, mixed, priceRaced,
                     rebuilt, blocked, lineAdded, unsynced>>
  BY DEF PlaceOrder, Buyable, searchParts, productHistory
<1>m. saves \in Nat /\ changes \in Nat /\ MaxWork \in Nat
  BY <1>0, ProductAssumption DEF ProductTyped, ProductSaves
<1>b. changes' \in {changes, changes + 1} /\ saves + changes' <= MaxWork
  BY <1>u, <1>m
<1>s. ProductSaves' /\ Busy' = Busy /\ Comparing' = Comparing /\ WrittenYet' = WrittenYet
  BY <1>0, <1>u, <1>b, SavesRest
<1>v. /\ variant' \in [VariantIds -> Variant]
      /\ \A j \in VariantIds : /\ variant'[j].there = variant[j].there /\ variant'[j].by = variant[j].by
                               /\ variant'[j].sku = variant[j].sku
                               /\ variant'[j].inCart => variant[j].inCart
  <2>1. variant \in [VariantIds -> Variant]
    BY <1>0 DEF ProductTyped, ProductRows
  <2> QED BY <2>1, <1>u DEF Variant
<1>p. Present' = Present /\ Present \subseteq VariantIds
  BY <1>u, <1>v, <1>0, ProductAssumption DEF Present, ProductTyped, ProductRows, VariantIds
<1>o. /\ orderLine' \in Seq(VariantIds \cup {0}) /\ i \in 1..variants
      /\ \A x \in DOMAIN orderLine' : orderLine'[x] = i \/ (x \in DOMAIN orderLine /\ orderLine'[x] = orderLine[x])
  <2>1. orderLine \in Seq(VariantIds \cup {0})
    BY <1>0 DEF ProductTyped, ProductRows
  <2>2. i \in 1..variants
    BY <1>u DEF Present
  <2>3. orderLine' \in Seq(VariantIds \cup {0})
    BY <2>1, <1>u
  <2>4. ASSUME NEW x \in DOMAIN orderLine'
        PROVE  orderLine'[x] = i \/ (x \in DOMAIN orderLine /\ orderLine'[x] = orderLine[x])
    <3>1. /\ Len(orderLine) \in Nat /\ DOMAIN orderLine = 1..Len(orderLine)
          /\ DOMAIN orderLine' = 1..(Len(orderLine) + 1)
      BY <2>1, <1>u
    <3>2. CASE x = Len(orderLine) + 1
      <4>1. Append(orderLine, i)[Len(orderLine) + 1] = i
        BY <2>1, <3>1
      <4>2. orderLine' = Append(orderLine, i)
        BY <1>u
      <4>3. orderLine'[x] = i
        BY ONLY <4>1, <4>2, <3>2, Zenon
      <4> QED BY <4>3
    <3>3. CASE x # Len(orderLine) + 1
      <4>1. x \in 1..Len(orderLine)
        BY <2>4, <3>1, <3>3
      <4> QED BY <2>1, <3>1, <4>1, <1>u
    <3> QED BY <3>2, <3>3
  <2> QED BY <2>2, <2>3, <2>4
<1> HIDE DEF Present
<1>1. ProductTyped'
  <2>1. ProductRows'
    <3>1. \A x \in DOMAIN orderLine' : orderLine'[x] \in 0..variants
      BY <1>0, <1>o DEF ProductTyped, ProductRows
    <3> QED BY <3>1, <1>0, <1>u, <1>v, <1>o DEF ProductTyped, ProductRows
  <2>2. ProductSearch' /\ ProductFlags'
    BY <1>0, <1>u DEF ProductTyped, ProductSearch, ProductFlags
  <2> QED BY <2>1, <2>2, <1>s DEF ProductTyped
<1>2. WholeInv'
  BY <1>0, <1>u, <1>v, WholeRests
<1>3. PriceInv'
  BY <1>0, <1>u, <1>s DEF PriceInv
<1>4. OrdersKeepVariants'
  BY <1>0, <1>u, <1>o, <1>p DEF OrdersKeepVariants
<1>5. LinesInv'
  BY <1>0, <1>u, <1>s, <1>v, <1>p DEF LinesInv
<1>6. IndexInv'
  BY <1>0, <1>u, <1>s, IndexRests
<1> QED BY <1>1, <1>2, <1>3, <1>4, <1>5, <1>6 DEF ProductInv

(* The search index. *)
LEMMA IndexStepsKeep ==
    ASSUME ProductInv, (\E t \in tasks : ReadForIndex(t) \/ ApplyToIndex(t)) \/ reindexAll
    PROVE  ProductInv'
<1>0. /\ ProductTyped /\ WholeInv /\ PriceInv /\ OrdersKeepVariants /\ LinesInv /\ IndexInv
      /\ tasks \subseteq Task /\ index \in Document /\ (tasks # {} => product.there)
      /\ \A t \in tasks : t.at # "put" => t.doc = Missing
      /\ product \in Product /\ unsynced \in BOOLEAN
      /\ saves \in Nat /\ changes \in Nat /\ saves + changes <= MaxWork /\ MaxWork \in Nat
  BY ProductAssumption
     DEF ProductInv, ProductTyped, ProductSearch, ProductRows, ProductFlags, ProductSaves
<1>1. ASSUME UNCHANGED <<product, list, variant, variants, orderLine, saving, saves, mixed, priceRaced,
                         rebuilt, lineAdded, blocked>>,
             changes' \in {changes, changes + 1}, saves + changes' <= MaxWork,
             ProductSearch', IndexInv', unsynced' \in BOOLEAN
      PROVE  ProductInv'
  <2>1. ProductSaves' /\ Busy' = Busy /\ Comparing' = Comparing
    BY <1>0, <1>1, SavesRest
  <2>2. Present' = Present
    BY <1>1 DEF Present
  <2>3. ProductTyped'
    BY <1>0, <1>1, <2>1 DEF ProductTyped, ProductRows, ProductFlags
  <2>4. WholeInv'
    BY <1>0, <1>1, WholeRests
  <2>5. PriceInv'
    BY <1>0, <1>1, <2>1 DEF PriceInv
  <2> HIDE DEF Present
  <2>6. OrdersKeepVariants' /\ LinesInv'
    BY <1>0, <1>1, <2>1, <2>2 DEF OrdersKeepVariants, LinesInv
  <2> QED BY <1>1, <2>3, <2>4, <2>5, <2>6 DEF ProductInv
<1>2. ASSUME UNCHANGED <<saving, product>>
      PROVE  Current' = Current /\ WrittenYet' = WrittenYet
  BY <1>2 DEF Current, WrittenYet, Busy
<1>3. ASSUME NEW t \in tasks, ReadForIndex(t)
      PROVE  ProductInv'
  <2> DEFINE put == [t EXCEPT !.at = "put", !.doc = Current]
             remove == [t EXCEPT !.at = "remove"]
             next == IF ~product.deleted THEN {put} ELSE IF t.of = "all" THEN {} ELSE {remove}
  <2>1. /\ tasks' = (tasks \ {t}) \cup next /\ t.at = "read"
        /\ UNCHANGED <<product, list, variant, variants, orderLine, saving, saves, changes, index,
                       mixed, priceRaced, rebuilt, lineAdded, blocked, unsynced>>
    BY <1>3 DEF ReadForIndex, productParts, productHistory
  <2>2. t \in Task /\ product.there /\ t.doc = Missing
    BY <1>0, <1>3, <2>1
  <2>3. /\ put \in Task /\ put.at = "put" /\ put.doc = Current
        /\ remove \in Task /\ remove.at = "remove" /\ remove.doc = Missing
    <3>1. Current \in Document
      BY <1>0 DEF Document, Product, Current
    <3> QED BY <2>2, <3>1 DEF Task
  <2>4. product.deleted => Current = Missing
    BY DEF Current
  <2> HIDE DEF put, remove
  <2>6. ProductSearch'
    BY <1>0, <2>1, <2>2, <2>3 DEF ProductSearch
  <2>7. IndexInv'
    <3>1. ASSUME ~unsynced
          PROVE  /\ tasks' = next
                 /\ t.of = "all" => index = Current \/ WrittenYet
      BY <3>1, <1>0, <1>3, <2>1 DEF IndexInv
    <3>2. \A u \in next : u.at # "read" /\ u.doc = Current
      BY <2>3, <2>4
    <3>3. next = {} => t.of = "all"
      OBVIOUS
    <3>4. \A u, v \in next : u = v
      OBVIOUS
    <3> HIDE DEF next
    <3> QED BY <3>1, <3>2, <3>3, <3>4, <1>2, <2>1 DEF IndexInv
  <2> QED BY <1>0, <1>1, <2>1, <2>6, <2>7
<1>4. ASSUME NEW t \in tasks, ApplyToIndex(t)
      PROVE  ProductInv'
  <2>1. /\ tasks' = tasks \ {t} /\ t.at \in {"put", "remove"}
        /\ \/ index' = t.doc /\ unsynced' = (unsynced /\ ~Repairs(t))
           \/ UNCHANGED index /\ unsynced' = TRUE
        /\ UNCHANGED <<product, list, variant, variants, orderLine, saving, saves, changes, mixed,
                       priceRaced, rebuilt, lineAdded, blocked>>
    BY <1>4 DEF ApplyToIndex, productParts
  <2>2. ProductSearch' /\ unsynced' \in BOOLEAN
    BY <1>0, <1>4, <2>1 DEF ProductSearch, Task
  <2>3. IndexInv'
    <3>1. ASSUME ~unsynced'
          PROVE  tasks' = {} /\ (index' = Current \/ WrittenYet)
      <4>1. CASE Repairs(t)
        BY <4>1, <3>1, <2>1 DEF Repairs
      <4>2. CASE ~Repairs(t)
        BY <4>2, <3>1, <1>0, <1>4, <2>1 DEF IndexInv
      <4> QED BY <4>1, <4>2
    <3> QED BY <3>1, <1>2, <2>1 DEF IndexInv
  <2> QED BY <1>0, <1>1, <2>1, <2>2, <2>3
<1>5. CASE reindexAll
  <2>1. /\ saves + changes < MaxWork /\ changes' = changes + 1 /\ product.there
        /\ SpawnFor("all", "read", MaxWork + changes')
        /\ UNCHANGED <<product, list, variant, variants, orderLine, saving, saves, index, mixed,
                       priceRaced, rebuilt, lineAdded, blocked>>
    BY <1>5 DEF reindexAll, productParts
  <2>2. MaxWork + changes' \in Nat /\ product'.there
    BY <2>1, ProductAssumption, <1>0 DEF ProductTyped, ProductSaves
  <2>3. IndexInv' /\ ProductSearch' /\ unsynced' \in BOOLEAN
    BY <1>0, <2>1, <2>2, SpawnReads
  <2>5. changes' \in {changes, changes + 1} /\ saves + changes' <= MaxWork
    BY <1>0, <2>1
  <2> QED BY <1>1, <2>1, <2>3, <2>5
<1> QED BY <1>3, <1>4, <1>5

-----------------------------------------------------------------------------
LEMMA ProductStarts == ProductInit => ProductInv
<1> SUFFICES ASSUME ProductInit PROVE ProductInv
  OBVIOUS
<1> DEFINE n == Cardinality(Skus)
<1>n. n \in 1..MaxVariants /\ IsFiniteSet(Skus) /\ MaxVariants \in Nat /\ MaxWork \in Nat
  BY ProductAssumption
<1>p. PICK there \in BOOLEAN, carted \in BOOLEAN, skus \in [1..n -> Skus] :
        /\ IsInjective(skus)
        /\ product = [there |-> there, deleted |-> FALSE, status |-> "ACTIVE", mrp |-> SomePrice,
                      sale |-> SomePrice]
        /\ list = [l \in Lists |-> IF there THEN {0} ELSE {}]
        /\ variants = IF there THEN n ELSE 0
        /\ variant = [i \in VariantIds |->
              [there |-> i <= variants, sku |-> IF i <= variants THEN skus[i] ELSE skus[1],
               by |-> 0, inCart |-> carted /\ i <= variants]]
        /\ index = IF there THEN [there |-> TRUE, status |-> "ACTIVE", sale |-> SomePrice] ELSE Missing
        /\ orderLine = << >> /\ tasks = {}
        /\ saving = [a \in Admins |-> NoSave]
        /\ saves = 0 /\ changes = 0
        /\ mixed = FALSE /\ priceRaced = FALSE /\ rebuilt = FALSE /\ lineAdded = FALSE
        /\ blocked = FALSE /\ unsynced = FALSE
  BY DEF ProductInit
<1>s. SomePrice \in Prices /\ SomePrice \in Nat
  BY ProductAssumption DEF SomePrice
<1>b. Busy = {} /\ Comparing = {} /\ saving \in [Admins -> Saving]
  BY <1>p, NoSaveOK DEF Busy, Comparing, NoSave
<1>v. /\ variants \in 0..n /\ variant \in [VariantIds -> Variant]
      /\ \A i \in 1..variants : /\ i \in VariantIds /\ i \in 1..n /\ variant[i].there
                                /\ variant[i].by = 0 /\ variant[i].sku = skus[i]
  <2>1. variants \in 0..n
    BY <1>n, <1>p
  <2>2. ASSUME NEW i \in VariantIds
        PROVE  [there |-> i <= variants, sku |-> IF i <= variants THEN skus[i] ELSE skus[1],
                by |-> 0, inCart |-> carted /\ i <= variants] \in Variant
    <3>1. 1 \in 1..n /\ (i <= variants => i \in 1..n) /\ 0 \in SaveIds
      BY <2>1, <1>n DEF VariantIds, SaveIds
    <3>2. (IF i <= variants THEN skus[i] ELSE skus[1]) \in Skus
      BY <3>1, <1>p
    <3>3. (i <= variants) \in BOOLEAN /\ (carted /\ i <= variants) \in BOOLEAN
      OBVIOUS
    <3> QED BY <3>1, <3>2, <3>3, Zenon DEF Variant
  <2>3. variant \in [VariantIds -> Variant]
    BY <2>2, <1>p
  <2>4. ASSUME NEW i \in 1..variants
        PROVE  /\ i \in VariantIds /\ i \in 1..n /\ variant[i].there
               /\ variant[i].by = 0 /\ variant[i].sku = skus[i]
    <3>1. i \in VariantIds /\ i \in 1..n /\ i <= variants
      BY <2>1, <1>n DEF VariantIds
    <3> QED BY <3>1, <1>p
  <2> QED BY <2>1, <2>3, <2>4
<1>r. Present = 1..variants
  BY <1>v DEF Present
<1>k. there => {variant[i].sku : i \in Present} = Skus
  <2>1. ASSUME NEW k \in Skus PROVE \E i \in 1..n : skus[i] = k
    <3> DEFINE image == {skus[i] : i \in 1..n}
    <3>1. IsFiniteSet(1..n) /\ Cardinality(1..n) = n
      <4>1. PICK hi \in Nat : hi = n
        BY <1>n
      <4>2. PICK lo \in Int : lo = 1
        OBVIOUS
      <4>3. /\ IsFiniteSet(lo..hi)
            /\ Cardinality(lo..hi) = IF lo > hi THEN 0 ELSE hi - lo + 1
        BY FS_Interval
      <4> QED BY <4>1, <4>2, <4>3, <1>n
    <3>2. skus \in Injection(1..n, image)
      BY <1>p DEF IsInjective, Injection
    <3>3. image \subseteq Skus
      BY <1>p
    <3>4. IsFiniteSet(image) /\ Cardinality(image) <= Cardinality(Skus)
          /\ (Cardinality(image) = Cardinality(Skus) => image = Skus)
      BY <3>3, <1>n, FS_Subset
    <3>5. Cardinality(1..n) <= Cardinality(image)
      BY <3>2, <3>4, FS_Injection
    <3>6. Cardinality(image) \in Nat
      BY <3>4, FS_CardinalityType
    <3>7. image = Skus
      BY <3>1, <3>4, <3>5, <3>6, <1>n
    <3> QED BY <3>7
  <2>2. ASSUME there PROVE Present = 1..n /\ \A i \in Present : variant[i].sku = skus[i]
    BY <2>2, <1>p, <1>r, <1>v
  <2> HIDE DEF Present
  <2> QED BY <2>1, <2>2, <1>p
<1>1. ProductTyped
  <2>1. ProductRows
    <3>1. product \in Product /\ list \in [Lists -> SUBSET SaveIds]
      BY <1>p, <1>s, <1>n DEF Product, ProductStatus, SaveIds
    <3>2. variants \in 0..MaxVariants
      BY <1>v, <1>n
    <3> QED BY <3>1, <3>2, <1>v, <1>p DEF ProductRows
  <2>2. ProductSaves
    BY <1>b, <1>p, <1>n DEF ProductSaves
  <2>3. ProductSearch
    BY <1>p, <1>s DEF ProductSearch, Document, ProductStatus
  <2>4. ProductFlags
    BY <1>p DEF ProductFlags
  <2> QED BY <2>1, <2>2, <2>3, <2>4 DEF ProductTyped
<1>2. WholeInv
  <2>1. there => OneSave
    <3>1. 0 \in 0..saves
      BY <1>p
    <3> QED BY <3>1, <1>k, <1>p, <1>r, <1>v DEF OneSave, MainLists
  <2>2. ~there => NothingThere
    BY <1>p, <1>r DEF NothingThere
  <2>3. \A l \in Lists : list[l] = {} \/ list[l] = {0}
    BY <1>p
  <2>4. 0 \in SaveIds
    BY <1>n DEF SaveIds
  <2> QED BY <2>1, <2>2, <2>3, <2>4, <1>b, <1>p DEF WholeInv
<1>3. PriceInv
  BY <1>p, <1>b, <1>s DEF PriceInv
<1>4. OrdersKeepVariants
  BY <1>p DEF OrdersKeepVariants
<1>5. LinesInv
  BY <1>p, <1>b DEF LinesInv
<1>6. IndexInv
  BY <1>p DEF IndexInv, Current
<1> QED BY <1>1, <1>2, <1>3, <1>4, <1>5, <1>6 DEF ProductInv

LEMMA ProductSteps == ProductInv /\ [ProductNext]_prodVars => ProductInv'
<1> SUFFICES ASSUME ProductInv, [ProductNext]_prodVars PROVE ProductInv'
  OBVIOUS
<1>1. ASSUME NEW a \in Admins, StartSave(a) \/ RunSave(a) PROVE ProductInv'
  BY <1>1, StartKeeps, WriteKeeps, ClearListKeeps, FillListKeeps, ClearLinesKeeps,
     ClearVariantsKeeps, AddVariantKeeps, EndSaveKeeps, BreakKeeps DEF RunSave
<1>2. ASSUME NEW i \in VariantIds, AddToCart(i) \/ PlaceOrder(i) PROVE ProductInv'
  BY <1>2, CartKeeps, ProductOrderKeeps
<1>3. CASE (\E t \in tasks : ReadForIndex(t) \/ ApplyToIndex(t)) \/ reindexAll
  BY <1>3, IndexStepsKeep
<1>4. CASE \/ \E s \in Statuses : BulkStatus(s) \/ setStatus(s)
           \/ \E p \in Prices : BulkSalePrice(p)
           \/ deleteProduct
  BY <1>4, ProductChangesKeep
<1>5. CASE UNCHANGED prodVars
  <2>1. UNCHANGED <<product, list, variant, variants, orderLine, saving, saves, changes, index, tasks,
                    mixed, priceRaced, rebuilt, lineAdded, blocked, unsynced>>
    BY <1>5 DEF prodVars
  <2>2. Busy' = Busy /\ Comparing' = Comparing /\ Present' = Present
    BY <2>1 DEF Busy, Comparing, Present
  <2>3. WrittenYet' = WrittenYet
    BY <2>1, <2>2 DEF WrittenYet
  <2>4. ProductTyped'
    BY <2>1, <2>2 DEF ProductInv, ProductTyped, ProductRows, ProductSaves, ProductSearch, ProductFlags
  <2>5. WholeInv'
    BY <2>1, WholeRests DEF ProductInv
  <2>6. PriceInv' /\ OrdersKeepVariants' /\ LinesInv' /\ IndexInv'
    <3> HIDE DEF Present, Busy, Comparing, WrittenYet
    <3>1. PriceInv' /\ OrdersKeepVariants'
      BY <2>1, <2>2 DEF ProductInv, PriceInv, OrdersKeepVariants
    <3>2. LinesInv'
      BY <2>1, <2>2 DEF ProductInv, LinesInv
    <3>3. IndexInv'
      BY <2>1, <2>3, IndexRests DEF ProductInv
    <3> QED BY <3>1, <3>2, <3>3
  <2> QED BY <2>4, <2>5, <2>6 DEF ProductInv
<1> QED BY <1>1, <1>2, <1>3, <1>4, <1>5 DEF ProductNext

LEMMA ProductInvIs ==
    ProductInv => ProductTypeOK /\ ProductIsWhole /\ IndexFollowsProduct
<1> SUFFICES ASSUME ProductInv PROVE ProductTypeOK /\ ProductIsWhole /\ IndexFollowsProduct
  OBVIOUS
<1>0. ProductTyped /\ WholeInv /\ PriceInv /\ OrdersKeepVariants /\ LinesInv /\ IndexInv
  BY DEF ProductInv
<1>1. ProductTypeOK
  BY <1>0 DEF ProductTyped, ProductRows, ProductSaves, ProductSearch, ProductTypeOK
<1>2. SavedWhole
  <2>1. SUFFICES ASSUME ~mixed, Busy = {}, product.there
                 PROVE  \E s \in 0..saves :
                            /\ \A l \in Lists \ {"collections", "seo"} : list[l] = {s}
                            /\ \A l \in {"collections", "seo"} : Cardinality(list[l]) <= 1
                            /\ \A i \in Present : variant[i].by = s
                            /\ {variant[i].sku : i \in Present} = Skus
    BY DEF SavedWhole
  <2>2. OneSave /\ \A l \in Lists \ MainLists : list[l] = {} \/ \E s \in SaveIds : list[l] = {s}
    BY <2>1, <1>0 DEF WholeInv
  <2>3. \A l \in {"collections", "seo"} : Cardinality(list[l]) <= 1
    <3>1. ASSUME NEW l \in {"collections", "seo"} PROVE Cardinality(list[l]) <= 1
      <4>1. list[l] = {} \/ \E s \in SaveIds : list[l] = {s}
        BY <2>2 DEF Lists, MainLists
      <4>2. CASE list[l] = {}
        BY <4>2, FS_EmptySet
      <4>3. ASSUME NEW s \in SaveIds, list[l] = {s} PROVE Cardinality(list[l]) <= 1
        BY <4>3, FS_Singleton
      <4> QED BY <4>1, <4>2, <4>3
    <3> QED BY <3>1
  <2> HIDE DEF Present
  <2> QED BY <2>2, <2>3 DEF OneSave, MainLists
<1>3. PriceWithinMrp /\ BlockedOnlyByNewLine
  BY <1>0 DEF PriceInv, PriceWithinMrp, LinesInv, BlockedOnlyByNewLine
<1>4. IndexFollowsProduct
  BY <1>0 DEF IndexInv, IndexFollowsProduct, Current, WrittenYet
<1> QED BY <1>0, <1>1, <1>2, <1>3, <1>4 DEF ProductIsWhole

(* Products, variants, works and index tasks keep their types. *)
THEOREM ProductTypes == ProductSpec => []ProductTypeOK
<1>1. ProductInv => ProductTypeOK
  BY ProductInvIs
<1> QED BY <1>1, ProductStarts, ProductSteps, PTL DEF ProductSpec

(* Between saves that neither overlap nor stop a product is one save's, its  *)
(* price stays within the MRP but for the cases named, order lines keep      *)
(* their variants until these are replaced, and a save is refused because of *)
(* a cart only if its line came in between.                                  *)
THEOREM ProductHolds == ProductSpec => []ProductIsWhole
<1>1. ProductInv => ProductIsWhole
  BY ProductInvIs
<1> QED BY <1>1, ProductStarts, ProductSteps, PTL DEF ProductSpec

(* With no update under way the index says of the product what its row says, *)
(* unless updates overlapped, one failed, or the status was switched alone,  *)
(* and no rebuild after that was alone, succeeded and put what the product   *)
(* still was (search.service.ts:184-232).                                    *)
THEOREM IndexFollows == ProductSpec => []IndexFollowsProduct
<1>1. ProductInv => IndexFollowsProduct
  BY ProductInvIs
<1> QED BY <1>1, ProductStarts, ProductSteps, PTL DEF ProductSpec

-----------------------------------------------------------------------------
(* The page of one order. *)

DeskKeys == {"status", "couriers", "create", "awb", "pickup", "label", "invoice", "track", "cancel"}
OrderKept == [status : DOMAIN Rank, parcels : Seq(ParcelShown), version : Nat]
HeardStatus == {c \in deskCalls : c.heard /\ c.key = "status"}
HeardButton == {c \in deskCalls : c.heard /\ c.key # "status"}

(* The fields that a request and a load have. *)
IsCall(c) == c \in [n : {c.n}, key : {c.key}, id : {c.id}, status : {c.status}, at : {c.at},
                    version : {c.version}, heard : {c.heard}]
IsLoad(l) == l = [n |-> l.n, order |-> l.order]

(* Types; nothing that was read or answered is newer than the order. *)
DeskTyped ==
    /\ onServer \in OrderKept
    /\ copy # NoCopy => /\ copy.version \in 0..onServer.version /\ nextStatus \in DOMAIN Rank
    /\ \A l \in loads : l.order # NoCopy =>
          l.order.version \in 0..onServer.version /\ l.order.status \in DOMAIN Rank
    /\ ownVersion \in 0..onServer.version
    /\ \A l \in loads : IsLoad(l)
    /\ \A c \in deskCalls : IsCall(c)
    /\ \A c \in deskCalls : /\ c.key \in DeskKeys /\ c.heard \in BOOLEAN
                            /\ c.key = "status" => c.status \in DOMAIN Rank
                            /\ c.at = "ok" => c.version \in 0..onServer.version
    /\ shipping \in {"unknown", "yes", "no"} /\ savingStatus \in BOOLEAN /\ failed \in BOOLEAN
    /\ outrun \in BOOLEAN

(* Unless loads overtook each other there is one, and it shows what the      *)
(* desk has done.                                                            *)
CopyInv ==
    ~outrun =>
        /\ \A l, m \in loads : l = m
        /\ \A l \in loads : l.order # NoCopy => l.order.version >= ownVersion
        /\ Loaded /\ loads = {} => copy.version >= ownVersion

(* Each flag stands for one request. *)
FlagInv ==
    /\ IF savingStatus THEN \E c : HeardStatus = {c} ELSE HeardStatus = {}
    /\ IF deskBusy = "no" THEN HeardButton = {} ELSE \E c : HeardButton = {c}

DeskInv == DeskTyped /\ CopyInv /\ FlagInv

(* What an edit of a request changes. *)
LEMMA CallEdits ==
    ASSUME NEW c, IsCall(c), NEW w
    PROVE  /\ LET d == [c EXCEPT !.heard = FALSE] IN
                 /\ IsCall(d) /\ ~d.heard /\ d.heard \in BOOLEAN /\ d.key = c.key
                 /\ d.status = c.status /\ d.at = c.at /\ d.version = c.version
           /\ LET d == [c EXCEPT !.at = "error"] IN
                 /\ IsCall(d) /\ d.heard = c.heard /\ d.key = c.key /\ d.status = c.status
                 /\ d.at = "error"
           /\ LET d == [c EXCEPT !.at = "ok", !.version = w] IN
                 /\ IsCall(d) /\ d.heard = c.heard /\ d.key = c.key /\ d.status = c.status
                 /\ d.version = w
<1>1. LET d == [c EXCEPT !.heard = FALSE] IN
         /\ IsCall(d) /\ ~d.heard /\ d.heard \in BOOLEAN /\ d.key = c.key
         /\ d.status = c.status /\ d.at = c.at /\ d.version = c.version
  <2> DEFINE d == [c EXCEPT !.heard = FALSE]
  <2>1. d \in [n : {c.n}, key : {c.key}, id : {c.id}, status : {c.status}, at : {c.at},
              version : {c.version}, heard : {FALSE}]
    BY DEF IsCall
  <2> HIDE DEF d
  <2>2. /\ d.n = c.n /\ d.key = c.key /\ d.status = c.status /\ d.id = c.id /\ d.at = c.at
        /\ d.version = c.version /\ d.heard = FALSE
    BY <2>1
  <2>3. IsCall(d)
    BY <2>1, <2>2 DEF IsCall
  <2> QED BY <2>2, <2>3 DEF d
<1>2. LET d == [c EXCEPT !.at = "error"] IN
         IsCall(d) /\ d.heard = c.heard /\ d.key = c.key /\ d.status = c.status /\ d.at = "error"
  <2> DEFINE d == [c EXCEPT !.at = "error"]
  <2>1. d \in [n : {c.n}, key : {c.key}, id : {c.id}, status : {c.status}, at : {"error"},
              version : {c.version}, heard : {c.heard}]
    BY DEF IsCall
  <2> HIDE DEF d
  <2>2. /\ d.n = c.n /\ d.key = c.key /\ d.status = c.status /\ d.id = c.id /\ d.at = "error"
        /\ d.version = c.version /\ d.heard = c.heard
    BY <2>1
  <2>3. IsCall(d)
    BY <2>1, <2>2 DEF IsCall
  <2> QED BY <2>2, <2>3 DEF d
<1>3. LET d == [c EXCEPT !.at = "ok", !.version = w] IN
         IsCall(d) /\ d.heard = c.heard /\ d.key = c.key /\ d.status = c.status /\ d.version = w
  <2> DEFINE d == [c EXCEPT !.at = "ok", !.version = w]
  <2>1. d \in [n : {c.n}, key : {c.key}, id : {c.id}, status : {c.status}, at : {"ok"},
              version : {w}, heard : {c.heard}]
    BY DEF IsCall
  <2> HIDE DEF d
  <2>2. /\ d.n = c.n /\ d.key = c.key /\ d.status = c.status /\ d.id = c.id /\ d.at = "ok"
        /\ d.version = w /\ d.heard = c.heard
    BY <2>1
  <2>3. IsCall(d)
    BY <2>1, <2>2 DEF IsCall
  <2> QED BY <2>2, <2>3 DEF d
<1> QED BY <1>1, <1>2, <1>3

LEMMA DeskStarts == DeskInit => DeskInv
<1> SUFFICES ASSUME DeskInit PROVE DeskInv
  OBVIOUS
<1>0. << >> \in Seq(ParcelShown) /\ "CONFIRMED" \in DOMAIN Rank
  BY DEF Rank
<1>1. onServer \in OrderKept /\ onServer.version = 0
  BY <1>0 DEF DeskInit, OrderKept
<1>i. /\ loads = {[n |-> 1, order |-> NoCopy]} /\ copy = NoCopy /\ failed = FALSE
      /\ savingStatus = FALSE /\ shipping = "unknown" /\ deskCalls = {} /\ ownVersion = 0
      /\ outrun = FALSE
  BY Zenon DEF DeskInit
<1>l. \A l \in loads : l.order = NoCopy /\ IsLoad(l)
  BY <1>i DEF IsLoad
<1>2. DeskTyped
  <2>1. ownVersion \in 0..onServer.version
    BY <1>1, <1>i
  <2> QED BY <2>1, <1>1, <1>i, <1>l DEF DeskTyped
<1>3. CopyInv
  <2>1. \A l, m \in loads : l = m
    BY Zenon DEF DeskInit
  <2> QED BY <1>l, <2>1 DEF DeskInit, CopyInv, Loaded
<1>4. FlagInv
  BY DEF DeskInit, FlagInv, HeardStatus, HeardButton
<1> QED BY <1>2, <1>3, <1>4 DEF DeskInv

(* The order keeps its type, and its version never goes back. *)
LEMMA ServerMoves ==
    ASSUME onServer \in OrderKept, NEW ord \in OrderKept, ord.version = onServer.version,
           Becomes(ord)
    PROVE  /\ onServer' \in OrderKept /\ onServer'.version \in Nat
           /\ onServer'.version >= onServer.version
BY DEF Becomes, OrderKept

LEMMA ParcelChanges ==
    ASSUME NEW q \in Seq(ParcelShown), NEW i, NEW p \in ParcelShown
    PROVE  [q EXCEPT ![i] = p] \in Seq(ParcelShown)
<1> DEFINE r == [q EXCEPT ![i] = p]
           n == Len(q)
<1>1. n \in Nat /\ q \in [1..n -> ParcelShown]
  OBVIOUS
<1> HIDE DEF n
<1>2. r \in [1..n -> ParcelShown]
  BY <1>1
<1> HIDE DEF r
<1>3. r \in Seq(ParcelShown)
  BY <1>1, <1>2, SeqDef
<1> QED BY <1>3 DEF r

LEMMA RaisedOK ==
    ASSUME NEW s \in DOMAIN Rank, NEW t \in DOMAIN Rank
    PROVE  Raised(s, t) \in DOMAIN Rank
BY DEF Raised

LEMMA CreatedOK ==
    ASSUME onServer \in OrderKept, NEW ord \in Created
    PROVE  ord \in OrderKept /\ ord.version = onServer.version
<1>1. CASE OpenParcels # {}
  BY <1>1 DEF Created, OrderKept
<1>2. CASE OpenParcels = {}
  <2>1. PICK b \in BOOLEAN :
            ord = [onServer EXCEPT !.parcels = Append(@, [awb |-> b, pickup |-> FALSE, cancelled |-> FALSE,
                                                            delivered |-> FALSE]),
                                     !.status = Raised(@, "PROCESSING")]
    BY <1>2 DEF Created
  <2>2. [awb |-> b, pickup |-> FALSE, cancelled |-> FALSE, delivered |-> FALSE] \in ParcelShown
    BY DEF ParcelShown
  <2>3. "PROCESSING" \in DOMAIN Rank
    BY DEF Rank
  <2>4. Raised(onServer.status, "PROCESSING") \in DOMAIN Rank
    BY <2>3, RaisedOK DEF OrderKept
  <2> DEFINE new == [awb |-> b, pickup |-> FALSE, cancelled |-> FALSE, delivered |-> FALSE]
             q == Append(onServer.parcels, new)
  <2>5. q \in Seq(ParcelShown)
    <3>1. onServer.parcels \in Seq(ParcelShown)
      BY DEF OrderKept
    <3> HIDE DEF new
    <3> QED BY <3>1, <2>2 DEF new
  <2>6. ord = [onServer EXCEPT !.parcels = q, !.status = Raised(onServer.status, "PROCESSING")]
    BY <2>1
  <2> HIDE DEF q
  <2> QED BY <2>5, <2>6, <2>4 DEF OrderKept
<1> QED BY <1>1, <1>2

(* One parcel of the order changes. *)
LEMMA ParcelEdits ==
    ASSUME onServer \in OrderKept, NEW i
    PROVE  /\ [onServer EXCEPT !.parcels[i].awb = TRUE] \in OrderKept
           /\ [onServer EXCEPT !.parcels[i].pickup = TRUE] \in OrderKept
           /\ [onServer EXCEPT !.parcels[i].cancelled = TRUE] \in OrderKept
           /\ \A s \in DOMAIN Rank :
                 [onServer EXCEPT !.parcels[i].delivered = TRUE, !.status = s] \in OrderKept
<1> DEFINE q == onServer.parcels
<1>1. q \in Seq(ParcelShown)
  BY DEF OrderKept
<1>2. /\ [q EXCEPT ![i].awb = TRUE] \in Seq(ParcelShown)
      /\ [q EXCEPT ![i].pickup = TRUE] \in Seq(ParcelShown)
      /\ [q EXCEPT ![i].cancelled = TRUE] \in Seq(ParcelShown)
      /\ [q EXCEPT ![i].delivered = TRUE] \in Seq(ParcelShown)
  <2>1. CASE i \in DOMAIN q
    <3>1. q[i] \in ParcelShown
      BY <1>1, <2>1
    <3>2. /\ [q[i] EXCEPT !.awb = TRUE] \in ParcelShown /\ [q[i] EXCEPT !.pickup = TRUE] \in ParcelShown
          /\ [q[i] EXCEPT !.cancelled = TRUE] \in ParcelShown
          /\ [q[i] EXCEPT !.delivered = TRUE] \in ParcelShown
      BY <3>1 DEF ParcelShown
    <3> QED BY <1>1, <3>2, ParcelChanges
  <2>2. CASE i \notin DOMAIN q
    <3>1. \A e : [q EXCEPT ![i] = e] = q
      BY <1>1, <2>2
    <3> QED BY <1>1, <3>1
  <2> QED BY <2>1, <2>2
<1> QED BY <1>2 DEF OrderKept

LEMMA TrackedOK ==
    ASSUME onServer \in OrderKept, NEW i, NEW ord \in Tracked(i)
    PROVE  ord \in OrderKept /\ ord.version = onServer.version
<1>1. "DELIVERED" \in DOMAIN Rank
  BY DEF Rank
<1>2. Raised(onServer.status, "DELIVERED") \in DOMAIN Rank
  BY <1>1, RaisedOK DEF OrderKept
<1>3. CASE ord = onServer
  BY <1>3
<1>4. CASE ord = [onServer EXCEPT !.parcels[i].delivered = TRUE, !.status = Raised(@, "DELIVERED")]
  <2>1. ord \in OrderKept
    BY <1>2, <1>4, ParcelEdits
  <2>2. ord.version = onServer.version
    BY <1>4 DEF OrderKept
  <2> QED BY <2>1, <2>2
<1> QED BY <1>3, <1>4 DEF Tracked

LEMMA OutcomesOK ==
    ASSUME DeskTyped, NEW c \in deskCalls, NEW ord \in Outcomes(c)
    PROVE  ord \in OrderKept /\ ord.version = onServer.version
<1>0. onServer \in OrderKept /\ c.key \in DeskKeys /\ (c.key = "status" => c.status \in DOMAIN Rank)
  BY DEF DeskTyped
<1>1. CASE c.key = "status"
  <2>1. ord = [onServer EXCEPT !.status = c.status]
    BY <1>1 DEF Outcomes
  <2> QED BY <2>1, <1>0, <1>1 DEF OrderKept
<1>2. CASE c.key = "create"
  <2>1. ord \in Created
    BY <1>2 DEF Outcomes
  <2> QED BY <2>1, <1>0, CreatedOK
<1>3. CASE c.key = "track"
  <2>1. ord \in Tracked(c.id)
    BY <1>3 DEF Outcomes
  <2> QED BY <2>1, <1>0, TrackedOK
<1>4. CASE c.key \in {"awb", "pickup", "cancel"}
  <2>1. ord \in {[onServer EXCEPT !.parcels[c.id].awb = TRUE], [onServer EXCEPT !.parcels[c.id].pickup = TRUE],
                   [onServer EXCEPT !.parcels[c.id].cancelled = TRUE]}
    BY <1>4 DEF Outcomes
  <2>2. ord.version = onServer.version
    BY <2>1, <1>0 DEF OrderKept
  <2> QED BY <2>1, <2>2, <1>0, ParcelEdits
<1>5. CASE c.key \in {"couriers", "label", "invoice"}
  BY <1>5, <1>0 DEF Outcomes
<1> QED BY <1>0, <1>1, <1>2, <1>3, <1>4, <1>5 DEF DeskKeys

-----------------------------------------------------------------------------
(* The order changes, and the page does not see it yet. *)
LEMMA BehindKeeps ==
    ASSUME DeskInv, NEW ord \in OrderKept, ord.version = onServer.version, Becomes(ord)
    PROVE  /\ onServer' \in OrderKept /\ onServer'.version \in Nat
           /\ \A n \in 0..onServer.version : n \in 0..onServer'.version
<1>1. onServer \in OrderKept /\ onServer.version \in Nat
  BY DEF DeskInv, DeskTyped, OrderKept
<1>2. onServer' \in OrderKept /\ onServer'.version \in Nat /\ onServer'.version >= onServer.version
  BY <1>1, ServerMoves
<1> QED BY <1>1, <1>2

LEMMA LoadsKeep ==
    ASSUME DeskInv, NEW l \in loads, ReadOrder(l) \/ LoadShown(l) \/ LoadBreaks(l)
    PROVE  DeskInv'
<1>0. DeskTyped /\ CopyInv /\ FlagInv /\ onServer \in OrderKept /\ onServer.version \in Nat
      /\ ownVersion \in 0..onServer.version /\ onServer.status \in DOMAIN Rank
  BY DEF DeskInv, DeskTyped, OrderKept
<1>1. CASE ReadOrder(l)
  <2> DEFINE m == [l EXCEPT !.order = onServer]
  <2>1. /\ loads' = (loads \ {l}) \cup {m}
        /\ UNCHANGED <<onServer, copy, nextStatus, failed, savingStatus, deskBusy, shipping, deskCalls,
                       ownVersion, outrun>>
    BY <1>1 DEF ReadOrder, shownOrder, deskHistory
  <2>2. m.order = onServer /\ IsLoad(m)
    BY <1>0 DEF DeskTyped, IsLoad
  <2> HIDE DEF m
  <2>3. l.order = NoCopy
    BY <1>1 DEF ReadOrder
  <2>4. DeskTyped'
    BY <1>0, <2>1, <2>2 DEF DeskTyped
  <2>5. CopyInv'
    <3>1. ASSUME ~outrun
          PROVE  loads' = {m}
      BY <3>1, <1>0, <2>1 DEF CopyInv
    <3> QED BY <3>1, <1>0, <2>1, <2>2, <2>3 DEF CopyInv
  <2>6. FlagInv'
    BY <1>0, <2>1 DEF FlagInv, HeardStatus, HeardButton
  <2> QED BY <2>4, <2>5, <2>6 DEF DeskInv
<1>2. CASE LoadShown(l)
  <2>1. /\ l.order # NoCopy /\ copy' = l.order /\ nextStatus' = l.order.status /\ loads' = loads \ {l}
        /\ UNCHANGED <<onServer, failed, savingStatus, deskBusy, shipping, deskCalls,
                       ownVersion, outrun>>
    BY <1>2 DEF LoadShown, deskHistory
  <2>4. DeskTyped'
    BY <1>0, <2>1 DEF DeskTyped
  <2>5. CopyInv'
    BY <1>0, <2>1 DEF CopyInv, Loaded
  <2>6. FlagInv'
    BY <1>0, <2>1 DEF FlagInv, HeardStatus, HeardButton
  <2> QED BY <2>4, <2>5, <2>6 DEF DeskInv
<1>3. CASE LoadBreaks(l)
  <2>1. /\ failed' = TRUE /\ loads' = loads \ {l}
        /\ UNCHANGED <<onServer, copy, nextStatus, savingStatus, deskBusy, shipping, deskCalls,
                       ownVersion, outrun>>
    BY <1>3 DEF LoadBreaks, deskHistory
  <2>4. DeskTyped'
    BY <1>0, <2>1 DEF DeskTyped
  <2>5. CopyInv'
    BY <1>0, <2>1 DEF CopyInv, Loaded
  <2>6. FlagInv'
    BY <1>0, <2>1 DEF FlagInv, HeardStatus, HeardButton
  <2> QED BY <2>4, <2>5, <2>6 DEF DeskInv
<1> QED BY <1>1, <1>2, <1>3

LEMMA ChoiceKeeps ==
    ASSUME DeskInv, (\E ok \in BOOLEAN : ShippingKnown(ok)) \/ (\E x \in DeskStatuses : ChooseStatus(x))
    PROVE  DeskInv'
<1>0. DeskTyped /\ CopyInv /\ FlagInv
  BY DEF DeskInv
<1>1. DeskStatuses \subseteq DOMAIN Rank
  BY DeskAssumption DEF Rank
<1>2. /\ UNCHANGED <<onServer, copy, failed, savingStatus, deskBusy, deskCalls, loads, ownVersion, outrun>>
      /\ nextStatus' = nextStatus \/ nextStatus' \in DOMAIN Rank
      /\ shipping' \in {shipping, "yes", "no"}
  BY <1>1 DEF ShippingKnown, ChooseStatus, shownOrder, deskHistory
<1>3. DeskTyped'
  BY <1>0, <1>2 DEF DeskTyped
<1>4. CopyInv' /\ FlagInv'
  BY <1>0, <1>2 DEF CopyInv, FlagInv, HeardStatus, HeardButton, Loaded
<1> QED BY <1>3, <1>4 DEF DeskInv

LEMMA DeskOpenKeeps ==
    ASSUME DeskInv, OpenDesk
    PROVE  DeskInv'
<1> DEFINE new == [n |-> presses + 1, order |-> NoCopy]
<1>0. DeskTyped
  BY DEF DeskInv
<1>1. /\ copy' = NoCopy /\ nextStatus' = "" /\ failed' = FALSE /\ savingStatus' = FALSE
      /\ deskBusy' = "no" /\ shipping' = "unknown" /\ loads' = {new} /\ outrun' = FALSE
      /\ deskCalls' = {[c EXCEPT !.heard = FALSE] : c \in deskCalls}
      /\ UNCHANGED <<onServer, ownVersion>>
  BY DEF OpenDesk
<1>2. new.order = NoCopy /\ IsLoad(new)
  BY DEF IsLoad
<1> HIDE DEF new
<1>3. \A c \in deskCalls' :
          /\ ~c.heard /\ c.heard \in BOOLEAN /\ IsCall(c)
          /\ \E d \in deskCalls : /\ c.key = d.key /\ c.status = d.status /\ c.at = d.at
                                  /\ c.version = d.version
  <2>1. ASSUME NEW d \in deskCalls
        PROVE  /\ ~[d EXCEPT !.heard = FALSE].heard /\ [d EXCEPT !.heard = FALSE].heard \in BOOLEAN
               /\ IsCall([d EXCEPT !.heard = FALSE])
               /\ [d EXCEPT !.heard = FALSE].key = d.key /\ [d EXCEPT !.heard = FALSE].at = d.at
               /\ [d EXCEPT !.heard = FALSE].status = d.status
               /\ [d EXCEPT !.heard = FALSE].version = d.version
    BY <1>0, CallEdits DEF DeskTyped
  <2> QED BY <2>1, <1>1
<1>4. DeskTyped'
  BY <1>0, <1>1, <1>2, <1>3 DEF DeskTyped
<1>5. CopyInv'
  BY <1>1, <1>2 DEF CopyInv, Loaded
<1>6. FlagInv'
  BY <1>1, <1>3 DEF FlagInv, HeardStatus, HeardButton
<1> QED BY <1>4, <1>5, <1>6 DEF DeskInv

(* The desk sends a request. *)
LEMMA AskIs ==
    ASSUME DeskTyped, NEW key \in DeskKeys, NEW id, NEW status, AskServer(key, id, status),
           key = "status" => status \in DOMAIN Rank,
           UNCHANGED <<onServer, copy, nextStatus, failed, shipping, loads, ownVersion, outrun>>,
           savingStatus' \in BOOLEAN
    PROVE  /\ DeskTyped'
           /\ key = "status" => /\ HeardButton' = HeardButton
                                /\ HeardStatus = {} => \E c : HeardStatus' = {c}
           /\ key # "status" => /\ HeardStatus' = HeardStatus
                                /\ HeardButton = {} => \E c : HeardButton' = {c}
<1> DEFINE new == [n |-> presses + 1, key |-> key, id |-> id, status |-> status, at |-> "sent",
                   version |-> 0, heard |-> TRUE]
<1>1. deskCalls' = deskCalls \cup {new}
  BY DEF AskServer
<1>2. /\ new.key = key /\ new.heard = TRUE /\ new.status = status /\ new.at = "sent" /\ IsCall(new)
  BY DEF IsCall
<1> HIDE DEF new
<1>3. DeskTyped'
  BY <1>1, <1>2 DEF DeskTyped
<1>4. key = "status" => HeardStatus' = HeardStatus \cup {new} /\ HeardButton' = HeardButton
  BY <1>1, <1>2 DEF HeardStatus, HeardButton
<1>5. key # "status" => HeardButton' = HeardButton \cup {new} /\ HeardStatus' = HeardStatus
  BY <1>1, <1>2 DEF HeardStatus, HeardButton
<1> QED BY <1>3, <1>4, <1>5

LEMMA AskKeeps ==
    ASSUME DeskInv,
           updateStatus \/ \E key \in {"couriers", "create", "awb", "pickup", "label", "invoice", "track",
                                       "cancel"} : run(key)
    PROVE  DeskInv'
<1>0. DeskTyped /\ CopyInv /\ FlagInv
  BY DEF DeskInv
<1>1. CASE updateStatus
  <2>1. /\ Loaded /\ ~savingStatus /\ savingStatus' = TRUE /\ AskServer("status", 0, nextStatus)
        /\ UNCHANGED <<onServer, copy, nextStatus, failed, deskBusy, shipping, loads, ownVersion, outrun>>
    BY <1>1 DEF updateStatus, CanUpdate, shownOrder, deskHistory
  <2>2. nextStatus \in DOMAIN Rank /\ "status" \in DeskKeys
    BY <2>1, <1>0 DEF Loaded, DeskTyped, DeskKeys
  <2>3. /\ DeskTyped' /\ HeardButton' = HeardButton
        /\ HeardStatus = {} => \E c : HeardStatus' = {c}
    BY <2>1, <2>2, <1>0, AskIs
  <2>4. CopyInv'
    BY <1>0, <2>1 DEF CopyInv, Loaded
  <2>5. FlagInv'
    BY <1>0, <2>1, <2>3 DEF FlagInv
  <2> QED BY <2>3, <2>4, <2>5 DEF DeskInv
<1>2. ASSUME NEW key \in {"couriers", "create", "awb", "pickup", "label", "invoice", "track", "cancel"},
             run(key)
      PROVE  DeskInv'
  <2>1. /\ deskBusy = "no" /\ deskBusy' = key /\ AskServer(key, ShownParcel, "")
        /\ UNCHANGED <<onServer, copy, nextStatus, failed, savingStatus, shipping, loads, ownVersion,
                       outrun>>
    BY <1>2 DEF run, shownOrder, deskHistory
  <2>2. key \in DeskKeys /\ key # "status" /\ key # "no" /\ savingStatus' \in BOOLEAN
    BY <2>1, <1>0 DEF DeskKeys, DeskTyped
  <2>3. /\ DeskTyped' /\ HeardStatus' = HeardStatus
        /\ HeardButton = {} => \E c : HeardButton' = {c}
    BY <2>1, <2>2, <1>0, AskIs
  <2>4. CopyInv'
    BY <1>0, <2>1 DEF CopyInv, Loaded
  <2>5. FlagInv'
    BY <1>0, <2>1, <2>2, <2>3 DEF FlagInv
  <2> QED BY <2>3, <2>4, <2>5 DEF DeskInv
<1> QED BY <1>1, <1>2

(* The server answers, and the request is the same to the page. *)
LEMMA ServeKeeps ==
    ASSUME DeskInv, NEW c \in deskCalls, ServeDesk(c)
    PROVE  DeskInv'
<1>0. DeskTyped /\ CopyInv /\ FlagInv /\ IsCall(c)
  BY DEF DeskInv, DeskTyped
<1>u. UNCHANGED <<copy, nextStatus, failed, savingStatus, deskBusy, shipping, loads, ownVersion, outrun>>
  BY DEF ServeDesk, shownOrder, deskHistory
<1>1. /\ onServer' \in OrderKept /\ onServer'.version \in Nat
      /\ \A n \in 0..onServer.version : n \in 0..onServer'.version
      /\ \E d : /\ deskCalls' = (deskCalls \ {c}) \cup {d}
                /\ IsCall(d) /\ d.heard = c.heard /\ d.key = c.key /\ d.status = c.status
                /\ d.at = "ok" => d.version \in 0..onServer'.version
  <2>1. CASE Refuses(c)
    <3> DEFINE d == [c EXCEPT !.at = "error"]
    <3>1. deskCalls' = (deskCalls \ {c}) \cup {d} /\ onServer' = onServer
      BY <2>1 DEF ServeDesk
    <3>2. /\ IsCall(d) /\ d.heard = c.heard /\ d.key = c.key /\ d.status = c.status /\ d.at = "error"
      BY <1>0, CallEdits
    <3> HIDE DEF d
    <3>3. onServer \in OrderKept /\ onServer.version \in Nat
      BY <1>0 DEF DeskTyped, OrderKept
    <3> QED BY <3>1, <3>2, <3>3
  <2>2. CASE ~Refuses(c)
    <3> DEFINE d == [c EXCEPT !.at = "ok", !.version = onServer'.version]
    <3>1. deskCalls' = (deskCalls \ {c}) \cup {d} /\ \E ord \in Outcomes(c) : Becomes(ord)
      BY <2>2 DEF ServeDesk
    <3>w. PICK w : w = onServer'.version
      OBVIOUS
    <3>d. d = [c EXCEPT !.at = "ok", !.version = w]
      BY <3>w
    <3>e. LET e == [c EXCEPT !.at = "ok", !.version = w] IN
            /\ IsCall(e) /\ e.heard = c.heard /\ e.key = c.key /\ e.status = c.status
            /\ e.version = w
      BY ONLY <1>0, CallEdits
    <3> HIDE DEF d
    <3>2. /\ IsCall(d) /\ d.heard = c.heard /\ d.key = c.key /\ d.status = c.status
          /\ d.version = onServer'.version
      BY <3>d, <3>e, <3>w
    <3>3. PICK ord \in Outcomes(c) : Becomes(ord)
      BY <3>1
    <3>4. ord \in OrderKept /\ ord.version = onServer.version
      BY <1>0, OutcomesOK
    <3>5. /\ onServer' \in OrderKept /\ onServer'.version \in Nat
          /\ \A n \in 0..onServer.version : n \in 0..onServer'.version
      BY <3>3, <3>4, BehindKeeps
    <3> QED BY <3>1, <3>2, <3>5
  <2> QED BY <2>1, <2>2
<1>2. PICK d : /\ deskCalls' = (deskCalls \ {c}) \cup {d}
               /\ IsCall(d) /\ d.heard = c.heard /\ d.key = c.key /\ d.status = c.status
               /\ d.at = "ok" => d.version \in 0..onServer'.version
  BY <1>1
<1>3. DeskTyped'
  <2>1. \A x \in deskCalls' : x \in deskCalls \/ x = d
    BY <1>2
  <2> QED BY <2>1, <1>0, <1>1, <1>2, <1>u DEF DeskTyped
<1>4. CopyInv'
  BY <1>0, <1>u DEF CopyInv, Loaded
<1>5. FlagInv'
  <2>1. \A x : HeardStatus = {x} => \E y : HeardStatus' = {y}
    <3> SUFFICES ASSUME NEW x, HeardStatus = {x}
                 PROVE  \E y : HeardStatus' = {y}
      OBVIOUS
    <3>1. CASE c \in HeardStatus
      <4>1. c = x /\ c.heard /\ c.key = "status"
        BY <3>1 DEF HeardStatus
      <4>2. \A z \in deskCalls : z.heard /\ z.key = "status" => z = c
        BY <4>1 DEF HeardStatus
      <4>3. HeardStatus' = {d}
        BY <4>1, <4>2, <1>2 DEF HeardStatus
      <4> QED BY <4>3
    <3>2. CASE c \notin HeardStatus
      <4>1. ~(c.heard /\ c.key = "status")
        BY <3>2 DEF HeardStatus
      <4>2. HeardStatus' = HeardStatus
        BY <4>1, <1>2 DEF HeardStatus
      <4> QED BY <4>2
    <3> QED BY <3>1, <3>2
  <2>2. HeardStatus = {} => HeardStatus' = {}
    BY <1>2 DEF HeardStatus
  <2>3. \A x : HeardButton = {x} => \E y : HeardButton' = {y}
    BY <1>2 DEF HeardButton
  <2>4. HeardButton = {} => HeardButton' = {}
    BY <1>2 DEF HeardButton
  <2> QED BY <2>1, <2>2, <2>3, <2>4, <1>0, <1>u DEF FlagInv
<1> QED BY <1>3, <1>4, <1>5 DEF DeskInv

LEMMA ElsewhereKeeps ==
    ASSUME DeskInv, ChangesElsewhere
    PROVE  DeskInv'
<1>0. DeskTyped /\ CopyInv /\ FlagInv /\ onServer \in OrderKept
  BY DEF DeskInv, DeskTyped
<1>u. UNCHANGED <<copy, nextStatus, failed, savingStatus, deskBusy, shipping, deskCalls, loads,
                  ownVersion, outrun>>
  BY DEF ChangesElsewhere, shownOrder, deskHistory
<1>1. PICK ord \in {[onServer EXCEPT !.status = x] : x \in DeskStatuses} \cup Created
                     \cup UNION {Tracked(i) \cup {[onServer EXCEPT !.parcels[i].cancelled = TRUE]} :
                                     i \in OpenParcels} :
          Becomes(ord)
  BY DEF ChangesElsewhere
<1>2. ord \in OrderKept /\ ord.version = onServer.version
  <2>1. ASSUME NEW x \in DeskStatuses, ord = [onServer EXCEPT !.status = x]
        PROVE  ord \in OrderKept /\ ord.version = onServer.version
    <3>1. x \in DOMAIN Rank
      BY DeskAssumption DEF Rank
    <3> QED BY <2>1, <3>1, <1>0 DEF OrderKept
  <2>2. ASSUME NEW i, ord \in Tracked(i) \cup {[onServer EXCEPT !.parcels[i].cancelled = TRUE]}
        PROVE  ord \in OrderKept /\ ord.version = onServer.version
    <3>1. CASE ord \in Tracked(i)
      BY <3>1, <1>0, TrackedOK
    <3>2. CASE ord = [onServer EXCEPT !.parcels[i].cancelled = TRUE]
      <4>1. ord.version = onServer.version
        BY <3>2, <1>0 DEF OrderKept
      <4> QED BY <4>1, <3>2, <1>0, ParcelEdits
    <3> QED BY <2>2, <3>1, <3>2
  <2> QED BY <1>0, <1>1, <2>1, <2>2, CreatedOK
<1>3. /\ onServer' \in OrderKept /\ onServer'.version \in Nat
      /\ \A n \in 0..onServer.version : n \in 0..onServer'.version
  BY <1>1, <1>2, BehindKeeps
<1>4. DeskTyped'
  BY <1>0, <1>3, <1>u DEF DeskTyped
<1>5. CopyInv' /\ FlagInv'
  BY <1>0, <1>u DEF CopyInv, FlagInv, HeardStatus, HeardButton, Loaded
<1> QED BY <1>4, <1>5 DEF DeskInv

(* A request that the page hears of is one of the two that a flag stands for. *)
LEMMA ReleasedKeeps ==
    ASSUME FlagInv, NEW c \in deskCalls, c.heard, Released(c),
           \/ deskCalls' = deskCalls \ {c}
           \/ \E d : deskCalls' = (deskCalls \ {c}) \cup {d} /\ ~d.heard
    PROVE  FlagInv'
<1>1. CASE c.key = "status"
  <2>1. savingStatus' = FALSE /\ deskBusy' = deskBusy
    BY <1>1 DEF Released
  <2>2. HeardStatus' = {}
    <3>1. HeardStatus = {c}
      BY <1>1 DEF FlagInv, HeardStatus
    <3> QED BY <3>1 DEF HeardStatus
  <2>3. HeardButton' = HeardButton
    BY <1>1 DEF HeardButton
  <2> QED BY <2>1, <2>2, <2>3 DEF FlagInv
<1>2. CASE c.key # "status"
  <2>1. deskBusy' = "no" /\ savingStatus' = savingStatus
    BY <1>2 DEF Released
  <2>2. HeardButton' = {}
    <3>1. HeardButton = {c}
      BY <1>2 DEF FlagInv, HeardButton
    <3> QED BY <3>1 DEF HeardButton
  <2>3. HeardStatus' = HeardStatus
    BY <1>2 DEF HeardStatus
  <2> QED BY <2>1, <2>2, <2>3 DEF FlagInv
<1> QED BY <1>1, <1>2

LEMMA AnsweredKeeps ==
    ASSUME DeskInv, NEW c \in deskCalls, DeskAnswered(c)
    PROVE  DeskInv'
<1> DEFINE new == [n |-> presses + 1, order |-> NoCopy]
<1>0. DeskTyped /\ CopyInv /\ FlagInv
  BY DEF DeskInv
<1>1. /\ c.heard /\ c.at = "ok" /\ deskCalls' = deskCalls \ {c} /\ Released(c)
      /\ loads' = loads \cup {new} /\ outrun' = (loads # {})
      /\ ownVersion' = IF c.version > ownVersion THEN c.version ELSE ownVersion
      /\ UNCHANGED <<onServer, copy, nextStatus, failed, shipping>>
  BY DEF DeskAnswered, LoadsAfter, load, shownOrder
<1>2. new.order = NoCopy /\ IsLoad(new)
  BY DEF IsLoad
<1> HIDE DEF new
<1>3. savingStatus' \in BOOLEAN
  BY <1>0, <1>1 DEF Released, DeskTyped
<1>4. DeskTyped'
  <2>1. ownVersion' \in 0..onServer.version
    BY <1>0, <1>1 DEF DeskTyped
  <2> QED BY <2>1, <1>0, <1>1, <1>2, <1>3 DEF DeskTyped
<1>5. CopyInv'
  <2>1. ASSUME ~outrun'
        PROVE  loads' = {new}
    BY <2>1, <1>1
  <2> QED BY <2>1, <1>2 DEF CopyInv
<1>6. FlagInv'
  BY <1>0, <1>1, ReleasedKeeps
<1> QED BY <1>4, <1>5, <1>6 DEF DeskInv

LEMMA ErrsKeep ==
    ASSUME DeskInv, NEW c \in deskCalls, DeskErrs(c)
    PROVE  DeskInv'
<1> DEFINE d == [c EXCEPT !.heard = FALSE]
<1>0. DeskTyped /\ CopyInv /\ FlagInv /\ IsCall(c)
  BY DEF DeskInv, DeskTyped
<1>1. /\ c.heard /\ Released(c) /\ failed' = (failed \/ c.key = "status")
      /\ deskCalls' = deskCalls \ {c} \/ deskCalls' = (deskCalls \ {c}) \cup {d}
      /\ UNCHANGED <<onServer, copy, nextStatus, shipping, loads, ownVersion, outrun>>
  BY DEF DeskErrs, deskHistory
<1>2. /\ IsCall(d) /\ ~d.heard /\ d.heard \in BOOLEAN /\ d.key = c.key /\ d.status = c.status
      /\ d.at = c.at /\ d.version = c.version
  BY <1>0, CallEdits
<1> HIDE DEF d
<1>3. savingStatus' \in BOOLEAN /\ failed' \in BOOLEAN
  BY <1>0, <1>1 DEF Released, DeskTyped
<1>4. DeskTyped'
  BY <1>0, <1>1, <1>2, <1>3 DEF DeskTyped
<1>5. CopyInv'
  BY <1>0, <1>1 DEF CopyInv, Loaded
<1>6. FlagInv'
  BY <1>0, <1>1, <1>2, ReleasedKeeps
<1> QED BY <1>4, <1>5, <1>6 DEF DeskInv

LEMMA UnheardKeeps ==
    ASSUME DeskInv, NEW c \in deskCalls, Unheard(c)
    PROVE  DeskInv'
<1>1. /\ ~c.heard /\ deskCalls' = deskCalls \ {c}
      /\ UNCHANGED <<onServer, copy, nextStatus, failed, savingStatus, deskBusy, shipping, loads,
                     ownVersion, outrun>>
  BY DEF Unheard, shownOrder, deskHistory
<1>2. DeskTyped'
  BY <1>1 DEF DeskInv, DeskTyped
<1>3. HeardStatus' = HeardStatus /\ HeardButton' = HeardButton
  BY <1>1 DEF HeardStatus, HeardButton
<1>4. CopyInv' /\ FlagInv'
  BY <1>1, <1>3 DEF DeskInv, CopyInv, FlagInv, Loaded
<1> QED BY <1>2, <1>4 DEF DeskInv

LEMMA DeskSteps == DeskInv /\ [DeskNext]_deskVars => DeskInv'
<1> SUFFICES ASSUME DeskInv, [DeskNext]_deskVars PROVE DeskInv'
  OBVIOUS
<1>1. CASE UNCHANGED deskVars
  <2>1. UNCHANGED <<onServer, copy, nextStatus, failed, savingStatus, deskBusy, shipping, deskCalls, loads,
                    ownVersion, outrun>>
    BY <1>1 DEF deskVars
  <2> QED BY <2>1 DEF DeskInv, DeskTyped, CopyInv, FlagInv, HeardStatus, HeardButton, Loaded
<1>2. CASE DeskNext
  BY <1>2, LoadsKeep, ChoiceKeeps, DeskOpenKeeps, AskKeeps, ServeKeeps, ElsewhereKeeps, AnsweredKeeps, ErrsKeep,
     UnheardKeeps DEF DeskNext
<1> QED BY <1>1, <1>2

LEMMA DeskInvIs == DeskInv => DeskTypeOK /\ DeskIsTrue
<1> SUFFICES ASSUME DeskInv PROVE DeskTypeOK /\ DeskIsTrue
  OBVIOUS
<1>0. DeskTyped /\ CopyInv /\ FlagInv
  BY DEF DeskInv
<1>1. DeskTypeOK
  BY <1>0 DEF DeskTyped, DeskTypeOK, OrderKept
<1>2. \A x : Cardinality({x}) = 1
  BY FS_Singleton
<1>3. Cardinality(HeardStatus) = IF savingStatus THEN 1 ELSE 0
  BY <1>0, <1>2, FS_EmptySet DEF FlagInv
<1>4. Cardinality(HeardButton) = IF deskBusy = "no" THEN 0 ELSE 1
  BY <1>0, <1>2, FS_EmptySet DEF FlagInv
<1> QED BY <1>0, <1>1, <1>3, <1>4 DEF DeskIsTrue, HeardStatus, HeardButton, CopyInv

(* The order, its parcel, the page and the requests keep their types. *)
THEOREM DeskTypes == DeskSpec => []DeskTypeOK
<1>1. DeskInv => DeskTypeOK
  BY DeskInvIs
<1> QED BY <1>1, DeskStarts, DeskSteps, PTL DEF DeskSpec

(* A page of an order that has loaded shows what its requests have done,     *)
(* unless loads overtook each other, and its flags stand for requests.       *)
THEOREM DeskHolds == DeskSpec => []DeskIsTrue
<1>1. DeskInv => DeskIsTrue
  BY DeskInvIs
<1> QED BY <1>1, DeskStarts, DeskSteps, PTL DEF DeskSpec

-----------------------------------------------------------------------------
(* The editor of a product.                                                *)
(*                                                                         *)
(* What a partial function, a product, a form and a save are.              *)
IsPartial(f, D, R) == DOMAIN f \subseteq D /\ f \in [DOMAIN f -> R]

ProductRecord ==
    [there : BOOLEAN, base : SkuBases, price : Amounts \cup {0}, text : Texts,
     sizes : SUBSET Sizes, colours : SUBSET Colours, rows : Partial(Combinations, TableRow),
     unsent : BOOLEAN]

FormRecord ==
    [open : BOOLEAN, base : SkuBases, price : Amounts \cup {0}, text : Texts,
     sizes : SUBSET Sizes, colours : SUBSET Colours, stock : Partial(Combinations, Nat),
     skus : Partial(Combinations, RowSkus), prices : Partial(Combinations, Amounts)]

SaveRecord ==
    [sent : {TRUE}, base : SkuBases, price : Amounts \cup {0}, text : Texts,
     sizes : SUBSET Sizes, colours : SUBSET Colours, rows : Partial(Combinations, TableRow),
     touched : SUBSET ({"sku", "stock", "price"} \X Combinations)]

InTable(p) == DOMAIN p.rows \subseteq Matrix(p.sizes, p.colours)

FormTyped ==
    /\ saved \in ProductRecord /\ InTable(saved) /\ (~saved.there => DOMAIN saved.rows = {})
    /\ loaded \in ProductRecord
    /\ editor \in FormRecord
    /\ asked \in Texts \cup {NoneAsked}
    /\ request # NoneInFlight => request \in SaveRecord /\ InTable(request)
    /\ cellsTyped \subseteq {"sku", "stock", "price"} \X Combinations

(* What a cell has that nobody typed: the SKU and the stock of the row that *)
(* was loaded, and its price if it was one of its own.                      *)
SkuAsLoaded(c) == c \in DOMAIN editor.skus /\ editor.skus[c] = loaded.rows[c].sku
StockAsLoaded(c) == c \in DOMAIN editor.stock /\ editor.stock[c] = loaded.rows[c].stock
PriceAsLoaded(c) ==
    IF loaded.rows[c].price \in {0, loaded.price} THEN c \notin DOMAIN editor.prices
    ELSE c \in DOMAIN editor.prices /\ editor.prices[c] = loaded.rows[c].price

FormAsLoaded ==
    editor.open =>
        \A c \in DOMAIN loaded.rows :
            /\ <<"sku", c>> \notin cellsTyped => SkuAsLoaded(c)
            /\ <<"stock", c>> \notin cellsTyped => StockAsLoaded(c)
            /\ <<"price", c>> \notin cellsTyped => PriceAsLoaded(c)

(* A stock nobody typed, of a combination that was not sold, is the loaded  *)
(* one in the row as well: earlier saves of the form wrote it.              *)
StockStays(typed) ==
    \A c \in DOMAIN loaded.rows \cap DOMAIN saved.rows :
        <<"stock", c>> \notin typed /\ c \notin moved => saved.rows[c].stock = loaded.rows[c].stock

(* What a save carries of the cells that were not typed when it was sent, and *)
(* of what the form does not send.                                          *)
SaveAsLoaded ==
    \A c \in DOMAIN loaded.rows \cap DOMAIN request.rows :
        /\ <<"sku", c>> \notin request.touched => request.rows[c].sku = loaded.rows[c].sku
        /\ <<"stock", c>> \notin request.touched => request.rows[c].stock = loaded.rows[c].stock
        /\ <<"price", c>> \notin request.touched =>
              request.rows[c].price = IF loaded.rows[c].price \in {0, loaded.price} THEN request.price
                                      ELSE loaded.rows[c].price
        /\ ~request.rows[c].unsent

SaveFine ==
    request # NoneInFlight =>
        /\ editor.open /\ request.touched \subseteq cellsTyped
        /\ SaveAsLoaded /\ StockStays(request.touched)

FormInv ==
    /\ FormTyped /\ FormAsLoaded /\ SaveFine
    /\ editor.open => StockStays(cellsTyped)
    /\ FormKeepsProduct

(* Partial functions: what one is, and what the form does to it.            *)
LEMMA PartialIs == ASSUME NEW f, NEW D, NEW R PROVE f \in Partial(D, R) <=> IsPartial(f, D, R)
  BY DEF Partial, IsPartial

LEMMA PartialPut ==
    ASSUME NEW D, NEW R, NEW f \in Partial(D, R), NEW c \in D, NEW v \in R
    PROVE  /\ Filled(f, c, v) \in Partial(D, R)
           /\ DOMAIN Filled(f, c, v) = DOMAIN f \cup {c}
           /\ \A d \in DOMAIN f : d # c => Filled(f, c, v)[d] = f[d]
<1>1. IsPartial(f, D, R)
  BY PartialIs
<1>2. DOMAIN Filled(f, c, v) = DOMAIN f \cup {c}
  BY DEF Filled
<1>3. \A d \in DOMAIN f : d # c => Filled(f, c, v)[d] = f[d]
  BY DEF Filled
<1>4. IsPartial(Filled(f, c, v), D, R)
  BY <1>1 DEF Filled, IsPartial
<1> QED BY <1>2, <1>3, <1>4, PartialIs

LEMMA PartialCut ==
    ASSUME NEW D, NEW R, NEW f \in Partial(D, R), NEW S \in SUBSET DOMAIN f
    PROVE  /\ Restrict(f, S) \in Partial(D, R)
           /\ DOMAIN Restrict(f, S) = S
           /\ \A d \in S : Restrict(f, S)[d] = f[d]
<1>1. IsPartial(f, D, R)
  BY PartialIs
<1>2. DOMAIN Restrict(f, S) = S /\ \A d \in S : Restrict(f, S)[d] = f[d]
  BY DEF Restrict
<1>3. IsPartial(Restrict(f, S), D, R)
  BY <1>1 DEF Restrict, IsPartial
<1> QED BY <1>2, <1>3, PartialIs

(* A table is made of combinations.                                         *)
LEMMA TableOf ==
    ASSUME NEW sizes \in SUBSET Sizes, NEW colours \in SUBSET Colours
    PROVE  Matrix(sizes, colours) \subseteq Combinations
  BY DEF Matrix, Combinations, Axis

LEMMA NothingIs == ASSUME NEW D, NEW R PROVE Nothing \in Partial(D, R) /\ DOMAIN Nothing = {}
  BY DEF Nothing, Partial

LEMMA FirstIsBase == ASSUME FormAssumption PROVE FirstBase \in SkuBases
  BY DEF FormAssumption, FirstBase

LEMMA NewForm == ASSUME FormAssumption PROVE EmptyForm \in FormRecord
  BY FirstIsBase, NothingIs DEF EmptyForm, FormRecord, Texts

LEMMA NewProduct ==
    ASSUME FormAssumption PROVE NoProduct \in ProductRecord /\ InTable(NoProduct) /\ NoProduct.rows = Nothing
  BY FirstIsBase, NothingIs DEF NoProduct, ProductRecord, InTable, Texts

(* What the page makes of a product: a form, with its cells as loaded.      *)
LEMMA LoadedForm ==
    ASSUME FormAssumption, NEW p \in ProductRecord
    PROVE  /\ toForm(p) \in FormRecord /\ toForm(p).open
           /\ \A c \in DOMAIN p.rows :
                 /\ c \in DOMAIN toForm(p).skus /\ toForm(p).skus[c] = p.rows[c].sku
                 /\ c \in DOMAIN toForm(p).stock /\ toForm(p).stock[c] = p.rows[c].stock
                 /\ IF p.rows[c].price \in {0, p.price} THEN c \notin DOMAIN toForm(p).prices
                    ELSE c \in DOMAIN toForm(p).prices /\ toForm(p).prices[c] = p.rows[c].price
<1>0. IsPartial(p.rows, Combinations, TableRow)
  BY PartialIs DEF ProductRecord
<1>1. \A c \in DOMAIN p.rows : c \in Combinations /\ p.rows[c] \in TableRow
  BY <1>0 DEF IsPartial
<1>2. [c \in DOMAIN p.rows |-> p.rows[c].stock] \in Partial(Combinations, Nat)
  BY <1>1 DEF Partial, TableRow
<1>3. [c \in DOMAIN p.rows |-> p.rows[c].sku] \in Partial(Combinations, RowSkus)
  BY <1>1 DEF Partial, TableRow
<1>4. LoadedPrices(p) \in Partial(Combinations, Amounts)
  <2>1. \A c \in DOMAIN LoadedPrices(p) : c \in Combinations /\ LoadedPrices(p)[c] \in Amounts
    BY <1>1 DEF TableRow, LoadedPrices
  <2>2. LoadedPrices(p) = [c \in DOMAIN LoadedPrices(p) |-> LoadedPrices(p)[c]]
    BY DEF LoadedPrices
  <2>3. IsPartial(LoadedPrices(p), Combinations, Amounts)
    BY <2>1, <2>2 DEF IsPartial
  <2> QED BY <2>3, PartialIs
<1>5. toForm(p) \in FormRecord /\ toForm(p).open
  BY <1>2, <1>3, <1>4 DEF toForm, FormRecord, ProductRecord
<1>6. \A c \in DOMAIN p.rows : /\ c \in DOMAIN toForm(p).skus /\ toForm(p).skus[c] = p.rows[c].sku
                               /\ c \in DOMAIN toForm(p).stock /\ toForm(p).stock[c] = p.rows[c].stock
  BY DEF toForm
<1>7. \A c \in DOMAIN p.rows : IF p.rows[c].price \in {0, p.price} THEN c \notin DOMAIN toForm(p).prices
                               ELSE c \in DOMAIN toForm(p).prices /\ toForm(p).prices[c] = p.rows[c].price
  BY DEF toForm, LoadedPrices
<1> QED BY <1>5, <1>6, <1>7

-----------------------------------------------------------------------------
LEMMA FormStarts == FormAssumption /\ FormInit => FormInv
<1> SUFFICES ASSUME FormAssumption, FormInit PROVE FormInv
  OBVIOUS
<1>1. saved \in ProductRecord /\ InTable(saved) /\ (~saved.there => DOMAIN saved.rows = {})
  <2>1. CASE saved = NoProduct
    BY <2>1, NewProduct, NothingIs
  <2>2. CASE saved # NoProduct
    <3>1. PICK p \in Amounts, own \in Amounts \cup {0}, sizes \in (SUBSET Sizes) \ {{}}, colours \in {{}, Colours},
               unsent \in BOOLEAN : saved = Stored(p, own, sizes, colours, unsent)
      BY <2>2 DEF FormInit
    <3>2. \A c \in Matrix(sizes, colours) :
             c \in Combinations /\ [sku |-> SkuOf(FirstBase, c), stock |-> 1, price |-> own, unsent |-> unsent] \in TableRow
      BY FirstIsBase, TableOf DEF TableRow, RowSkus, SkuOf
    <3>3. IsPartial([c \in Matrix(sizes, colours) |->
                        [sku |-> SkuOf(FirstBase, c), stock |-> 1, price |-> own, unsent |-> unsent]],
                    Combinations, TableRow)
      BY <3>2 DEF IsPartial
    <3>4. saved.rows \in Partial(Combinations, TableRow)
      BY <3>1, <3>3, PartialIs DEF Stored
    <3> QED BY <3>1, <3>4, FirstIsBase DEF Stored, ProductRecord, InTable, Texts
  <2> QED BY <2>1, <2>2
<1>2. editor \in FormRecord /\ ~editor.open
  BY NewForm DEF FormInit, FormRecord
<1>3. loaded \in ProductRecord /\ request = NoneInFlight /\ asked = NoneAsked /\ cellsTyped = {} /\ asMeant
  BY NewProduct DEF FormInit
<1>4. FormTyped
  BY <1>1, <1>2, <1>3 DEF FormTyped
<1> QED BY <1>2, <1>3, <1>4 DEF FormInv, FormAsLoaded, SaveFine, FormKeepsProduct

(* The page is opened: its cells are as loaded.                             *)
LEMMA FormOpens == FormAssumption /\ FormInv /\ OpenEditor => FormInv'
<1> SUFFICES ASSUME FormAssumption, FormInv, OpenEditor PROVE FormInv'
  OBVIOUS
<1>1. loaded' = saved /\ saved' = saved /\ cellsTyped' = {} /\ moved' = {} /\ ~textTyped' /\ asMeant' = asMeant
      /\ asked' = asked /\ request' = request /\ request = NoneInFlight
  BY DEF OpenEditor, FormInv, SaveFine
<1>2. editor' \in FormRecord
  BY NewForm, LoadedForm DEF OpenEditor, FormInv, FormTyped
<1>3. \A c \in DOMAIN saved.rows :
         /\ c \in DOMAIN editor'.skus /\ editor'.skus[c] = saved.rows[c].sku
         /\ c \in DOMAIN editor'.stock /\ editor'.stock[c] = saved.rows[c].stock
         /\ IF saved.rows[c].price \in {0, saved.price} THEN c \notin DOMAIN editor'.prices
            ELSE c \in DOMAIN editor'.prices /\ editor'.prices[c] = saved.rows[c].price
  <2>1. CASE saved.there
    <3>1. editor' = toForm(saved)
      BY <2>1 DEF OpenEditor
    <3> QED BY <3>1, LoadedForm DEF FormInv, FormTyped
  <2>2. CASE ~saved.there
    BY <2>2 DEF FormInv, FormTyped
  <2> QED BY <2>1, <2>2
<1>4. FormTyped'
  BY <1>1, <1>2 DEF FormInv, FormTyped, InTable
<1>5. FormAsLoaded'
  BY <1>1, <1>3 DEF FormAsLoaded, SkuAsLoaded, StockAsLoaded, PriceAsLoaded
<1>6. SaveFine' /\ StockStays(cellsTyped)' /\ FormKeepsProduct'
  BY <1>1 DEF SaveFine, StockStays, FormKeepsProduct, FormInv
<1> QED BY <1>4, <1>5, <1>6 DEF FormInv

LEMMA FormLeaves == FormInv /\ LeaveEditor /\ FormAssumption => FormInv'
<1> SUFFICES ASSUME FormInv, LeaveEditor, FormAssumption PROVE FormInv'
  OBVIOUS
<1>1. editor' \in FormRecord /\ ~editor'.open
  BY NewForm DEF LeaveEditor, FormRecord
<1>2. asked' = NoneAsked /\ request' = NoneInFlight /\ UNCHANGED <<saved, loaded, cellsTyped, moved, asMeant>>
  BY DEF LeaveEditor
<1>3. FormTyped'
  BY <1>1, <1>2 DEF FormInv, FormTyped, InTable
<1> QED BY <1>1, <1>2, <1>3 DEF FormInv, FormAsLoaded, SaveFine, FormKeepsProduct

(* Typing: more cells are typed, and the others stay as loaded.             *)
LEMMA FormTyping ==
    ASSUME FormInv, NEW f \in FormRecord, Typing(f), f.open, cellsTyped \subseteq cellsTyped',
           cellsTyped' \subseteq {"sku", "stock", "price"} \X Combinations,
           FormAsLoaded', textTyped' => f.text = "typed"
    PROVE  FormInv'
<1>1. editor' = f /\ editor.open /\ UNCHANGED <<saved, loaded, request, asked, moved, asMeant>>
  BY DEF Typing
<1>2. FormTyped'
  BY <1>1 DEF FormInv, FormTyped, InTable
<1>3. StockStays(cellsTyped)'
  BY <1>1 DEF FormInv, StockStays
<1>4. SaveFine'
  BY <1>1 DEF FormInv, SaveFine, SaveAsLoaded, StockStays
<1> QED BY <1>1, <1>2, <1>3, <1>4 DEF FormInv, FormKeepsProduct

LEMMA FormLists == FormInv /\ (EditLists \/ EditProduct) => FormInv'
<1> SUFFICES ASSUME FormInv, EditLists \/ EditProduct PROVE FormInv'
  OBVIOUS
<1>1. PICK f \in FormRecord : /\ Typing(f) /\ f.open = editor.open /\ f.text = editor.text
                              /\ f.skus = editor.skus /\ f.stock = editor.stock /\ f.prices = editor.prices
  <2>1. ASSUME NEW sizes \in SUBSET Sizes, Typing([editor EXCEPT !.sizes = sizes])
        PROVE  \E f \in FormRecord : /\ Typing(f) /\ f.open = editor.open /\ f.text = editor.text
                              /\ f.skus = editor.skus /\ f.stock = editor.stock /\ f.prices = editor.prices
    <3>1. [editor EXCEPT !.sizes = sizes] \in FormRecord
      BY DEF FormInv, FormTyped, FormRecord
    <3> QED BY <2>1, <3>1 DEF FormInv, FormTyped, FormRecord
  <2>2. ASSUME NEW colours \in SUBSET Colours, Typing([editor EXCEPT !.colours = colours])
        PROVE  \E f \in FormRecord : /\ Typing(f) /\ f.open = editor.open /\ f.text = editor.text
                              /\ f.skus = editor.skus /\ f.stock = editor.stock /\ f.prices = editor.prices
    <3>1. [editor EXCEPT !.colours = colours] \in FormRecord
      BY DEF FormInv, FormTyped, FormRecord
    <3> QED BY <2>2, <3>1 DEF FormInv, FormTyped, FormRecord
  <2>3. ASSUME NEW b \in SkuBases, Typing([editor EXCEPT !.base = b])
        PROVE  \E f \in FormRecord : /\ Typing(f) /\ f.open = editor.open /\ f.text = editor.text
                              /\ f.skus = editor.skus /\ f.stock = editor.stock /\ f.prices = editor.prices
    <3>1. [editor EXCEPT !.base = b] \in FormRecord
      BY DEF FormInv, FormTyped, FormRecord
    <3> QED BY <2>3, <3>1 DEF FormInv, FormTyped, FormRecord
  <2>4. ASSUME NEW p \in Amounts \cup {0}, Typing([editor EXCEPT !.price = p])
        PROVE  \E f \in FormRecord : /\ Typing(f) /\ f.open = editor.open /\ f.text = editor.text
                              /\ f.skus = editor.skus /\ f.stock = editor.stock /\ f.prices = editor.prices
    <3>1. [editor EXCEPT !.price = p] \in FormRecord
      BY DEF FormInv, FormTyped, FormRecord
    <3> QED BY <2>4, <3>1 DEF FormInv, FormTyped, FormRecord
  <2> QED BY <2>1, <2>2, <2>3, <2>4 DEF EditLists, EditProduct
<1>2. UNCHANGED <<cellsTyped, textTyped>>
  BY DEF EditLists, EditProduct
<1>3. editor' = f /\ editor.open /\ loaded' = loaded
  BY <1>1 DEF Typing
<1>4. FormAsLoaded'
  BY <1>1, <1>2, <1>3 DEF FormInv, FormAsLoaded, SkuAsLoaded, StockAsLoaded, PriceAsLoaded
<1> QED BY <1>1, <1>2, <1>3, <1>4, FormTyping DEF FormInv, FormKeepsProduct, FormTyped

LEMMA FormWrites == FormInv /\ EditText => FormInv'
<1> SUFFICES ASSUME FormInv, EditText PROVE FormInv'
  OBVIOUS
<1>1. PICK t \in {"", "typed"} :
         Typing([editor EXCEPT !.text = t]) /\ textTyped' = (t = "typed") /\ UNCHANGED cellsTyped
  BY DEF EditText
<1> DEFINE f == [editor EXCEPT !.text = t]
<1>2. f \in FormRecord /\ f.text = t /\ f.open = editor.open
      /\ f.skus = editor.skus /\ f.stock = editor.stock /\ f.prices = editor.prices
  BY DEF FormInv, FormTyped, FormRecord, Texts
<1>3. editor' = f /\ editor.open /\ loaded' = loaded
  BY <1>1 DEF Typing
<1>4. FormAsLoaded'
  <2> HIDE DEF f
  <2> QED BY <1>1, <1>2, <1>3 DEF FormInv, FormAsLoaded, SkuAsLoaded, StockAsLoaded, PriceAsLoaded
<1>5. textTyped' => f.text = "typed"
  BY <1>1, <1>2
<1> QED BY <1>1, <1>2, <1>3, <1>4, <1>5, FormTyping DEF FormInv, FormTyped

(* One cell: its column is typed, and the others are as they were.          *)
LEMMA FormRows == ASSUME FormInv, NEW c \in Combinations, EditRow(c) PROVE FormInv'
<1> USE DEF FormRecord
<1>0. editor \in FormRecord
  BY DEF FormInv, FormTyped
<1>1. PICK column \in {"sku", "stock", "price"} :
          /\ cellsTyped' = cellsTyped \cup {<<column, c>>}
          /\ \/ column = "sku"
                /\ \E s \in TypedSkus :
                      Typing([editor EXCEPT !.skus = Filled(@, c, SkuOf(s, Unlabelled))])
             \/ column = "sku" /\ Typing([editor EXCEPT !.skus = Restrict(@, DOMAIN @ \ {c})])
             \/ column = "stock" /\ \E n \in Counts : Typing([editor EXCEPT !.stock = Filled(@, c, n)])
             \/ column = "price" /\ \E p \in Amounts : Typing([editor EXCEPT !.prices = Filled(@, c, p)])
             \/ column = "price" /\ Typing([editor EXCEPT !.prices = Restrict(@, DOMAIN @ \ {c})])
  BY DEF EditRow
<1>2. cellsTyped' \subseteq {"sku", "stock", "price"} \X Combinations /\ cellsTyped \subseteq cellsTyped'
  BY <1>1 DEF FormInv, FormTyped
<1>3. textTyped' = textTyped
  BY DEF EditRow
<1>4. ASSUME NEW f \in FormRecord, Typing(f), f.open = editor.open, f.text = editor.text,
             \/ /\ column = "sku" /\ f.stock = editor.stock /\ f.prices = editor.prices
                /\ \A d \in DOMAIN editor.skus : d # c => d \in DOMAIN f.skus /\ f.skus[d] = editor.skus[d]
             \/ /\ column = "stock" /\ f.skus = editor.skus /\ f.prices = editor.prices
                /\ \A d \in DOMAIN editor.stock : d # c => d \in DOMAIN f.stock /\ f.stock[d] = editor.stock[d]
             \/ /\ column = "price" /\ f.skus = editor.skus /\ f.stock = editor.stock
                /\ \A d : d # c => (d \in DOMAIN f.prices <=> d \in DOMAIN editor.prices)
                /\ \A d \in DOMAIN editor.prices : d # c => f.prices[d] = editor.prices[d]
      PROVE  FormInv'
  <2>1. editor' = f /\ editor.open /\ loaded' = loaded
    BY <1>4 DEF Typing
  <2>2. \A d \in DOMAIN loaded.rows :
           /\ <<"sku", d>> \notin cellsTyped => SkuAsLoaded(d)
           /\ <<"stock", d>> \notin cellsTyped => StockAsLoaded(d)
           /\ <<"price", d>> \notin cellsTyped => PriceAsLoaded(d)
    BY <2>1 DEF FormInv, FormAsLoaded
  <2>3. ASSUME NEW d \in DOMAIN loaded.rows
        PROVE  /\ <<"sku", d>> \notin cellsTyped' => SkuAsLoaded(d)'
               /\ <<"stock", d>> \notin cellsTyped' => StockAsLoaded(d)'
               /\ <<"price", d>> \notin cellsTyped' => PriceAsLoaded(d)'
    <3>1. CASE column = "sku"
      BY <1>1, <1>4, <2>1, <2>2, <3>1 DEF SkuAsLoaded, StockAsLoaded, PriceAsLoaded
    <3>2. CASE column = "stock"
      BY <1>1, <1>4, <2>1, <2>2, <3>2 DEF SkuAsLoaded, StockAsLoaded, PriceAsLoaded
    <3>3. CASE column = "price"
      BY <1>1, <1>4, <2>1, <2>2, <3>3 DEF SkuAsLoaded, StockAsLoaded, PriceAsLoaded
    <3> QED BY <3>1, <3>2, <3>3
  <2>4. FormAsLoaded'
    BY <2>1, <2>3 DEF FormAsLoaded
  <2> QED BY <1>2, <1>3, <1>4, <2>1, <2>4, FormTyping DEF FormInv, FormKeepsProduct
<1>5. CASE column = "sku" /\ \E s \in TypedSkus : Typing([editor EXCEPT !.skus = Filled(@, c, SkuOf(s, Unlabelled))])
  <2>1. PICK s \in TypedSkus : Typing([editor EXCEPT !.skus = Filled(@, c, SkuOf(s, Unlabelled))])
    BY <1>5
  <2>2. PICK v \in RowSkus : v = SkuOf(s, Unlabelled)
    BY DEF SkuOf, RowSkus
  <2>3. Typing([editor EXCEPT !.skus = Filled(@, c, v)])
    BY <2>1, <2>2
  <2>4. PICK g \in Partial(Combinations, RowSkus) : g = editor.skus
    BY <1>0
  <2>5. /\ Filled(g, c, v) \in Partial(Combinations, RowSkus)
        /\ DOMAIN Filled(g, c, v) = DOMAIN g \cup {c}
        /\ \A d \in DOMAIN g : d # c => Filled(g, c, v)[d] = g[d]
    BY PartialPut
  <2> QED BY <1>0, <1>4, <1>5, <2>3, <2>4, <2>5
<1>6. CASE column = "sku" /\ Typing([editor EXCEPT !.skus = Restrict(@, DOMAIN @ \ {c})])
  <2>1. /\ Restrict(editor.skus, DOMAIN editor.skus \ {c}) \in Partial(Combinations, RowSkus)
        /\ DOMAIN Restrict(editor.skus, DOMAIN editor.skus \ {c}) = DOMAIN editor.skus \ {c}
        /\ \A d \in DOMAIN editor.skus \ {c} : Restrict(editor.skus, DOMAIN editor.skus \ {c})[d] = editor.skus[d]
    BY <1>0, PartialCut
  <2> QED BY <1>0, <1>4, <1>6, <2>1
<1>7. CASE column = "stock" /\ \E n \in Counts : Typing([editor EXCEPT !.stock = Filled(@, c, n)])
  <2>1. PICK n \in Counts : Typing([editor EXCEPT !.stock = Filled(@, c, n)])
    BY <1>7
  <2> DEFINE N == Nat
  <2>2. n \in N
    BY FormAssumption DEF FormAssumption
  <2>3. PICK g \in Partial(Combinations, N) : g = editor.stock
    BY <1>0
  <2> HIDE DEF N
  <2>4. /\ Filled(g, c, n) \in Partial(Combinations, N)
        /\ DOMAIN Filled(g, c, n) = DOMAIN g \cup {c}
        /\ \A d \in DOMAIN g : d # c => Filled(g, c, n)[d] = g[d]
    BY <2>2, PartialPut
  <2> QED BY <1>0, <1>4, <1>7, <2>1, <2>3, <2>4 DEF N
<1>8. CASE column = "price" /\ \E p \in Amounts : Typing([editor EXCEPT !.prices = Filled(@, c, p)])
  <2>1. PICK p \in Amounts : Typing([editor EXCEPT !.prices = Filled(@, c, p)])
    BY <1>8
  <2>3. /\ Filled(editor.prices, c, p) \in Partial(Combinations, Amounts)
        /\ DOMAIN Filled(editor.prices, c, p) = DOMAIN editor.prices \cup {c}
        /\ \A d \in DOMAIN editor.prices : d # c => Filled(editor.prices, c, p)[d] = editor.prices[d]
    BY <1>0, PartialPut
  <2> QED BY <1>0, <1>4, <1>8, <2>1, <2>3
<1>9. CASE column = "price" /\ Typing([editor EXCEPT !.prices = Restrict(@, DOMAIN @ \ {c})])
  <2>1. /\ Restrict(editor.prices, DOMAIN editor.prices \ {c}) \in Partial(Combinations, Amounts)
        /\ DOMAIN Restrict(editor.prices, DOMAIN editor.prices \ {c}) = DOMAIN editor.prices \ {c}
        /\ \A d \in DOMAIN editor.prices \ {c} : Restrict(editor.prices, DOMAIN editor.prices \ {c})[d] = editor.prices[d]
    BY <1>0, PartialCut
  <2> QED BY <1>0, <1>4, <1>9, <2>1
<1> QED BY <1>1, <1>5, <1>6, <1>7, <1>8, <1>9

LEMMA FormAsks == FormInv /\ runAiSuggest => FormInv'
<1> SUFFICES ASSUME FormInv, runAiSuggest PROVE FormInv'
  OBVIOUS
<1>1. asked' = editor.text
      /\ UNCHANGED <<saved, editor, loaded, request, cellsTyped, moved, textTyped, asMeant>>
  BY DEF runAiSuggest
<1>2. FormTyped'
  BY <1>1 DEF FormInv, FormTyped, InTable, FormRecord
<1>3. FormAsLoaded' /\ StockStays(cellsTyped)' = StockStays(cellsTyped)
  BY <1>1 DEF FormInv, FormAsLoaded, SkuAsLoaded, StockAsLoaded, PriceAsLoaded, StockStays
<1>4. SaveFine'
  BY <1>1 DEF FormInv, SaveFine, SaveAsLoaded, StockStays
<1> QED BY <1>1, <1>2, <1>3, <1>4 DEF FormInv, FormKeepsProduct

(* A suggestion: a text that was typed is not blank.                        *)
LEMMA FormSuggested == FormInv /\ Suggested => FormInv'
<1> SUFFICES ASSUME FormInv, Suggested PROVE FormInv'
  OBVIOUS
<1>1. /\ editor' \in FormRecord /\ editor'.open /\ editor.open
      /\ editor'.skus = editor.skus /\ editor'.stock = editor.stock /\ editor'.prices = editor.prices
      /\ editor.text # "" => editor'.text = editor.text
  BY DEF Suggested, Blank, FormInv, FormTyped, FormRecord, Texts
<1>2. asked' = NoneAsked /\ UNCHANGED <<saved, loaded, request, cellsTyped, moved, textTyped, asMeant>>
  BY DEF Suggested
<1>3. FormTyped'
  BY <1>1, <1>2 DEF FormInv, FormTyped, InTable
<1>4. FormAsLoaded' /\ StockStays(cellsTyped)'
  BY <1>1, <1>2 DEF FormInv, FormAsLoaded, SkuAsLoaded, StockAsLoaded, PriceAsLoaded, StockStays
<1>5. SaveFine'
  BY <1>1, <1>2 DEF FormInv, SaveFine, SaveAsLoaded, StockStays
<1> QED BY <1>1, <1>2, <1>3, <1>4, <1>5 DEF FormInv, FormKeepsProduct

(* What is sent: every cell that was not typed as it was loaded.            *)
LEMMA FormSubmits == FormInv /\ submit => FormInv'
<1> SUFFICES ASSUME FormInv, submit PROVE FormInv'
  OBVIOUS
<1> DEFINE table == Matrix(editor.sizes, editor.colours)
<1> DEFINE cells == [c \in table |-> [sku |-> CellSku(c), stock |-> CellStock(c), price |-> CellPrice(c),
                                       unsent |-> FALSE]]
<1>1. /\ editor.open
      /\ request' = [sent |-> TRUE, base |-> editor.base, price |-> editor.price, text |-> editor.text,
                     sizes |-> editor.sizes, colours |-> editor.colours, rows |-> cells, touched |-> cellsTyped]
      /\ UNCHANGED <<saved, editor, loaded, asked, cellsTyped, moved, textTyped, asMeant>>
  BY DEF submit
<1>2. editor \in FormRecord
  BY DEF FormInv, FormTyped
<1>3. /\ IsPartial(editor.skus, Combinations, RowSkus) /\ IsPartial(editor.stock, Combinations, Nat)
      /\ IsPartial(editor.prices, Combinations, Amounts)
  BY <1>2, PartialIs DEF FormRecord
<1>4. \A c \in table : c \in Combinations /\ cells[c] \in TableRow
  <2> SUFFICES ASSUME NEW c \in table PROVE c \in Combinations /\ cells[c] \in TableRow
    OBVIOUS
  <2>1. c \in Combinations
    BY <1>2, TableOf DEF FormRecord
  <2>2. CellSku(c) \in RowSkus
    BY <1>2, <1>3, <2>1 DEF CellSku, IsPartial, SkuOf, RowSkus, FormRecord
  <2>3. CellStock(c) \in Nat
    BY <1>3 DEF CellStock, IsPartial, DefaultStock
  <2>4. CellPrice(c) \in Amounts \cup {0}
    BY <1>2, <1>3 DEF CellPrice, IsPartial, FormRecord
  <2> QED BY <2>1, <2>2, <2>3, <2>4 DEF TableRow
<1>5. IsPartial(cells, Combinations, TableRow)
  BY <1>4 DEF IsPartial
<1>6. cells \in Partial(Combinations, TableRow) /\ DOMAIN cells = table
  BY <1>5, PartialIs
<1>7. \A c \in DOMAIN cells :
         /\ cells[c].sku = CellSku(c) /\ cells[c].stock = CellStock(c) /\ cells[c].price = CellPrice(c)
         /\ ~cells[c].unsent
  OBVIOUS
<1> HIDE DEF cells
<1>8. request'.rows = cells /\ request'.touched = cellsTyped /\ request'.price = editor.price
      /\ request'.sizes = editor.sizes /\ request'.colours = editor.colours
  BY <1>1
<1>9. request' \in SaveRecord /\ InTable(request')
  <2>1. cellsTyped \in SUBSET ({"sku", "stock", "price"} \X Combinations)
    BY DEF FormInv, FormTyped
  <2>2. request' \in SaveRecord
    BY <1>1, <1>2, <1>6, <2>1 DEF SaveRecord, FormRecord
  <2> QED BY <1>6, <1>8, <2>2 DEF InTable
<1>10. FormTyped'
  BY <1>1, <1>9 DEF FormInv, FormTyped, InTable
<1>11. SaveAsLoaded'
  <2> SUFFICES ASSUME NEW c \in DOMAIN loaded.rows \cap DOMAIN cells
               PROVE  /\ <<"sku", c>> \notin cellsTyped => cells[c].sku = loaded.rows[c].sku
                      /\ <<"stock", c>> \notin cellsTyped => cells[c].stock = loaded.rows[c].stock
                      /\ <<"price", c>> \notin cellsTyped =>
                            cells[c].price = IF loaded.rows[c].price \in {0, loaded.price} THEN editor.price
                                             ELSE loaded.rows[c].price
                      /\ ~cells[c].unsent
    BY <1>1, <1>8 DEF SaveAsLoaded
  <2>1. /\ <<"sku", c>> \notin cellsTyped => SkuAsLoaded(c)
        /\ <<"stock", c>> \notin cellsTyped => StockAsLoaded(c)
        /\ <<"price", c>> \notin cellsTyped => PriceAsLoaded(c)
    BY <1>1 DEF FormInv, FormAsLoaded
  <2> QED BY <1>7, <2>1 DEF SkuAsLoaded, StockAsLoaded, PriceAsLoaded, CellSku, CellStock, CellPrice
<1>12. StockStays(cellsTyped)'
  BY <1>1, <1>8 DEF FormInv, StockStays
<1>13. SaveFine'
  <2>1. StockStays(request.touched)'
    BY <1>1, <1>8 DEF FormInv, StockStays
  <2> QED BY <1>1, <1>8, <1>11, <2>1 DEF SaveFine
<1>14. FormAsLoaded'
  BY <1>1 DEF FormInv, FormAsLoaded, SkuAsLoaded, StockAsLoaded, PriceAsLoaded
<1> QED BY <1>1, <1>10, <1>12, <1>13, <1>14 DEF FormInv, FormKeepsProduct

(* What a save leaves, whole or up to a SKU that is there.                  *)
LEMMA FormWritten ==
    ASSUME FormInv, request.sent, NEW w, w \in Partial(Combinations, TableRow),
           DOMAIN w \subseteq DOMAIN request.rows
    PROVE  /\ ProductAfter(w) \in ProductRecord /\ ProductAfter(w).there /\ InTable(ProductAfter(w))
           /\ ProductAfter(w).rows = w /\ ProductAfter(w).price = request.price
<1>1. request \in SaveRecord /\ InTable(request) /\ saved \in ProductRecord
  BY DEF FormInv, FormTyped, NoneInFlight
<1>2. ProductAfter(w) \in ProductRecord
  BY <1>1 DEF ProductAfter, SaveRecord, ProductRecord
<1>3. InTable(ProductAfter(w))
  BY <1>1 DEF ProductAfter, InTable
<1> QED BY <1>2, <1>3 DEF ProductAfter

LEMMA FormSaved == FormInv /\ SaveDone => FormInv'
<1> SUFFICES ASSUME FormInv, SaveDone PROVE FormInv'
  OBVIOUS
<1>1. /\ request.sent /\ request # NoneInFlight /\ editor.open /\ request \in SaveRecord
      /\ request.touched \subseteq cellsTyped
      /\ SaveAsLoaded /\ StockStays(request.touched)
  BY DEF SaveDone, NoneInFlight, FormInv, FormTyped, SaveFine
<1>2. request.rows \in Partial(Combinations, TableRow)
  BY <1>1 DEF SaveRecord
<1>3. saved' = ProductAfter(request.rows) /\ request' = NoneInFlight
  BY DEF SaveDone
<1>4. saved' \in ProductRecord /\ saved'.there /\ InTable(saved') /\ saved'.rows = request.rows
  BY <1>1, <1>2, <1>3, FormWritten
<1>5. asMeant'
  <2>1. Meant(request.rows)
    <3> SUFFICES ASSUME NEW c \in DOMAIN request.rows \cap DOMAIN loaded.rows
                 PROVE  /\ <<"sku", c>> \notin request.touched => request.rows[c].sku = loaded.rows[c].sku
                        /\ <<"stock", c>> \notin request.touched /\ c \in DOMAIN saved.rows \ moved =>
                              request.rows[c].stock = saved.rows[c].stock
                        /\ <<"price", c>> \notin request.touched =>
                              request.rows[c].price = IF loaded.rows[c].price \in {0, loaded.price} THEN request.price
                                                      ELSE loaded.rows[c].price
                        /\ ~request.rows[c].unsent
      BY DEF Meant
    <3> QED BY <1>1 DEF SaveAsLoaded, StockStays
  <2> QED BY <2>1 DEF SaveDone, FormInv, FormKeepsProduct
<1>6. CASE loaded.there
  <2>1. UNCHANGED <<editor, loaded, asked, cellsTyped, moved, textTyped>>
    BY <1>6 DEF SaveDone
  <2>2. FormTyped'
    BY <1>3, <1>4, <2>1 DEF FormInv, FormTyped
  <2>3. FormAsLoaded'
    BY <2>1 DEF FormInv, FormAsLoaded, SkuAsLoaded, StockAsLoaded, PriceAsLoaded
  <2>4. StockStays(cellsTyped)'
    BY <1>1, <1>4, <2>1 DEF StockStays, SaveAsLoaded
  <2> QED BY <1>3, <1>5, <2>1, <2>2, <2>3, <2>4 DEF FormInv, SaveFine, FormKeepsProduct
<1>7. CASE ~loaded.there
  <2>1. editor' = toForm(saved') /\ loaded' = saved' /\ asked' = NoneAsked
        /\ cellsTyped' = {} /\ moved' = {} /\ ~textTyped'
    BY <1>7 DEF SaveDone
  <2>2. /\ editor' \in FormRecord
        /\ \A c \in DOMAIN saved'.rows :
              /\ c \in DOMAIN editor'.skus /\ editor'.skus[c] = saved'.rows[c].sku
              /\ c \in DOMAIN editor'.stock /\ editor'.stock[c] = saved'.rows[c].stock
              /\ IF saved'.rows[c].price \in {0, saved'.price} THEN c \notin DOMAIN editor'.prices
                 ELSE c \in DOMAIN editor'.prices /\ editor'.prices[c] = saved'.rows[c].price
    BY <1>4, <2>1, FormAssumption, LoadedForm
  <2>3. FormTyped'
    BY <1>3, <1>4, <2>1, <2>2 DEF FormInv, FormTyped
  <2>4. FormAsLoaded' /\ StockStays(cellsTyped)'
    BY <2>1, <2>2 DEF FormAsLoaded, SkuAsLoaded, StockAsLoaded, PriceAsLoaded, StockStays
  <2> QED BY <1>3, <1>5, <2>1, <2>3, <2>4 DEF FormInv, SaveFine, FormKeepsProduct
<1> QED BY <1>6, <1>7

LEMMA FormRefused == FormInv /\ SaveRefused => FormInv'
<1> SUFFICES ASSUME FormInv, SaveRefused PROVE FormInv'
  OBVIOUS
<1>1. /\ request.sent /\ request # NoneInFlight /\ editor.open /\ request \in SaveRecord
      /\ request.touched \subseteq cellsTyped
      /\ SaveAsLoaded /\ StockStays(request.touched)
  BY DEF SaveRefused, NoneInFlight, FormInv, FormTyped, SaveFine
<1>2. request' = NoneInFlight /\ UNCHANGED <<editor, loaded, asked, cellsTyped, moved, textTyped, asMeant>>
  BY DEF SaveRefused
<1>3. PICK done \in SUBSET DOMAIN request.rows :
         saved' = IF loaded.there THEN ProductAfter(Restrict(request.rows, done)) ELSE saved
  BY DEF SaveRefused
<1>4. /\ Restrict(request.rows, done) \in Partial(Combinations, TableRow)
      /\ DOMAIN Restrict(request.rows, done) = done
      /\ \A d \in done : Restrict(request.rows, done)[d] = request.rows[d]
  <2>1. request.rows \in Partial(Combinations, TableRow)
    BY <1>1 DEF SaveRecord
  <2> QED BY <2>1, PartialCut
<1>5. CASE loaded.there
  <2>1. saved' \in ProductRecord /\ saved'.there /\ InTable(saved') /\ saved'.rows = Restrict(request.rows, done)
    BY <1>1, <1>3, <1>4, <1>5, FormWritten
  <2>2. FormTyped'
    BY <1>2, <2>1 DEF FormInv, FormTyped
  <2>3. StockStays(cellsTyped)'
    BY <1>1, <1>2, <1>4, <2>1 DEF StockStays, SaveAsLoaded
  <2>4. FormAsLoaded'
    BY <1>2 DEF FormInv, FormAsLoaded, SkuAsLoaded, StockAsLoaded, PriceAsLoaded
  <2> QED BY <1>2, <2>2, <2>3, <2>4 DEF FormInv, SaveFine, FormKeepsProduct
<1>6. CASE ~loaded.there
  <2>1. saved' = saved
    BY <1>3, <1>6
  <2>2. FormTyped' /\ StockStays(cellsTyped)'
    BY <1>1, <1>2, <2>1 DEF FormInv, FormTyped, InTable, StockStays
  <2>3. FormAsLoaded'
    BY <1>2 DEF FormInv, FormAsLoaded, SkuAsLoaded, StockAsLoaded, PriceAsLoaded
  <2> QED BY <1>2, <2>2, <2>3 DEF FormInv, SaveFine, FormKeepsProduct
<1> QED BY <1>5, <1>6

LEMMA FormLost == FormInv /\ SaveLost => FormInv'
<1> SUFFICES ASSUME FormInv, SaveLost PROVE FormInv'
  OBVIOUS
<1>1. request' = NoneInFlight
      /\ UNCHANGED <<saved, editor, loaded, asked, cellsTyped, moved, textTyped, asMeant>>
  BY DEF SaveLost
<1>2. FormTyped'
  BY <1>1 DEF FormInv, FormTyped, InTable
<1>3. FormAsLoaded' /\ (editor.open => StockStays(cellsTyped)')
  BY <1>1 DEF FormInv, FormAsLoaded, SkuAsLoaded, StockAsLoaded, PriceAsLoaded, StockStays
<1> QED BY <1>1, <1>2, <1>3 DEF FormInv, SaveFine, FormKeepsProduct

(* A sale changes a stock that is marked, a bulk price the product only.    *)
LEMMA FormMeanwhile ==
    ASSUME FormInv, saved' \in ProductRecord, InTable(saved'), ~saved'.there => DOMAIN saved'.rows = {},
           UNCHANGED <<editor, loaded, request, asked, cellsTyped, textTyped, asMeant>>,
           moved \subseteq moved', DOMAIN saved'.rows = DOMAIN saved.rows,
           \A c \in DOMAIN saved.rows : c \notin moved' => saved'.rows[c].stock = saved.rows[c].stock
    PROVE  FormInv'
<1>1. FormTyped'
  BY DEF FormInv, FormTyped, InTable
<1>2. FormAsLoaded'
  BY DEF FormInv, FormAsLoaded, SkuAsLoaded, StockAsLoaded, PriceAsLoaded
<1>3. editor.open => StockStays(cellsTyped)'
  BY DEF FormInv, StockStays
<1>4. SaveFine'
  BY DEF FormInv, SaveFine, SaveAsLoaded, StockStays
<1> QED BY <1>1, <1>2, <1>3, <1>4 DEF FormInv, FormKeepsProduct

LEMMA FormSells == ASSUME FormInv, NEW c \in Combinations, SellUnit(c) PROVE FormInv'
<1>1. /\ c \in DOMAIN saved.rows /\ saved.rows[c].stock > 0
      /\ saved' = [saved EXCEPT !.rows[c].stock = @ - 1] /\ moved' = moved \cup {c}
      /\ UNCHANGED <<editor, loaded, request, asked, cellsTyped, textTyped, asMeant>>
  BY DEF SellUnit
<1>2. saved \in ProductRecord /\ InTable(saved) /\ (~saved.there => DOMAIN saved.rows = {})
  BY DEF FormInv, FormTyped
<1>3. IsPartial(saved.rows, Combinations, TableRow)
  BY <1>2, PartialIs DEF ProductRecord
<1> DEFINE sold == [saved.rows EXCEPT ![c].stock = @ - 1]
<1>4. saved' = [saved EXCEPT !.rows = sold]
  BY <1>1, <1>2 DEF ProductRecord
<1>5. IsPartial(sold, Combinations, TableRow) /\ DOMAIN sold = DOMAIN saved.rows
      /\ \A d \in DOMAIN saved.rows : d # c => sold[d] = saved.rows[d]
  BY <1>1, <1>3 DEF IsPartial, TableRow
<1>6. sold \in Partial(Combinations, TableRow)
  BY <1>5, PartialIs
<1> HIDE DEF sold
<1>7. saved' \in ProductRecord /\ saved'.rows = sold /\ InTable(saved') /\ saved'.there = saved.there
  BY <1>2, <1>4, <1>5, <1>6 DEF ProductRecord, InTable
<1> QED BY <1>1, <1>2, <1>5, <1>7, FormMeanwhile

LEMMA FormRepriced == ASSUME FormInv, NEW p \in Amounts, SetBulkPrice(p) PROVE FormInv'
<1>1. saved' = [saved EXCEPT !.price = p]
      /\ UNCHANGED <<editor, loaded, request, asked, cellsTyped, moved, textTyped, asMeant>>
  BY DEF SetBulkPrice
<1>2. saved \in ProductRecord /\ InTable(saved) /\ (~saved.there => DOMAIN saved.rows = {})
  BY DEF FormInv, FormTyped
<1>3. saved' \in ProductRecord /\ saved'.rows = saved.rows /\ InTable(saved') /\ saved'.there = saved.there
  BY <1>1, <1>2 DEF ProductRecord, InTable
<1> QED BY <1>1, <1>2, <1>3, FormMeanwhile

LEMMA FormSteps == FormAssumption /\ FormInv /\ [FormNext]_formVars => FormInv'
<1> SUFFICES ASSUME FormAssumption, FormInv, [FormNext]_formVars PROVE FormInv'
  OBVIOUS
<1>1. CASE UNCHANGED formVars
  <2>1. UNCHANGED <<saved, editor, loaded, request, asked, cellsTyped, moved, textTyped, asMeant>>
    BY <1>1 DEF formVars
  <2> QED BY <2>1, FormMeanwhile DEF FormInv, FormTyped
<1>2. CASE FormNext
  BY <1>2, FormOpens, FormLeaves, FormLists, FormWrites, FormRows, FormSells, FormAsks, FormSuggested,
     FormSubmits, FormSaved, FormRefused, FormLost, FormRepriced DEF FormNext
<1> QED BY <1>1, <1>2

(* The product, the form and what is in flight keep their types.            *)
THEOREM FormTypes == FormSpec => []FormTypeOK
<1>1. FormInv => FormTypeOK
  <2> SUFFICES ASSUME FormInv PROVE FormTypeOK
    OBVIOUS
  <2>1. /\ saved \in ProductRecord /\ InTable(saved) /\ editor \in FormRecord /\ asked \in Texts \cup {NoneAsked}
        /\ request # NoneInFlight => request \in SaveRecord
    BY DEF FormInv, FormTyped
  <2>2. IsPartial(saved.rows, Combinations, TableRow)
    BY <2>1, PartialIs DEF ProductRecord
  <2>3. /\ IsPartial(editor.skus, Combinations, RowSkus) /\ IsPartial(editor.stock, Combinations, Nat)
        /\ IsPartial(editor.prices, Combinations, Amounts)
    BY <2>1, PartialIs DEF FormRecord
  <2>4. request.sent => DOMAIN request.rows \subseteq Combinations
    <3> SUFFICES ASSUME request.sent PROVE DOMAIN request.rows \subseteq Combinations
      OBVIOUS
    <3>1. request.rows \in Partial(Combinations, TableRow)
      <4>1. request # NoneInFlight
        BY DEF NoneInFlight
      <4> QED BY <2>1, <4>1 DEF SaveRecord
    <3>2. IsPartial(request.rows, Combinations, TableRow)
      BY <3>1, PartialIs
    <3> QED BY <3>2 DEF IsPartial
  <2>5. saved.there \in BOOLEAN /\ saved.price \in Amounts \cup {0} /\ saved.text \in Texts
        /\ editor.sizes \subseteq Sizes /\ editor.colours \subseteq Colours /\ editor.text \in Texts
    BY <2>1 DEF ProductRecord, FormRecord
  <2>6. DOMAIN saved.rows \subseteq Matrix(saved.sizes, saved.colours)
        /\ \A c \in DOMAIN saved.rows : saved.rows[c] \in TableRow
    BY <2>1, <2>2 DEF InTable, IsPartial
  <2>7. DOMAIN editor.skus \cup DOMAIN editor.stock \cup DOMAIN editor.prices \subseteq Combinations
    BY <2>3 DEF IsPartial
  <2> QED BY <2>1, <2>4, <2>5, <2>6, <2>7 DEF FormTypeOK
<1> QED BY <1>1, FormAssumption, FormStarts, FormSteps, PTL DEF FormSpec

(* What the form of a product shows and the editor did not type is as it was *)
(* when the page was opened, after any number of saves, sales, bulk prices,  *)
(* changes of the lists and suggestions; what it does not show is reset.     *)
THEOREM FormHolds == FormSpec => []FormKeepsProduct
<1>1. FormInv => FormKeepsProduct
  BY DEF FormInv
<1> QED BY <1>1, FormAssumption, FormStarts, FormSteps, PTL DEF FormSpec

-----------------------------------------------------------------------------
(* The scenes behind the shop.  A behaviour of BackSpec is one of each       *)
(* component: the scenes that do not run rest.                              *)
LEMMA BackRuns ==
    BackSpec => /\ Spec /\ ClientSpec /\ ProductSpec /\ MediaSpec /\ SeedSpec /\ FormSpec
                /\ AccessSpec /\ DeskSpec
<1>1. BackInit => /\ Init /\ ClientInit /\ ProductInit /\ MediaInit /\ SeedInit /\ FormInit
                  /\ AccessInit /\ DeskInit
  BY DEF BackInit
<1>2. Shipping => /\ [Next]_vars /\ [ClientNext]_clientVars
                  /\ UNCHANGED <<prodVars, mediaVars, seedVars, formVars>>
  BY DEF Shipping, catalogueSide
<1>3. Catalogue => /\ [ProductNext]_prodVars /\ [MediaNext]_mediaVars /\ [SeedNext]_seedVars
                   /\ [FormNext]_formVars /\ UNCHANGED <<vars, clientVars>>
  BY DEF Catalogue, shippingSide
<1>4. BackNext => /\ [Next]_vars /\ [ClientNext]_clientVars /\ [ProductNext]_prodVars
                  /\ [MediaNext]_mediaVars /\ [SeedNext]_seedVars /\ [FormNext]_formVars
  BY <1>2, <1>3 DEF BackNext, shippingSide, catalogueSide
<1>5. BackNext => [AccessNext]_accessVars /\ [DeskNext]_deskVars
  BY DEF BackNext, staffSide
<1>6. UNCHANGED <<shippingSide, catalogueSide, staffSide, scene>>
      => /\ UNCHANGED vars /\ UNCHANGED clientVars /\ UNCHANGED prodVars /\ UNCHANGED mediaVars
         /\ UNCHANGED seedVars /\ UNCHANGED formVars /\ UNCHANGED accessVars /\ UNCHANGED deskVars
  BY DEF shippingSide, catalogueSide, staffSide
<1> QED BY <1>1, <1>4, <1>5, <1>6, PTL
        DEF BackSpec, Spec, ClientSpec, ProductSpec, MediaSpec, SeedSpec, FormSpec, AccessSpec, DeskSpec

(* The administration writes for those who may, and its page of an order     *)
(* shows what it did, in every scene behind the shop.                       *)
THEOREM StaffSideHolds == BackSpec => []StaffSideIsTrue
<1>1. AccessIsHeld /\ DeskIsTrue => StaffSideIsTrue
  BY DEF StaffSideIsTrue
<1> QED BY <1>1, BackRuns, AccessHolds, DeskHolds, PTL

(* Shiprocket's client, products with their editor and their index, images   *)
(* and the seed are right in every scene behind the shop as they are alone.  *)
THEOREM BackHolds ==
    BackSpec => []( RequestsAreServed /\ ProductIsWhole /\ FormKeepsProduct /\ IndexFollowsProduct
                    /\ StorageFollowsProducts /\ SeedIsRepeatable )
  BY BackRuns, ClientServes, ProductHolds, FormHolds, IndexFollows, StorageHolds, SeedHolds, PTL

=============================================================================
