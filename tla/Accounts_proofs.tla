--------------------------- MODULE Accounts_proofs ---------------------------
(***************************************************************************)
(* Proofs about Accounts: whoever proves a number is signed in to the one  *)
(* account of it, a sign-in has one good refresh token at a time, and a    *)
(* one-time code is worth one sign-in and MaxAttempts guesses; for any     *)
(* number of people, calls, codes and failures, and whatever overlaps.     *)
(* Then about OtpSignIn, the page that types the codes.                    *)
(***************************************************************************)
EXTENDS Accounts, OtpSignIn, FiniteSetTheorems, WellFoundedInduction, TLAPS

-----------------------------------------------------------------------------
(* What a call knows at its stage. *)

WithNumber == {"reqFind", "reqCount", "reqWrite", "verFind", "verMiss", "verConsume", "verCleanup",
               "widget", "phoneFind", "phoneCreate", "phoneAgain"}
WithUser == {"phoneUpdate", "logUpdate", "refRevoke", "issue"}
WithToken == {"refFind", "refRevoke", "logout"}
InSession == {"refRevoke", "issue"}
Verifies == {"verMiss", "verConsume"}

Knows(a) ==
    /\ a.at \in WithNumber => a.phone \in Phones
    /\ a.at \in WithUser => a.user \in 1..users
    /\ a.at \in WithToken => a.token \in 1..tokens
    /\ a.at \in {"reqCount", "reqWrite"} =>
          a.row = 0 \/ (a.row \in 1..challenges /\ challenge[a.row].phone = a.phone)
    /\ a.at = "reqSend" => a.code \in 1..codes
    /\ a.at \in Verifies => a.row \in 1..challenges /\ a.since \in 1..codes
    /\ a.at = "verConsume" => a.code = a.since
    /\ a.at = "phoneAgain" => WithPhone(a.phone) # {}
    /\ a.line \in 0..tokens /\ (a.at \notin InSession => a.line = 0)
    /\ a.at = "refRevoke" => a.line = token[a.token].line

(* The rows that were written, and the tokens' lines. *)
RowsOK ==
    /\ \A i \in 1..challenges : challenge[i].code \in 1..codes
    /\ \A t \in 1..tokens : token[t].line \in 1..tokens
    /\ ended \subseteq 1..tokens

CallsOK == api \in [AuthCalls -> ApiCall] /\ \A c \in AuthCalls : Knows(api[c])

-----------------------------------------------------------------------------
(* A number is one account's, and was never turned away. *)
PhonesOK ==
    /\ turnedAway = FALSE
    /\ \A u, v \in 1..users : user[u].phone = user[v].phone /\ user[u].phone \in Phones => u = v

(* A sign-in that did not fork has one good token, or one call that is       *)
(* exchanging it, or neither once it has ended.                              *)
Live(line) == {t \in 1..tokens : token[t].line = line /\ ~token[t].revoked}
Exchanging(line) == {c \in AuthCalls : api[c].line = line /\ api[c].at \in InSession}
LineOK(line) ==
    /\ \A t, s \in Live(line) : t = s
    /\ \A c, d \in Exchanging(line) : c = d
    /\ line \in ended => Live(line) = {} /\ Exchanging(line) = {}
    /\ \A c \in Exchanging(line) : /\ api[c].at = "refRevoke" => ~token[api[c].token].revoked
                                   /\ api[c].at = "issue" => Live(line) = {}
LinesOK == \A line \in 1..tokens : line \notin forked => LineOK(line)

-----------------------------------------------------------------------------
(* No two rows have one code, nor does a verification of one row compare     *)
(* with the code of another; a code not written yet did nothing.             *)
CodesOK ==
    /\ \A i, j \in 1..challenges : CodeOf(i) = CodeOf(j) => i = j
    /\ \A c \in AuthCalls, i \in 1..challenges :
          api[c].at \in Verifies /\ api[c].since = CodeOf(i) => api[c].row = i
    /\ \A k \in Codes : k > codes => signIns[k] = 0 /\ misses[k] = 0

(* A challenge that no two calls read and wrote at once says what became of  *)
(* its code; the one call that verifies it read it as it is.                 *)
Verifiers(i) == {c \in AuthCalls : api[c].at \in Verifies /\ api[c].row = i}
RowOK(i) ==
    /\ misses[CodeOf(i)] = challenge[i].attempts /\ challenge[i].attempts <= MaxAttempts
    /\ signIns[CodeOf(i)] = IF challenge[i].consumed THEN 1 ELSE 0
    /\ \A c, d \in Verifiers(i) : c = d
    /\ \A c \in Verifiers(i) : /\ api[c].since = CodeOf(i) /\ ~challenge[i].consumed
                               /\ api[c].attempts = challenge[i].attempts
                               /\ challenge[i].attempts < MaxAttempts
ChallengesOK == \A i \in 1..challenges : Settled(i) => RowOK(i)

(* The row with the code written last is its number's newest. *)
LatestOK ==
    \A i, j \in 1..challenges :
        CodeOf(i) = codes /\ challenge[i].there /\ Settled(i) /\ j > i
            /\ challenge[j].phone = challenge[i].phone => ~challenge[j].there

BaseInv == AccountsTypeOK /\ CallsOK /\ RowsOK
SessionInv == PhonesOK /\ LinesOK
OtpInv == CodesOK /\ ChallengesOK /\ LatestOK

AccInv == BaseInv /\ SessionInv /\ OtpInv

-----------------------------------------------------------------------------
(* The newest of some rows. *)
LEMMA HasMax ==
    ASSUME NEW n \in Nat, NEW S \in SUBSET (1..n), S # {}
    PROVE  \E i \in S : \A j \in S : j <= i
<1> DEFINE T == {n - i : i \in S}
           R == OpToRel(<, Nat)
<1>1. T \subseteq Nat /\ T # {}
  <2>1. \A i \in S : i \in 1..n /\ n - i \in Nat
    OBVIOUS
  <2> QED BY <2>1
<1>2. \A x, y \in Nat : x < y => <<x, y>> \in R
  BY DEF OpToRel
<1>3. PICK x \in T : \A y \in T : <<y, x>> \notin R
  <2> HIDE DEF T
  <2> QED BY <1>1, NatLessThanWellFounded, WFMin
<1> HIDE DEF R
<1>4. PICK i \in S : x = n - i
  OBVIOUS
<1>5. \A j \in S : ~(n - j < x)
  BY <1>1, <1>2, <1>3
<1> QED BY <1>4, <1>5

LEMMA NewestIs ==
    ASSUME NEW n \in Nat, NEW S \in SUBSET (1..n)
    PROVE  /\ S = {} => Newest(S) = 0
           /\ S # {} => Newest(S) \in S /\ \A j \in S : j <= Newest(S)
           /\ \A i \in S : (\A j \in S : j <= i) => Newest(S) = i
<1>1. ASSUME NEW i \in S, \A j \in S : j <= i PROVE Newest(S) = i
  <2>1. Newest(S) = CHOOSE x \in S : \A y \in S : x >= y
    BY DEF Newest, Max
  <2>2. \A x \in S : (\A y \in S : x >= y) <=> x = i
    BY <1>1
  <2> QED BY <2>1, <2>2
<1>2. ASSUME S # {} PROVE Newest(S) \in S /\ \A j \in S : j <= Newest(S)
  <2>1. PICK i \in S : \A j \in S : j <= i
    BY <1>2, HasMax
  <2> QED BY <1>1, <2>1
<1> QED BY <1>1, <1>2 DEF Newest

-----------------------------------------------------------------------------
(* Calls *)

LEMMA QuietIsCall ==
    ASSUME AccountsAssumption
    PROVE  /\ Quiet \in ApiCall /\ Quiet.at = "idle" /\ Quiet.line = 0
           /\ Quiet.phone \in Phones /\ Quiet.email \in Emails
           /\ Quiet.code = 0 /\ Quiet.row = 0 /\ Quiet.attempts = 0 /\ Quiet.since = 0 /\ Quiet.user = 0
           /\ Quiet.token = 0
  BY DEF Quiet, ApiCall, Stage, Wrong, AccountsAssumption

(* A call that only moves to another stage. *)
LEMMA MovedCall ==
    ASSUME NEW a \in ApiCall, NEW stage \in Stage, NEW b, b = [a EXCEPT !.at = stage]
    PROVE  /\ b \in ApiCall /\ b.at = stage /\ b.phone = a.phone /\ b.email = a.email /\ b.code = a.code
           /\ b.row = a.row /\ b.attempts = a.attempts /\ b.since = a.since /\ b.user = a.user
           /\ b.token = a.token /\ b.line = a.line
  BY DEF ApiCall

(* Nothing that calls know is forgotten. *)
RowsStay ==
    /\ challenges \in Nat /\ challenges' \in Nat /\ challenges <= challenges'
    /\ codes \in Nat /\ codes' \in Nat /\ codes <= codes'
    /\ users \in Nat /\ users' \in Nat /\ users <= users'
    /\ tokens \in Nat /\ tokens' \in Nat /\ tokens <= tokens'
    /\ \A i \in 1..challenges : challenge'[i].phone = challenge[i].phone
    /\ \A u \in 1..users : user'[u].phone = user[u].phone
    /\ \A t \in 1..tokens : token'[t].line = token[t].line

LEMMA KnowsStays ==
    ASSUME RowsStay, NEW a, Knows(a), a \in ApiCall
    PROVE  Knows(a)'
<1>1. WithPhone(a.phone) # {} => WithPhone(a.phone)' # {}
  <2> SUFFICES ASSUME NEW u \in WithPhone(a.phone) PROVE u \in WithPhone(a.phone)'
    OBVIOUS
  <2>1. u \in 1..users /\ user[u].phone = a.phone
    BY DEF WithPhone
  <2>2. u \in 1..users' /\ user'[u].phone = a.phone
    BY <2>1 DEF RowsStay
  <2> QED BY <2>2 DEF WithPhone
<1>2. /\ 1..users \subseteq 1..users' /\ 1..tokens \subseteq 1..tokens' /\ 0..tokens \subseteq 0..tokens'
      /\ 1..challenges \subseteq 1..challenges' /\ 1..codes \subseteq 1..codes'
  BY DEF RowsStay
<1>3. a.at = "refRevoke" => a.line = token'[a.token].line
  BY DEF Knows, RowsStay, WithToken
<1>4. a.at \in {"reqCount", "reqWrite"} =>
          a.row = 0 \/ (a.row \in 1..challenges' /\ challenge'[a.row].phone = a.phone)
  BY <1>2 DEF Knows, RowsStay
<1> QED BY <1>1, <1>2, <1>3, <1>4 DEF Knows

LEMMA CallsStay ==
    ASSUME CallsOK, RowsStay, NEW c \in AuthCalls, NEW a \in ApiCall, Knows(a)',
           api' = [api EXCEPT ![c] = a]
    PROVE  CallsOK' /\ \A d \in AuthCalls : d # c => api'[d] = api[d]
<1>1. /\ api'[c] = a /\ \A d \in AuthCalls : d # c => api'[d] = api[d]
      /\ api' \in [AuthCalls -> ApiCall]
  BY DEF CallsOK
<1>2. ASSUME NEW d \in AuthCalls PROVE Knows(api[d])'
  <2>1. PICK b : b = api'[d]
    OBVIOUS
  <2>2. CASE d = c
    BY <1>1, <2>2 DEF Knows
  <2>3. CASE d # c
    <3>1. PICK e : e = api[d]
      OBVIOUS
    <3>2. Knows(e) /\ e \in ApiCall
      BY <3>1 DEF CallsOK
    <3>3. Knows(e)'
      BY <3>2, KnowsStays
    <3>4. api'[d] = e
      BY <1>1, <2>3, <3>1
    <3> QED BY <3>3, <3>4 DEF Knows
  <2> QED BY <2>2, <2>3
<1> QED BY <1>1, <1>2 DEF CallsOK

(* What stays true when only call c goes on, to a. *)
GoesTo(c, a) == api' = [api EXCEPT ![c] = a] /\ \A d \in AuthCalls : d # c => api'[d] = api[d]

LEMMA PhonesStay ==
    ASSUME PhonesOK, UNCHANGED <<turnedAway, users>>,
           \A u \in 1..users : user'[u].phone = user[u].phone
    PROVE  PhonesOK'
  BY DEF PhonesOK

LEMMA LinesStay ==
    ASSUME BaseInv, LinesOK, NEW c \in AuthCalls, NEW a, GoesTo(c, a),
           a.line = 0 \/ a.at \notin InSession,
           UNCHANGED <<tokens, forked, ended>>,
           \A t \in 1..tokens : token'[t].line = token[t].line /\ token'[t].revoked = token[t].revoked
    PROVE  LinesOK'
<1> SUFFICES ASSUME NEW line \in 1..tokens, line \notin forked PROVE LineOK(line)'
  BY DEF LinesOK
<1>1. api'[c] = a /\ api \in [AuthCalls -> ApiCall] /\ line # 0 /\ LineOK(line)
  BY DEF GoesTo, BaseInv, CallsOK, LinesOK
<1>2. Live(line)' = Live(line)
  BY DEF Live
<1>3. ASSUME NEW d \in Exchanging(line)' PROVE d \in Exchanging(line) /\ api'[d] = api[d]
  <2>1. d \in AuthCalls /\ api'[d].line = line /\ api'[d].at \in InSession
    BY DEF Exchanging
  <2>2. d # c
    BY <1>1, <2>1
  <2> QED BY <2>1, <2>2 DEF GoesTo, Exchanging
<1>4. ASSUME NEW d \in Exchanging(line)', api'[d].at = "refRevoke"
      PROVE  ~token'[api'[d].token].revoked
  <2>1. d \in AuthCalls /\ api[d].at = "refRevoke" /\ d \in Exchanging(line)
    BY <1>3, <1>4 DEF Exchanging
  <2>2. api[d].token \in 1..tokens /\ ~token[api[d].token].revoked
    BY <1>1, <2>1 DEF LineOK, BaseInv, CallsOK, Knows, WithToken
  <2> QED BY <1>3, <1>4, <2>2
<1> QED BY <1>1, <1>2, <1>3, <1>4 DEF LineOK

LEMMA OtpStays ==
    ASSUME BaseInv, OtpInv, NEW c \in AuthCalls, NEW a, GoesTo(c, a), a.at \notin Verifies,
           UNCHANGED <<challenge, challenges, codes, signIns, misses, contended>>
    PROVE  OtpInv'
<1>1. /\ api'[c] = a
      /\ \A d \in AuthCalls : api'[d].at \in Verifies => d # c /\ api'[d] = api[d]
  BY DEF GoesTo, BaseInv, CallsOK
<1>2. CodesOK'
  BY <1>1 DEF OtpInv, CodesOK, CodeOf
<1>3. ChallengesOK'
  <2> SUFFICES ASSUME NEW i \in 1..challenges, i \notin contended PROVE RowOK(i)'
    BY DEF ChallengesOK, Settled
  <2>1. RowOK(i)
    BY DEF OtpInv, ChallengesOK, Settled
  <2>2. \A d \in Verifiers(i)' : d \in Verifiers(i) /\ api'[d] = api[d]
    BY <1>1 DEF Verifiers
  <2> QED BY <2>1, <2>2 DEF RowOK, CodeOf
<1>4. LatestOK'
  BY DEF OtpInv, LatestOK, CodeOf, Settled
<1> QED BY <1>2, <1>3, <1>4 DEF OtpInv

(* The tables keep their types. *)
TablesOK ==
    /\ clock \in 0..MaxTime
    /\ challenge \in [ChallengeIds -> Challenge] /\ challenges \in 0..MaxChallenges
    /\ codes \in 0..MaxCodes /\ received \subseteq Codes
    /\ user \in [UserIds -> User] /\ users \in 0..MaxUsers
    /\ token \in [TokenIds -> Token] /\ tokens \in 0..MaxTokens
    /\ \A t \in 1..tokens : token[t].user \in 1..users
    /\ signIns \in [Codes -> Nat] /\ misses \in [Codes -> Nat] /\ turnedAway \in BOOLEAN

LEMMA TypesAre == AccountsTypeOK <=> TablesOK /\ \A c \in AuthCalls : api[c] \in ApiCall
  BY DEF AccountsTypeOK, TablesOK

LEMMA BaseStays ==
    ASSUME BaseInv, RowsStay, NEW c \in AuthCalls, NEW a \in ApiCall, Knows(a)',
           api' = [api EXCEPT ![c] = a], TablesOK', RowsOK'
    PROVE  BaseInv' /\ GoesTo(c, a)
<1>1. CallsOK' /\ \A d \in AuthCalls : d # c => api'[d] = api[d]
  BY CallsStay DEF BaseInv
<1>2. \A d \in AuthCalls : api'[d] \in ApiCall
  BY <1>1 DEF CallsOK
<1>3. AccountsTypeOK'
  BY <1>2 DEF AccountsTypeOK, TablesOK
<1> QED BY <1>1, <1>3 DEF BaseInv, GoesTo

(* A call that goes on to a and changes no table. *)
Tables == <<challenge, challenges, codes, signIns, misses, contended, user, users,
            token, tokens, forked, ended, turnedAway>>

LEMMA PlainKeeps ==
    ASSUME AccountsAssumption, AccInv, NEW c \in AuthCalls, NEW a \in ApiCall, Knows(a),
           api' = [api EXCEPT ![c] = a], a.line = 0 \/ a.at \notin InSession, a.at \notin Verifies,
           UNCHANGED Tables, clock' = clock, received' \subseteq Codes
    PROVE  AccInv'
<1>1. TablesOK /\ BaseInv /\ RowsOK
  BY TypesAre DEF AccInv, BaseInv
<1>2. RowsStay /\ TablesOK' /\ RowsOK'
  BY <1>1 DEF Tables, RowsStay, TablesOK, RowsOK, CodeOf
<1>3. Knows(a)'
  BY <1>2, KnowsStays
<1>4. BaseInv' /\ GoesTo(c, a)
  BY <1>1, <1>2, <1>3, BaseStays
<1>5. PhonesOK' /\ LinesOK'
  BY <1>1, <1>4, PhonesStay, LinesStay DEF AccInv, SessionInv, Tables
<1>6. OtpInv'
  BY <1>1, <1>4, OtpStays DEF AccInv, Tables
<1> QED BY <1>4, <1>5, <1>6 DEF AccInv, SessionInv

Still == UNCHANGED Tables /\ clock' = clock /\ received' \subseteq Codes

LEMMA AnswerKeeps ==
    ASSUME AccountsAssumption, AccInv, NEW c \in AuthCalls, Answer(c), Still
    PROVE  AccInv'
<1>1. tokens \in Nat
  BY TypesAre DEF AccInv, BaseInv, TablesOK
<1>2. PICK a : a = Quiet
  OBVIOUS
<1>3. a \in ApiCall /\ a.at = "idle" /\ a.line = 0
  BY <1>2, QuietIsCall
<1>4. Knows(a)
  BY <1>1, <1>3 DEF Knows, WithNumber, WithUser, WithToken, Verifies, InSession
<1>5. a.at \notin Verifies /\ api' = [api EXCEPT ![c] = a]
  BY <1>2, <1>3 DEF Verifies, Answer
<1> QED BY <1>3, <1>4, <1>5, PlainKeeps DEF Still

LEMMA MoveKeeps ==
    ASSUME AccountsAssumption, AccInv, NEW c \in AuthCalls, NEW stage \in Stage, Move(c, stage), Still,
           stage \notin Verifies \cup {"refRevoke", "reqCount", "reqSend", "refFind", "logout"},
           api[c].at \notin InSession,
           stage = "reqWrite" => api[c].at = "reqCount",
           stage \in WithNumber => api[c].at \in WithNumber,
           stage \in WithUser => api[c].at \in WithUser,
           stage = "phoneAgain" => WithPhone(api[c].phone) # {}
    PROVE  AccInv'
<1>1. api[c] \in ApiCall /\ Knows(api[c]) /\ tokens \in Nat
  BY TypesAre DEF AccInv, BaseInv, CallsOK, TablesOK
<1>2. PICK a : a = [api[c] EXCEPT !.at = stage]
  OBVIOUS
<1>3. /\ a \in ApiCall /\ a.at = stage /\ a.phone = api[c].phone /\ a.row = api[c].row
      /\ a.user = api[c].user /\ a.token = api[c].token /\ a.line = api[c].line
  BY <1>1, <1>2, MovedCall
<1>4. a.line = 0
  BY <1>1, <1>3 DEF Knows
<1>5. Knows(a)
  BY <1>1, <1>3, <1>4 DEF Knows, WithToken, Verifies
<1>6. api' = [api EXCEPT ![c] = a]
  BY <1>2 DEF Move
<1> QED BY <1>3, <1>4, <1>5, <1>6, PlainKeeps DEF Still

LEMMA CallerKeeps ==
    ASSUME AccountsAssumption, AccInv, NEW c \in AuthCalls, Caller(c)
    PROVE  AccInv'
<1>0. TablesOK
  BY TypesAre DEF AccInv, BaseInv
<1>1. ASSUME NEW a \in ApiCall, Knows(a), a.line = 0, a.at \notin Verifies, StartCall(c, a)
      PROVE  AccInv'
  <2>1. Still /\ api' = [api EXCEPT ![c] = a]
    BY <1>0, <1>1 DEF StartCall, Still, Tables, otp, otpHistory, people, sessions, TablesOK
  <2> QED BY <1>1, <2>1, PlainKeeps DEF Still
<1>2. tokens \in Nat /\ codes \in 0..MaxCodes /\ received \subseteq Codes /\ MaxTokens \in Nat /\ tokens \in 0..MaxTokens
  BY <1>0 DEF TablesOK, AccountsAssumption
<1>3. ASSUME NEW at \in {"reqFind", "widget"}, NEW p \in Phones,
             StartCall(c, [Quiet EXCEPT !.at = at, !.phone = p])
      PROVE  AccInv'
  <2>1. PICK a : a = [Quiet EXCEPT !.at = at, !.phone = p]
    OBVIOUS
  <2>2. a \in ApiCall /\ a.at = at /\ a.phone = p /\ a.line = 0
    BY <2>1, QuietIsCall DEF ApiCall, Stage
  <2>3. Knows(a)
    BY <1>2, <2>2 DEF Knows, WithNumber, WithUser, WithToken, Verifies, InSession
  <2> QED BY <1>1, <1>3, <2>1, <2>2, <2>3 DEF Verifies
<1>4. ASSUME NEW p \in Phones, NEW k \in received \cup {Wrong},
             StartCall(c, [Quiet EXCEPT !.at = "verFind", !.phone = p, !.code = k])
      PROVE  AccInv'
  <2>1. PICK a : a = [Quiet EXCEPT !.at = "verFind", !.phone = p, !.code = k]
    OBVIOUS
  <2>2. k \in 0..MaxCodes
    BY <1>2 DEF Codes, Wrong, AccountsAssumption
  <2>3. a \in ApiCall /\ a.at = "verFind" /\ a.phone = p /\ a.line = 0
    BY <2>1, <2>2, QuietIsCall DEF ApiCall, Stage
  <2>4. Knows(a)
    BY <1>2, <2>3 DEF Knows, WithNumber, WithUser, WithToken, Verifies, InSession
  <2> QED BY <1>1, <1>4, <2>1, <2>3, <2>4 DEF Verifies
<1>5. ASSUME NEW at \in {"regFind", "logFind"}, NEW e \in Emails, NEW p \in Phones \cup {None},
             StartCall(c, [Quiet EXCEPT !.at = at, !.email = e, !.phone = p])
             \/ StartCall(c, [Quiet EXCEPT !.at = at, !.email = e])
      PROVE  AccInv'
  <2>1. PICK a : a \in {[Quiet EXCEPT !.at = at, !.email = e, !.phone = p], [Quiet EXCEPT !.at = at, !.email = e]}
                 /\ StartCall(c, a)
    BY <1>5
  <2>2. a \in ApiCall /\ a.at = at /\ a.line = 0
    BY <2>1, QuietIsCall DEF ApiCall, Stage
  <2>3. Knows(a)
    BY <1>2, <2>2 DEF Knows, WithNumber, WithUser, WithToken, Verifies, InSession
  <2> QED BY <1>1, <2>1, <2>2, <2>3 DEF Verifies
<1>6. ASSUME NEW at \in {"refFind", "logout"}, NEW t \in 1..tokens,
             StartCall(c, [Quiet EXCEPT !.at = at, !.token = t])
      PROVE  AccInv'
  <2>1. PICK a : a = [Quiet EXCEPT !.at = at, !.token = t]
    OBVIOUS
  <2>2. t \in 0..MaxTokens
    BY <1>2
  <2>3. a \in ApiCall /\ a.at = at /\ a.token = t /\ a.line = 0
    BY <2>1, <2>2, QuietIsCall DEF ApiCall, Stage
  <2>4. Knows(a)
    BY <1>2, <2>3 DEF Knows, WithNumber, WithUser, WithToken, Verifies, InSession
  <2> QED BY <1>1, <1>6, <2>1, <2>3, <2>4 DEF Verifies
<1>7. CASE requestOtp(c) \/ verifyWidgetOtp(c)
  BY <1>3, <1>7 DEF requestOtp, verifyWidgetOtp
<1>8. CASE verifyOtp(c)
  BY <1>4, <1>8 DEF verifyOtp
<1>9. CASE registerEmail(c)
  BY <1>5, <1>9 DEF registerEmail
<1>10. CASE loginEmail(c)
  BY <1>5, <1>10 DEF loginEmail
<1>11. CASE refreshSession(c) \/ logoutSession(c)
  BY <1>6, <1>11 DEF refreshSession, logoutSession
<1> QED BY <1>7, <1>8, <1>9, <1>10, <1>11 DEF Caller

LEMMA GoToKeeps ==
    ASSUME AccountsAssumption, AccInv, NEW c \in AuthCalls, NEW stage \in {"phoneUpdate", "logUpdate"},
           NEW u \in 1..users, GoTo(c, stage, u), Still, api[c].at \notin InSession
    PROVE  AccInv'
<1>1. api[c] \in ApiCall /\ Knows(api[c]) /\ tokens \in Nat /\ users \in 0..MaxUsers /\ MaxUsers \in Nat
  BY TypesAre DEF AccInv, BaseInv, CallsOK, TablesOK, AccountsAssumption
<1>2. PICK a : a = [api[c] EXCEPT !.at = stage, !.user = u]
  OBVIOUS
<1>3. a \in ApiCall /\ a.at = stage /\ a.user = u /\ a.line = api[c].line
  <2>1. stage \in Stage /\ u \in 0..MaxUsers
    BY <1>1 DEF Stage
  <2> QED BY <1>1, <1>2, <2>1 DEF ApiCall
<1>4. a.line = 0 /\ Knows(a)
  BY <1>1, <1>3 DEF Knows, WithToken, WithNumber, Verifies, InSession
<1>5. api' = [api EXCEPT ![c] = a]
  BY <1>2 DEF GoTo, AccInv, BaseInv, CallsOK
<1> QED BY <1>3, <1>4, <1>5, PlainKeeps DEF Still, Verifies

LEMMA RequestPlain ==
    ASSUME AccountsAssumption, AccInv, NEW c \in AuthCalls,
           FindForRequest(c) \/ CountRecent(c) \/ SendSms(c) \/ RowGone(c) \/ WidgetVerified(c) \/ Abort(c)
    PROVE  AccInv'
<1>0. TablesOK /\ api \in [AuthCalls -> ApiCall] /\ api[c] \in ApiCall /\ Knows(api[c])
  BY TypesAre DEF AccInv, BaseInv, CallsOK
<1>1. Still
  <2>1. received' \subseteq Codes
    <3>1. CASE SendSms(c)
      <4>1. api[c].code \in Codes
        BY <1>0, <3>1 DEF Knows, SendSms, Stands, TablesOK, Codes, AccountsAssumption
      <4> QED BY <1>0, <3>1, <4>1 DEF SendSms, TablesOK
    <3>2. CASE ~SendSms(c)
      BY <1>0, <3>2 DEF FindForRequest, CountRecent, RowGone, WidgetVerified, Abort, otp, TablesOK
    <3> QED BY <3>1, <3>2
  <2> QED BY <2>1 DEF FindForRequest, CountRecent, SendSms, RowGone, WidgetVerified, Abort, Still, Tables,
                      otp, otpHistory, people, sessions, budget
<1>2. CASE Answer(c)
  BY <1>1, <1>2, AnswerKeeps
<1>3. CASE CountRecent(c)
  BY <1>0, <1>1, <1>2, <1>3, MoveKeeps DEF CountRecent, Stands, Stage, Verifies, InSession, WithNumber, WithUser
<1>4. CASE WidgetVerified(c)
  <2>1. Answer(c) \/ (Move(c, "phoneFind") /\ api[c].at = "widget")
    BY <1>4 DEF WidgetVerified, Stands
  <2> QED BY <1>1, <1>2, <2>1, MoveKeeps DEF Stage, Verifies, InSession, WithNumber, WithUser
<1>5. CASE FindForRequest(c)
  <2>1. PICK p, i : p = api[c].phone /\ i = Newest(Usable(p))
    OBVIOUS
  <2>2. /\ challenges \in Nat /\ clock \in Nat /\ MaxChallenges \in Nat /\ challenges <= MaxChallenges
        /\ tokens \in Nat /\ p \in Phones
    BY <1>0, <1>5, <2>1 DEF TablesOK, AccountsAssumption, FindForRequest, Stands, Knows, WithNumber
  <2>3. i = 0 \/ (i \in 1..challenges /\ challenge[i].phone = p)
    <3>1. Usable(p) \subseteq {j \in 1..challenges : challenge[j].phone = p}
      BY DEF Usable, Unconsumed, ChallengesOf
    <3>2. i = 0 \/ i \in Usable(p)
      BY <2>1, <2>2, <3>1, NewestIs
    <3> QED BY <3>1, <3>2
  <2>4. PICK a : a = [api[c] EXCEPT !.row = i, !.since = clock, !.at = "reqCount"]
    OBVIOUS
  <2>5. a \in ApiCall /\ a.at = "reqCount" /\ a.row = i /\ a.phone = p /\ a.line = api[c].line
    <3>1. "reqCount" \in Stage /\ i \in 0..MaxChallenges
      BY <2>2, <2>3 DEF Stage
    <3> QED BY <1>0, <2>1, <2>2, <2>4, <3>1 DEF ApiCall
  <2>6. api[c].at = "reqFind" /\ a.line = 0
    BY <1>0, <1>5, <2>5 DEF FindForRequest, Stands, Knows, InSession
  <2>7. Knows(a)
    BY <2>2, <2>3, <2>5, <2>6 DEF Knows, WithNumber, WithUser, WithToken, Verifies, InSession
  <2>8. Answer(c) \/ api' = [api EXCEPT ![c] = a]
    BY <1>0, <1>5, <2>1, <2>4 DEF FindForRequest
  <2> QED BY <1>1, <1>2, <2>5, <2>6, <2>7, <2>8, PlainKeeps DEF Still, Verifies
<1>6. CASE SendSms(c) \/ RowGone(c) \/ Abort(c)
  BY <1>2, <1>6 DEF SendSms, RowGone, Abort
<1> QED BY <1>3, <1>4, <1>5, <1>6

LEMMA SignInPlain ==
    ASSUME AccountsAssumption, AccInv, NEW c \in AuthCalls,
           FindByPhone(c) \/ FindByPhoneAgain(c) \/ UpdateLogin(c) \/ FindForRegister(c) \/ FindForLogin(c)
    PROVE  AccInv'
<1>0. TablesOK /\ api \in [AuthCalls -> ApiCall] /\ api[c] \in ApiCall /\ Knows(api[c])
  BY TypesAre DEF AccInv, BaseInv, CallsOK
<1>1. UNCHANGED <<otp, otpHistory, people, sessions, budget>>
  BY DEF FindByPhone, FindByPhoneAgain, UpdateLogin, FindForRegister, FindForLogin
<1>2. turnedAway' = turnedAway => Still
  BY <1>0, <1>1 DEF Still, Tables, otp, otpHistory, people, sessions, budget, TablesOK
<1>3. CASE FindByPhone(c)
  <2>1. Still
    BY <1>2, <1>3 DEF FindByPhone
  <2>2. api[c].at = "phoneFind"
    BY <1>3 DEF FindByPhone, Stands
  <2>3. \/ Answer(c) \/ Move(c, "phoneCreate")
        \/ \E u \in WithPhone(api[c].phone) : GoTo(c, "phoneUpdate", u)
    BY <1>3 DEF FindByPhone
  <2>4. WithPhone(api[c].phone) \subseteq 1..users
    BY DEF WithPhone
  <2>5. CASE Move(c, "phoneCreate")
    BY <2>1, <2>2, <2>5, MoveKeeps DEF Stage, Verifies, InSession, WithNumber, WithUser
  <2>6. ASSUME NEW u \in WithPhone(api[c].phone), GoTo(c, "phoneUpdate", u) PROVE AccInv'
    BY <2>1, <2>2, <2>4, <2>6, GoToKeeps DEF InSession
  <2> QED BY <2>1, <2>3, <2>5, <2>6, AnswerKeeps
<1>4. CASE FindByPhoneAgain(c)
  <2>1. api[c].at = "phoneAgain" /\ WithPhone(api[c].phone) # {}
    BY <1>0, <1>4 DEF FindByPhoneAgain, Stands, Knows
  <2>2. /\ Still
        /\ Answer(c) \/ \E u \in WithPhone(api[c].phone) : GoTo(c, "phoneUpdate", u)
    BY <1>2, <1>4, <2>1 DEF FindByPhoneAgain
  <2>3. WithPhone(api[c].phone) \subseteq 1..users
    BY DEF WithPhone
  <2>4. ASSUME NEW u \in WithPhone(api[c].phone), GoTo(c, "phoneUpdate", u) PROVE AccInv'
    BY <2>1, <2>2, <2>3, <2>4, GoToKeeps DEF InSession
  <2> QED BY <2>2, <2>4, AnswerKeeps
<1>5. CASE UpdateLogin(c)
  BY <1>2, <1>5, MoveKeeps DEF UpdateLogin, Stage, Verifies, InSession, WithNumber, WithUser
<1>6. CASE FindForRegister(c)
  <2>1. api[c].at = "regFind" /\ Still /\ (Answer(c) \/ Move(c, "regCreate"))
    BY <1>2, <1>6 DEF FindForRegister, Stands
  <2> QED BY <2>1, AnswerKeeps, MoveKeeps DEF Stage, Verifies, InSession, WithNumber, WithUser
<1>7. CASE FindForLogin(c)
  <2>1. /\ api[c].at = "logFind" /\ Still
        /\ Answer(c) \/ \E u \in WithEmail(api[c].email) : GoTo(c, "logUpdate", u)
    BY <1>2, <1>7 DEF FindForLogin, Stands
  <2>2. WithEmail(api[c].email) \subseteq 1..users
    BY DEF WithEmail
  <2>3. ASSUME NEW u \in WithEmail(api[c].email), GoTo(c, "logUpdate", u) PROVE AccInv'
    BY <2>1, <2>2, <2>3, GoToKeeps DEF InSession
  <2> QED BY <2>1, <2>3, AnswerKeeps
<1> QED BY <1>3, <1>4, <1>5, <1>6, <1>7

-----------------------------------------------------------------------------
(* Accounts *)

LEMMA CreateUserKeeps ==
    ASSUME AccountsAssumption, AccInv, NEW c \in AuthCalls, NEW phone \in Phones \cup {None},
           NEW email \in Emails \cup {None}, CreateUser(c, phone, email), api[c].at \notin InSession,
           phone \in Phones => \A u \in 1..users : user[u].phone # phone,
           UNCHANGED <<otp, otpHistory, sessions, budget>>
    PROVE  AccInv'
<1>0. TablesOK /\ RowsOK /\ BaseInv /\ api \in [AuthCalls -> ApiCall] /\ api[c] \in ApiCall /\ Knows(api[c])
  BY TypesAre DEF AccInv, BaseInv, CallsOK
<1>1. PICK n : n = users + 1
  OBVIOUS
<1>2. users \in Nat /\ n \in UserIds /\ n \in 0..MaxUsers /\ n \notin 1..users
  BY <1>0, <1>1 DEF CreateUser, TablesOK, UserIds, AccountsAssumption
<1>3. /\ users' = n /\ user' = [user EXCEPT ![n] = [phone |-> phone, email |-> email, banned |-> FALSE]]
      /\ turnedAway' = turnedAway
      /\ api' = [api EXCEPT ![c].at = "issue", ![c].user = n]
      /\ UNCHANGED <<challenge, challenges, codes, received, signIns, misses, contended, token, tokens,
                     forked, ended, clock>>
  BY <1>1 DEF CreateUser, GoTo, otp, otpHistory, sessions, budget
<1>4. /\ user'[n].phone = phone /\ \A u \in 1..users : user'[u] = user[u]
      /\ user' \in [UserIds -> User]
  <2>1. [phone |-> phone, email |-> email, banned |-> FALSE] \in User
    BY DEF User
  <2>2. 1..users \subseteq UserIds
    BY <1>0 DEF TablesOK, UserIds, AccountsAssumption
  <2> QED BY <1>0, <1>2, <1>3, <2>1, <2>2 DEF TablesOK
<1>5. PICK a : a = [api[c] EXCEPT !.at = "issue", !.user = n]
  OBVIOUS
<1>6. a \in ApiCall /\ a.at = "issue" /\ a.user = n /\ a.line = 0 /\ api' = [api EXCEPT ![c] = a]
  <2>1. "issue" \in Stage /\ api[c].line = 0
    BY <1>0 DEF Stage, Knows
  <2>2. a \in ApiCall /\ a.line = api[c].line
    BY <1>0, <1>2, <1>5, <2>1 DEF ApiCall
  <2> QED BY <1>0, <1>3, <1>5, <2>1, <2>2 DEF ApiCall
<1>7. RowsStay /\ TablesOK' /\ RowsOK'
  <2>1. 1..users \subseteq 1..n /\ n \in Nat /\ users <= n
    BY <1>1, <1>2
  <2>2. RowsStay
    BY <1>0, <1>2, <1>3, <1>4, <2>1 DEF RowsStay, TablesOK
  <2>3. TablesOK'
    BY <1>0, <1>2, <1>3, <1>4, <2>1 DEF TablesOK
  <2> QED BY <1>0, <1>3, <2>2, <2>3 DEF RowsOK
<1>8. Knows(a)'
  <2>1. n \in 1..n /\ 0 \in 0..tokens
    BY <1>0, <1>1, <1>2 DEF TablesOK, AccountsAssumption
  <2>2. /\ a.at \notin WithNumber /\ a.at \notin WithToken /\ a.at \notin Verifies
        /\ a.at \notin {"reqCount", "reqWrite", "reqSend", "verConsume", "phoneAgain", "refRevoke"}
    BY <1>6 DEF WithNumber, WithToken, Verifies
  <2> QED BY <1>3, <1>6, <2>1, <2>2 DEF Knows
<1>9. BaseInv' /\ GoesTo(c, a)
  BY <1>0, <1>6, <1>7, <1>8, BaseStays
<1>10. PhonesOK'
  <2> SUFFICES ASSUME NEW u \in 1..n, NEW v \in 1..n, user'[u].phone = user'[v].phone, user'[u].phone \in Phones
               PROVE  u = v
    BY <1>3 DEF PhonesOK, AccInv, SessionInv
  <2>1. (u = n \/ u \in 1..users) /\ (v = n \/ v \in 1..users)
    BY <1>1, <1>2
  <2> QED BY <1>4, <2>1 DEF PhonesOK, AccInv, SessionInv
<1>11. LinesOK'
  BY <1>0, <1>3, <1>6, <1>9, LinesStay DEF AccInv, SessionInv
<1>12. OtpInv'
  BY <1>0, <1>3, <1>6, <1>9, OtpStays DEF AccInv, Verifies
<1> QED BY <1>9, <1>10, <1>11, <1>12 DEF AccInv, SessionInv

LEMMA CreateKeeps ==
    ASSUME AccountsAssumption, AccInv, NEW c \in AuthCalls, CreateByPhone(c) \/ CreateByEmail(c)
    PROVE  AccInv'
<1>0. TablesOK /\ api[c] \in ApiCall /\ Knows(api[c])
  BY TypesAre DEF AccInv, BaseInv, CallsOK
<1>1. UNCHANGED <<otp, otpHistory, sessions, budget>>
  BY DEF CreateByPhone, CreateByEmail
<1>2. UNCHANGED <<people, turnedAway>> => Still
  BY <1>0, <1>1 DEF Still, Tables, otp, otpHistory, people, sessions, budget, TablesOK
<1>3. CASE CreateByPhone(c)
  <2>1. api[c].at = "phoneCreate" /\ api[c].phone \in Phones
    BY <1>0, <1>3 DEF CreateByPhone, Stands, Knows, WithNumber
  <2>2. CASE WithPhone(api[c].phone) = {}
    <3>1. CreateUser(c, api[c].phone, None)
      BY <1>3, <2>2 DEF CreateByPhone
    <3>2. \A u \in 1..users : user[u].phone # api[c].phone
      BY <2>2 DEF WithPhone
    <3> QED BY <1>1, <2>1, <3>1, <3>2, CreateUserKeeps DEF InSession
  <2>3. CASE WithPhone(api[c].phone) # {}
    <3>1. Move(c, "phoneAgain") /\ Still
      BY <1>2, <1>3, <2>3 DEF CreateByPhone
    <3> QED BY <2>1, <2>3, <3>1, MoveKeeps DEF Stage, Verifies, InSession, WithNumber, WithUser
  <2> QED BY <2>2, <2>3
<1>4. CASE CreateByEmail(c)
  <2>1. api[c].at = "regCreate" /\ api[c].phone \in Phones \cup {None} /\ api[c].email \in Emails
    BY <1>0, <1>4 DEF CreateByEmail, Stands, ApiCall
  <2>2. CASE NumberTaken(api[c].email, api[c].phone) = {}
    <3>1. CreateUser(c, api[c].phone, api[c].email)
      BY <1>4, <2>2 DEF CreateByEmail
    <3>2. api[c].phone \in Phones => \A u \in 1..users : user[u].phone # api[c].phone
      BY <2>2 DEF NumberTaken, AccountsAssumption
    <3> QED BY <1>1, <2>1, <3>1, <3>2, CreateUserKeeps DEF InSession
  <2>3. CASE NumberTaken(api[c].email, api[c].phone) # {}
    BY <1>2, <1>4, <2>3, AnswerKeeps DEF CreateByEmail
  <2> QED BY <2>2, <2>3
<1> QED BY <1>3, <1>4

-----------------------------------------------------------------------------
(* Sessions *)

(* A line that a step does not touch. *)
LEMMA LineStays ==
    ASSUME BaseInv, NEW line, LineOK(line), Live(line)' = Live(line), line \in ended' => line \in ended,
           \A d \in Exchanging(line)' : d \in Exchanging(line) /\ api'[d] = api[d],
           \A t \in Live(line) : ~token'[t].revoked
    PROVE  LineOK(line)'
<1>1. ASSUME NEW d \in Exchanging(line)', api'[d].at = "refRevoke"
      PROVE  ~token'[api'[d].token].revoked
  <2>1. d \in AuthCalls /\ api[d].at = "refRevoke" /\ d \in Exchanging(line) /\ api[d].line = line
    BY <1>1 DEF Exchanging
  <2>2. api[d].token \in 1..tokens /\ token[api[d].token].line = line /\ ~token[api[d].token].revoked
    BY <2>1 DEF LineOK, BaseInv, CallsOK, Knows, WithToken
  <2>3. api[d].token \in Live(line)
    BY <2>2 DEF Live
  <2> QED BY <1>1, <2>3
<1> QED BY <1>1 DEF LineOK

(* A call that comes to a sign-in only by exchanging its token. *)
LEMMA OthersExchange ==
    ASSUME NEW c \in AuthCalls, NEW a, GoesTo(c, a), api'[c] = a, NEW line, a.line # line \/ a.at \notin InSession
    PROVE  \A d \in Exchanging(line)' : d \in Exchanging(line) /\ api'[d] = api[d] /\ d # c
  BY DEF GoesTo, Exchanging

LEMMA FindTokenKeeps ==
    ASSUME AccountsAssumption, AccInv, NEW c \in AuthCalls, FindToken(c)
    PROVE  AccInv'
<1>0. TablesOK /\ RowsOK /\ BaseInv /\ LinesOK /\ api \in [AuthCalls -> ApiCall] /\ api[c] \in ApiCall /\ Knows(api[c])
  BY TypesAre DEF AccInv, BaseInv, CallsOK, SessionInv
<1>1. PICK t : t = api[c].token
  OBVIOUS
<1>2. t \in 1..tokens /\ api[c].at = "refFind" /\ tokens \in Nat /\ t \in TokenIds
  BY <1>0, <1>1 DEF FindToken, Stands, Knows, WithToken, TablesOK, TokenIds, AccountsAssumption
<1>3. CASE token[t].revoked \/ token[t].expired
  BY <1>0, <1>1, <1>3, AnswerKeeps
     DEF FindToken, Still, Tables, otp, otpHistory, people, budget, TablesOK
<1>4. CASE ~(token[t].revoked \/ token[t].expired)
  <2>1. PICK line, u : line = token[t].line /\ u = token[t].user
    OBVIOUS
  <2>2. line \in 1..tokens /\ line # 0 /\ u \in 1..users /\ u \in 0..MaxUsers
    BY <1>0, <1>2, <2>1 DEF TablesOK, RowsOK, AccountsAssumption
  <2>3. PICK a : a = [api[c] EXCEPT !.at = "refRevoke", !.user = u, !.line = line]
    OBVIOUS
  <2>4. /\ a \in ApiCall /\ a.at = "refRevoke" /\ a.user = u /\ a.line = line /\ a.token = t
    <3>1. "refRevoke" \in Stage /\ line \in Nat
      BY <2>2 DEF Stage
    <3> QED BY <1>0, <1>1, <2>2, <2>3, <3>1 DEF ApiCall
  <2>5. /\ api' = [api EXCEPT ![c] = a]
        /\ forked' = IF Refreshing(t) # {} THEN forked \cup {line} ELSE forked
        /\ UNCHANGED <<challenge, challenges, codes, received, signIns, misses, contended, user, users,
                       token, tokens, ended, turnedAway, clock>>
    BY <1>0, <1>1, <1>4, <2>1, <2>3 DEF FindToken, otp, otpHistory, people, budget
  <2>6. RowsStay /\ TablesOK' /\ RowsOK'
    BY <1>0, <2>5 DEF RowsStay, TablesOK, RowsOK
  <2>7. Knows(a)'
    <3>1. line \in 0..tokens
      BY <2>2, <1>2
    <3>2. /\ a.at \notin WithNumber /\ a.at \notin Verifies /\ a.at \in InSession
          /\ a.at \notin {"reqCount", "reqWrite", "reqSend", "verConsume", "phoneAgain"}
      BY <2>4 DEF WithNumber, Verifies, InSession
    <3> QED BY <1>2, <2>1, <2>2, <2>4, <2>5, <3>1, <3>2 DEF Knows
  <2>8. BaseInv' /\ GoesTo(c, a) /\ api'[c] = a
    BY <1>0, <2>4, <2>5, <2>6, <2>7, BaseStays
  <2>9. LinesOK'
    <3> SUFFICES ASSUME NEW other \in 1..tokens, other \notin forked' PROVE LineOK(other)'
      BY <2>5 DEF LinesOK
    <3>1. LineOK(other) /\ other \notin forked /\ Live(other)' = Live(other)
      BY <1>0, <2>5 DEF LinesOK, Live
    <3>2. CASE other # line
      <4>1. \A d \in Exchanging(other)' : d \in Exchanging(other) /\ api'[d] = api[d]
        BY <2>4, <2>8, <3>2, OthersExchange
      <4> QED BY <1>0, <2>5, <3>1, <4>1, LineStays DEF Live
    <3>3. CASE other = line
      <4>1. Refreshing(t) = {} /\ t \in Live(line)
        BY <1>2, <1>4, <2>1, <2>5, <3>3 DEF Live
      <4>2. ASSUME NEW d \in Exchanging(line) PROVE FALSE
        <5>1. d \in AuthCalls /\ api[d].line = line /\ api[d].at \in {"refRevoke", "issue"}
          BY <4>2 DEF Exchanging, InSession
        <5>2. api[d].at = "refRevoke"
          BY <3>1, <3>3, <4>1, <4>2, <5>1 DEF LineOK
        <5>3. api[d].token \in 1..tokens /\ token[api[d].token].line = line /\ ~token[api[d].token].revoked
          BY <1>0, <3>1, <3>3, <4>2, <5>1, <5>2 DEF LineOK, BaseInv, CallsOK, Knows, WithToken
        <5>4. api[d].token = t
          BY <3>1, <3>3, <4>1, <5>3 DEF LineOK, Live
        <5> QED BY <4>1, <5>1, <5>2, <5>4 DEF Refreshing, Stands
      <4>3. \A d \in Exchanging(line)' : d = c
        BY <2>8, <4>2 DEF GoesTo, Exchanging
      <4>4. line \notin ended
        BY <3>1, <3>3, <4>1 DEF LineOK
      <4>5. api'[c].at = "refRevoke" /\ ~token'[api'[c].token].revoked
        BY <1>4, <2>4, <2>5, <2>8
      <4> QED BY <2>5, <3>1, <3>3, <4>3, <4>4, <4>5 DEF LineOK
    <3> QED BY <3>2, <3>3
  <2>10. PhonesOK'
    BY <2>5, PhonesStay DEF AccInv, SessionInv
  <2>11. OtpInv'
    BY <2>4, <2>5, <2>8, OtpStays DEF AccInv, Verifies
  <2> QED BY <2>8, <2>9, <2>10, <2>11 DEF AccInv, SessionInv
<1> QED BY <1>3, <1>4

LEMMA RevokeTokenKeeps ==
    ASSUME AccountsAssumption, AccInv, NEW c \in AuthCalls, RevokeToken(c)
    PROVE  AccInv'
<1>0. TablesOK /\ RowsOK /\ BaseInv /\ LinesOK /\ api \in [AuthCalls -> ApiCall] /\ api[c] \in ApiCall /\ Knows(api[c])
  BY TypesAre DEF AccInv, BaseInv, CallsOK, SessionInv
<1>1. PICK t, line : t = api[c].token /\ line = token[t].line
  OBVIOUS
<1>2. /\ t \in 1..tokens /\ api[c].at = "refRevoke" /\ tokens \in Nat /\ t \in TokenIds
      /\ api[c].line = line /\ line \in 1..tokens /\ api[c].user \in 1..users
  BY <1>0, <1>1 DEF RevokeToken, Stands, Knows, WithToken, WithUser, TablesOK, RowsOK, TokenIds, AccountsAssumption
<1>3. PICK a : a = [api[c] EXCEPT !.at = "issue"]
  OBVIOUS
<1>4. "issue" \in Stage
  BY DEF Stage
<1>5. a \in ApiCall /\ a.at = "issue" /\ a.user = api[c].user /\ a.line = line
  BY <1>0, <1>2, <1>3, <1>4, MovedCall
<1>6. /\ api' = [api EXCEPT ![c] = a] /\ token' = [token EXCEPT ![t].revoked = TRUE]
      /\ UNCHANGED <<challenge, challenges, codes, received, signIns, misses, contended, user, users,
                     tokens, forked, ended, turnedAway, clock>>
  BY <1>0, <1>1, <1>3 DEF RevokeToken, Move, otp, otpHistory, people, budget
<1>7. /\ token' \in [TokenIds -> Token] /\ token'[t].revoked
      /\ \A s \in 1..tokens : /\ token'[s].line = token[s].line /\ token'[s].user = token[s].user
                              /\ s # t => token'[s] = token[s]
  <2>1. \A s \in TokenIds : token[s] \in Token
    BY <1>0 DEF TablesOK
  <2>2. 1..tokens \subseteq TokenIds
    BY <1>0 DEF TablesOK, TokenIds, AccountsAssumption
  <2> QED BY <1>0, <1>2, <1>6, <2>1, <2>2 DEF TablesOK, Token
<1>8. RowsStay /\ TablesOK' /\ RowsOK'
  BY <1>0, <1>6, <1>7 DEF RowsStay, TablesOK, RowsOK
<1>9. Knows(a)'
  <2>1. line \in 0..tokens
    BY <1>2
  <2>2. /\ a.at \notin WithNumber /\ a.at \notin WithToken /\ a.at \notin Verifies /\ a.at \in InSession
        /\ a.at \notin {"reqCount", "reqWrite", "reqSend", "verConsume", "phoneAgain", "refRevoke"}
    BY <1>5 DEF WithNumber, WithToken, Verifies, InSession
  <2> QED BY <1>2, <1>5, <1>6, <2>1, <2>2 DEF Knows
<1>10. BaseInv' /\ GoesTo(c, a) /\ api'[c] = a
  BY <1>0, <1>5, <1>6, <1>8, <1>9, BaseStays
<1>11. LinesOK'
  <2> SUFFICES ASSUME NEW other \in 1..tokens, other \notin forked PROVE LineOK(other)'
    BY <1>6 DEF LinesOK
  <2>1. LineOK(other)
    BY <1>0 DEF LinesOK
  <2>2. CASE other # line
    <3>1. t \notin Live(other) /\ Live(other)' = Live(other)
      BY <1>1, <1>2, <1>6, <1>7, <2>2 DEF Live
    <3>2. \A s \in Live(other) : ~token'[s].revoked
      BY <1>7, <3>1 DEF Live
    <3>3. \A d \in Exchanging(other)' : d \in Exchanging(other) /\ api'[d] = api[d]
      BY <1>5, <1>10, <2>2, OthersExchange
    <3> QED BY <1>0, <1>6, <2>1, <3>1, <3>2, <3>3, LineStays
  <2>3. CASE other = line
    <3>1. c \in Exchanging(line)
      BY <1>2 DEF Exchanging, InSession
    <3>2. t \in Live(line)
      BY <1>1, <1>2, <2>1, <2>3, <3>1 DEF LineOK, Live
    <3>3. Live(line)' = {}
      BY <1>6, <1>7, <2>1, <2>3, <3>2 DEF LineOK, Live
    <3>4. \A d \in Exchanging(line)' : d = c
      BY <1>10, <2>1, <2>3, <3>1 DEF GoesTo, Exchanging, LineOK
    <3>5. line \notin ended
      BY <2>1, <2>3, <3>1 DEF LineOK
    <3> QED BY <1>5, <1>6, <1>10, <2>3, <3>3, <3>4, <3>5 DEF LineOK
  <2> QED BY <2>2, <2>3
<1>12. PhonesOK'
  BY <1>6, PhonesStay DEF AccInv, SessionInv
<1>13. OtpInv'
  BY <1>5, <1>6, <1>10, OtpStays DEF AccInv, Verifies
<1> QED BY <1>10, <1>11, <1>12, <1>13 DEF AccInv, SessionInv

(* The call that answered knows nothing. *)
LEMMA QuietKnows ==
    ASSUME AccountsAssumption, tokens \in Nat, NEW a, a = Quiet
    PROVE  Knows(a) /\ a \in ApiCall /\ a.line = 0 /\ a.at \notin InSession \cup Verifies
  BY QuietIsCall DEF Knows, WithNumber, WithUser, WithToken, Verifies, InSession

LEMMA IssueTokensKeeps ==
    ASSUME AccountsAssumption, AccInv, NEW c \in AuthCalls, IssueTokens(c)
    PROVE  AccInv'
<1>0. TablesOK /\ RowsOK /\ BaseInv /\ LinesOK /\ api \in [AuthCalls -> ApiCall] /\ api[c] \in ApiCall /\ Knows(api[c])
  BY TypesAre DEF AccInv, BaseInv, CallsOK, SessionInv
<1>1. PICK n, line, a : /\ n = tokens + 1 /\ line = (IF api[c].line = 0 THEN n ELSE api[c].line)
                        /\ a = Quiet
  OBVIOUS
<1>2. /\ tokens \in Nat /\ n \in 1..n /\ n \in TokenIds /\ n \in 0..MaxTokens /\ n \notin 1..tokens
      /\ api[c].at = "issue" /\ api[c].user \in 1..users /\ api[c].line \in 0..tokens
      /\ 1..tokens \subseteq 1..n /\ \A i \in 1..n : i = n \/ i \in 1..tokens
      /\ n \in Nat /\ tokens <= n
  BY <1>0, <1>1 DEF TablesOK, TokenIds, AccountsAssumption, IssueTokens, Stands, Knows, WithUser
<1>3. /\ tokens' = n
      /\ token' = [token EXCEPT ![n] = [user |-> api[c].user, line |-> line, revoked |-> FALSE, expired |-> FALSE]]
      /\ api' = [api EXCEPT ![c] = a]
      /\ UNCHANGED <<challenge, challenges, codes, received, signIns, misses, contended, user, users,
                     forked, ended, turnedAway, clock>>
  BY <1>1 DEF IssueTokens, Answer, otp, otpHistory, people, budget
<1>4. /\ token' \in [TokenIds -> Token] /\ line \in 1..n
      /\ token'[n].line = line /\ token'[n].user = api[c].user /\ ~token'[n].revoked
      /\ \A s \in 1..tokens : token'[s] = token[s]
  <2>1. line \in 1..n /\ api[c].user \in 0..MaxUsers
    BY <1>0, <1>1, <1>2 DEF ApiCall
  <2>2. [user |-> api[c].user, line |-> line, revoked |-> FALSE, expired |-> FALSE] \in Token
    BY <2>1 DEF Token
  <2>3. 1..tokens \subseteq TokenIds
    BY <1>0 DEF TablesOK, TokenIds, AccountsAssumption
  <2> QED BY <1>0, <1>2, <1>3, <2>1, <2>2, <2>3 DEF TablesOK
<1>5. RowsStay /\ TablesOK' /\ RowsOK'
  <2>1. \A s \in 1..n : token'[s].user \in 1..users /\ token'[s].line \in 1..n
    BY <1>0, <1>2, <1>4 DEF TablesOK, RowsOK
  <2>2. RowsStay
    BY <1>0, <1>2, <1>3, <1>4 DEF RowsStay, TablesOK, AccountsAssumption
  <2>3. TablesOK'
    BY <1>0, <1>2, <1>3, <1>4, <2>1 DEF TablesOK
  <2> QED BY <1>0, <1>2, <1>3, <2>1, <2>2, <2>3 DEF RowsOK
<1>6. Knows(a)' /\ a \in ApiCall /\ a.line = 0 /\ a.at \notin InSession \cup Verifies
  BY <1>1, <1>0, <1>2, <1>5, QuietKnows, KnowsStays
<1>7. BaseInv' /\ GoesTo(c, a) /\ api'[c] = a
  BY <1>0, <1>3, <1>5, <1>6, BaseStays
<1>8. \A other \in 1..n : \A d \in Exchanging(other)' : d \in Exchanging(other) /\ api'[d] = api[d] /\ d # c
  BY <1>6, <1>7, OthersExchange
<1>9. LinesOK'
  <2> SUFFICES ASSUME NEW other \in 1..n, other \notin forked PROVE LineOK(other)'
    BY <1>3 DEF LinesOK
  <2>1. CASE other = n
    <3>1. \A d \in AuthCalls : api[d].line \in 0..tokens
      BY <1>0 DEF BaseInv, CallsOK, Knows
    <3>2. Exchanging(n)' = {}
      BY <1>2, <1>8, <3>1 DEF Exchanging
    <3>3. Live(n)' \subseteq {n} /\ n \notin ended
      BY <1>0, <1>2, <1>3, <1>4 DEF Live, RowsOK
    <3> QED BY <1>3, <2>1, <3>2, <3>3 DEF LineOK
  <2>2. CASE other \in 1..tokens /\ other = line
    <3>1. LineOK(other) /\ api[c].line = other /\ c \in Exchanging(other)
      BY <1>0, <1>1, <1>2, <2>2 DEF LinesOK, Exchanging, InSession
    <3>2. Live(other) = {} /\ other \notin ended
      BY <1>2, <3>1 DEF LineOK
    <3>3. Live(other)' \subseteq {n}
      BY <1>2, <1>3, <1>4, <3>2 DEF Live
    <3>4. Exchanging(other)' = {}
      BY <1>8, <3>1 DEF LineOK
    <3> QED BY <1>3, <3>2, <3>3, <3>4 DEF LineOK
  <2>3. CASE other \in 1..tokens /\ other # line
    <3>1. LineOK(other)
      BY <1>0, <2>3 DEF LinesOK
    <3>2. Live(other)' = Live(other)
      BY <1>2, <1>3, <1>4, <2>3 DEF Live
    <3>3. \A s \in Live(other) : ~token'[s].revoked
      BY <1>4 DEF Live
    <3> QED BY <1>0, <1>3, <1>8, <3>1, <3>2, <3>3, LineStays
  <2> QED BY <1>2, <2>1, <2>2, <2>3
<1>10. PhonesOK'
  BY <1>3, PhonesStay DEF AccInv, SessionInv
<1>11. OtpInv'
  BY <1>3, <1>6, <1>7, OtpStays DEF AccInv
<1> QED BY <1>7, <1>9, <1>10, <1>11 DEF AccInv, SessionInv

LEMMA LogoutKeeps ==
    ASSUME AccountsAssumption, AccInv, NEW c \in AuthCalls, Logout(c)
    PROVE  AccInv'
<1>0. TablesOK /\ RowsOK /\ BaseInv /\ LinesOK /\ api \in [AuthCalls -> ApiCall] /\ api[c] \in ApiCall /\ Knows(api[c])
  BY TypesAre DEF AccInv, BaseInv, CallsOK, SessionInv
<1>1. PICK t, line, a : t = api[c].token /\ line = token[t].line /\ a = Quiet
  OBVIOUS
<1>2. t \in 1..tokens /\ api[c].at = "logout" /\ tokens \in Nat /\ t \in TokenIds /\ line \in 1..tokens
  BY <1>0, <1>1 DEF Logout, Stands, Knows, WithToken, TablesOK, RowsOK, TokenIds, AccountsAssumption
<1>3. /\ api' = [api EXCEPT ![c] = a]
      /\ UNCHANGED <<challenge, challenges, codes, received, signIns, misses, contended, user, users,
                     tokens, turnedAway, clock>>
  BY <1>1 DEF Logout, Answer, otp, otpHistory, people, budget
<1>4. CASE UNCHANGED <<token, ended, forked>>
  BY <1>0, <1>1, <1>3, <1>4, AnswerKeeps DEF Answer, Still, Tables, TablesOK
<1>5. CASE /\ token' = [token EXCEPT ![t].revoked = TRUE]
           /\ ended' = (IF token[t].revoked THEN ended ELSE ended \cup {line})
           /\ forked' = (IF SessionInFlight(line) THEN forked \cup {line} ELSE forked)
  <2>1. /\ token' \in [TokenIds -> Token] /\ token'[t].revoked
        /\ \A s \in 1..tokens : /\ token'[s].line = token[s].line /\ token'[s].user = token[s].user
                                /\ s # t => token'[s] = token[s]
    <3>1. \A s \in TokenIds : token[s] \in Token
      BY <1>0 DEF TablesOK
    <3>2. 1..tokens \subseteq TokenIds
      BY <1>0 DEF TablesOK, TokenIds, AccountsAssumption
    <3> QED BY <1>0, <1>2, <1>5, <3>1, <3>2 DEF TablesOK, Token
  <2>2. RowsStay /\ TablesOK'
    BY <1>0, <1>3, <2>1 DEF RowsStay, TablesOK
  <2>3. RowsOK'
    BY <1>0, <1>2, <1>3, <1>5, <2>1 DEF RowsOK
  <2>4. Knows(a)' /\ a \in ApiCall /\ a.line = 0 /\ a.at \notin InSession \cup Verifies
    BY <1>1, <1>2, <2>2, QuietKnows, KnowsStays
  <2>5. BaseInv' /\ GoesTo(c, a) /\ api'[c] = a
    BY <1>0, <1>3, <2>2, <2>3, <2>4, BaseStays
  <2>6. \A other \in 1..tokens : \A d \in Exchanging(other)' : d \in Exchanging(other) /\ api'[d] = api[d]
    BY <2>4, <2>5, OthersExchange
  <2>7. LinesOK'
    <3> SUFFICES ASSUME NEW other \in 1..tokens, other \notin forked' PROVE LineOK(other)'
      BY <1>3 DEF LinesOK
    <3>1. LineOK(other) /\ other \notin forked
      BY <1>0, <1>5 DEF LinesOK
    <3>2. CASE other # line
      <4>1. t \notin Live(other) /\ Live(other)' = Live(other)
        BY <1>1, <1>2, <1>3, <2>1, <3>2 DEF Live
      <4>2. \A s \in Live(other) : ~token'[s].revoked
        BY <2>1, <4>1 DEF Live
      <4>3. other \in ended' => other \in ended
        BY <1>5, <3>2
      <4> QED BY <1>0, <2>6, <3>1, <4>1, <4>2, <4>3, LineStays
    <3>3. CASE other = line
      <4>1. Exchanging(line)' = {}
        <5>1. ~SessionInFlight(line)
          BY <1>5, <3>3
        <5>2. Exchanging(line) = {}
          BY <5>1 DEF SessionInFlight, Exchanging, InSession
        <5> QED BY <2>6, <3>3, <5>2
      <4>2. Live(line)' \subseteq Live(line) \ {t}
        BY <1>3, <2>1 DEF Live
      <4>3. CASE token[t].revoked
        <5>1. ended' = ended
          BY <1>5, <4>3
        <5> QED BY <3>1, <3>3, <4>1, <4>2, <5>1 DEF LineOK
      <4>4. CASE ~token[t].revoked
        <5>1. t \in Live(line)
          BY <1>1, <1>2, <4>4 DEF Live
        <5>2. Live(line)' = {}
          BY <3>1, <3>3, <4>2, <5>1 DEF LineOK
        <5> QED BY <3>3, <4>1, <5>2 DEF LineOK
      <4> QED BY <4>3, <4>4
    <3> QED BY <3>2, <3>3
  <2>8. PhonesOK'
    BY <1>3, PhonesStay DEF AccInv, SessionInv
  <2>9. OtpInv'
    BY <1>3, <2>4, <2>5, OtpStays DEF AccInv
  <2> QED BY <2>5, <2>7, <2>8, <2>9 DEF AccInv, SessionInv
<1> QED BY <1>1, <1>4, <1>5 DEF Logout

(* Steps of no call. *)
LEMMA OutsideKeeps ==
    ASSUME AccountsAssumption, AccInv,
           \/ Tick \/ (\E t \in TokenIds : TokenExpires(t)) \/ (\E u \in UserIds : Ban(u))
           \/ UNCHANGED accountVars
    PROVE  AccInv'
<1>0. TablesOK /\ RowsOK /\ BaseInv /\ LinesOK /\ PhonesOK /\ OtpInv
  BY TypesAre DEF AccInv, BaseInv, SessionInv
<1>1. /\ UNCHANGED <<api, challenge, challenges, codes, received, signIns, misses, contended, users,
                     tokens, forked, ended, turnedAway>>
      /\ clock' \in 0..MaxTime
  BY <1>0 DEF Tick, TokenExpires, Ban, accountVars, otp, otpHistory, people, sessions, TablesOK, AccountsAssumption
<1>2. /\ user' \in [UserIds -> User] /\ \A u \in 1..users : user'[u].phone = user[u].phone
  <2>1. 1..users \subseteq UserIds
    BY <1>0 DEF TablesOK, UserIds, AccountsAssumption
  <2>2. CASE user' = user
    BY <1>0, <2>2 DEF TablesOK
  <2>3. ASSUME NEW u \in UserIds, Ban(u)
        PROVE  user' \in [UserIds -> User] /\ \A v \in 1..users : user'[v].phone = user[v].phone
    <3>1. user[u] \in User /\ [user[u] EXCEPT !.banned = TRUE] \in User
      BY <1>0 DEF TablesOK, User
    <3> QED BY <1>0, <2>1, <2>3, <3>1 DEF Ban, TablesOK
  <2> QED BY <2>2, <2>3 DEF Tick, TokenExpires, accountVars, people
<1>3. /\ token' \in [TokenIds -> Token]
      /\ \A t \in 1..tokens : /\ token'[t].line = token[t].line /\ token'[t].user = token[t].user
                              /\ token'[t].revoked = token[t].revoked
  <2>1. 1..tokens \subseteq TokenIds
    BY <1>0 DEF TablesOK, TokenIds, AccountsAssumption
  <2>2. CASE token' = token
    BY <1>0, <2>2 DEF TablesOK
  <2>3. ASSUME NEW s \in TokenIds, TokenExpires(s)
        PROVE  /\ token' \in [TokenIds -> Token]
               /\ \A t \in 1..tokens : /\ token'[t].line = token[t].line /\ token'[t].user = token[t].user
                                       /\ token'[t].revoked = token[t].revoked
    <3>1. token[s] \in Token /\ [token[s] EXCEPT !.expired = TRUE] \in Token
      BY <1>0 DEF TablesOK, Token
    <3>2. token' \in [TokenIds -> Token]
      BY <1>0, <2>3, <3>1 DEF TokenExpires, TablesOK
    <3> QED BY <1>0, <2>1, <2>3, <3>2 DEF TokenExpires, TablesOK
  <2> QED BY <2>2, <2>3 DEF Tick, Ban, accountVars, sessions
<1>4. RowsStay /\ TablesOK' /\ RowsOK'
  <2>1. RowsStay
    BY <1>0, <1>1, <1>2, <1>3 DEF RowsStay, TablesOK, AccountsAssumption
  <2>2. TablesOK'
    BY <1>0, <1>1, <1>2, <1>3 DEF TablesOK
  <2> QED BY <1>0, <1>1, <1>3, <2>1, <2>2 DEF RowsOK
<1>5. BaseInv'
  <2>1. ASSUME NEW c \in AuthCalls PROVE Knows(api[c])'
    <3>1. PICK a : a = api[c]
      OBVIOUS
    <3>2. Knows(a)'
      BY <1>0, <1>4, <3>1, KnowsStays DEF BaseInv, CallsOK
    <3> QED BY <1>1, <3>1, <3>2 DEF Knows
  <2>2. CallsOK'
    BY <1>0, <1>1, <2>1 DEF BaseInv, CallsOK
  <2>3. \A c \in AuthCalls : api'[c] \in ApiCall
    BY <2>2 DEF CallsOK
  <2> QED BY <1>4, <2>2, <2>3 DEF BaseInv, AccountsTypeOK, TablesOK
<1>6. PhonesOK'
  BY <1>0, <1>1, <1>2, PhonesStay
<1>7. LinesOK'
  <2> SUFFICES ASSUME NEW line \in 1..tokens, line \notin forked PROVE LineOK(line)'
    BY <1>1 DEF LinesOK
  <2>1. Live(line)' = Live(line) /\ Exchanging(line)' = Exchanging(line)
    BY <1>1, <1>3 DEF Live, Exchanging
  <2> QED BY <1>0, <1>1, <1>3, <2>1, LineStays DEF LinesOK, Live
<1>8. OtpInv'
  BY <1>0, <1>1 DEF OtpInv, CodesOK, ChallengesOK, LatestOK, RowOK, Verifiers, CodeOf, Settled
<1> QED BY <1>5, <1>6, <1>7, <1>8 DEF AccInv, SessionInv

-----------------------------------------------------------------------------
(* One-time codes *)

(* What a call of OtpService never touches. *)
LEMMA OtpStep ==
    ASSUME AccountsAssumption, AccInv, NEW c \in AuthCalls, NEW a \in ApiCall, a.line = 0,
           api' = [api EXCEPT ![c] = a], RowsStay => Knows(a)',
           UNCHANGED <<received, user, users, token, tokens, forked, ended, turnedAway, clock>>,
           challenge' \in [ChallengeIds -> Challenge],
           challenges' \in 0..MaxChallenges, codes' \in 0..MaxCodes, challenges <= challenges', codes <= codes',
           \A i \in 1..challenges : challenge'[i].phone = challenge[i].phone,
           \A i \in 1..challenges' : challenge'[i].code \in 1..codes',
           signIns' \in [Codes -> Nat], misses' \in [Codes -> Nat]
    PROVE  BaseInv' /\ SessionInv' /\ GoesTo(c, a) /\ api'[c] = a
<1>1. TablesOK /\ RowsOK /\ BaseInv
  BY TypesAre DEF AccInv, BaseInv
<1>2. RowsStay
  BY <1>1 DEF RowsStay, TablesOK, AccountsAssumption
<1>3. TablesOK' /\ RowsOK'
  BY <1>1 DEF TablesOK, RowsOK
<1>4. BaseInv' /\ GoesTo(c, a)
  BY <1>1, <1>2, <1>3, BaseStays
<1>5. PhonesOK' /\ LinesOK'
  BY <1>1, <1>4, PhonesStay, LinesStay DEF AccInv, SessionInv
<1> QED BY <1>1, <1>4, <1>5 DEF SessionInv, BaseInv, CallsOK

(* A row that is new, or has a new code. *)
LEMMA WrittenRow ==
    ASSUME AccountsAssumption, AccInv, NEW c \in AuthCalls, api[c].at = "reqWrite",
           NEW i \in ChallengeIds, NEW row \in Challenge, row.code = codes + 1, row.attempts = 0,
           challenge' = [challenge EXCEPT ![i] = row], codes < MaxCodes, codes' = codes + 1,
           \/ i \in 1..challenges /\ challenges' = challenges /\ row.phone = challenge[i].phone
           \/ i = challenges + 1 /\ challenges' = challenges + 1,
           contended' \in {contended, contended \cup {i}},
           i \notin contended' =>
               /\ Verifiers(i) = {} /\ ~row.consumed
               /\ \A j \in 1..challenges : challenge[j].there /\ challenge[j].phone = row.phone => j <= i,
           api' = [api EXCEPT ![c].at = "reqSend", ![c].code = codes + 1],
           UNCHANGED <<received, signIns, misses, people, sessions, budget, turnedAway>>
    PROVE  AccInv'
<1>0. TablesOK /\ RowsOK /\ OtpInv /\ api \in [AuthCalls -> ApiCall] /\ api[c] \in ApiCall /\ Knows(api[c])
  BY TypesAre DEF AccInv, BaseInv, CallsOK
<1>1. PICK k, n : k = codes + 1 /\ n = challenges'
  OBVIOUS
<1>2. /\ codes \in Nat /\ k \in Nat /\ k \in 1..k /\ k \in 0..MaxCodes /\ k \in Codes /\ k > codes
      /\ challenges \in Nat /\ n \in Nat /\ n \in 0..MaxChallenges /\ challenges <= n
      /\ \A j \in 1..n : j = i \/ j \in 1..challenges
      /\ 1..challenges \subseteq ChallengeIds /\ 1..codes \subseteq 1..k /\ tokens \in Nat
  <2>1. /\ codes \in Nat /\ challenges \in Nat /\ tokens \in Nat /\ MaxCodes \in Nat /\ MaxChallenges \in Nat
        /\ challenges <= MaxChallenges
    BY <1>0 DEF TablesOK, AccountsAssumption
  <2>2. k \in Nat /\ k \in 1..k /\ k \in 0..MaxCodes /\ k \in Codes /\ k > codes /\ 1..codes \subseteq 1..k
    BY <1>1, <2>1 DEF Codes
  <2>3. 1..challenges \subseteq ChallengeIds
    BY <2>1 DEF ChallengeIds
  <2>4. CASE i \in 1..challenges /\ n = challenges
    BY <1>1, <2>1, <2>2, <2>3, <2>4
  <2>5. CASE i = challenges + 1 /\ n = challenges + 1
    <3>1. i \in 1..MaxChallenges
      BY DEF ChallengeIds
    <3> QED BY <2>1, <2>2, <2>3, <2>5, <3>1
  <2> QED BY <1>1, <2>4, <2>5
<1>3. PICK a : a = [api[c] EXCEPT !.at = "reqSend", !.code = k]
  OBVIOUS
<1>4. /\ a \in ApiCall /\ a.at = "reqSend" /\ a.code = k /\ a.line = 0 /\ api' = [api EXCEPT ![c] = a]
  <2>1. "reqSend" \in Stage /\ api[c].line = 0
    BY <1>0 DEF Stage, Knows, InSession
  <2>2. a \in ApiCall /\ a.line = api[c].line
    BY <1>0, <1>2, <1>3, <2>1 DEF ApiCall
  <2> QED BY <1>0, <1>1, <1>3, <2>1, <2>2 DEF ApiCall
<1>5. /\ challenge' \in [ChallengeIds -> Challenge] /\ challenge'[i] = row
      /\ \A j \in 1..challenges : j # i => challenge'[j] = challenge[j]
  BY <1>0, <1>2 DEF TablesOK
<1>6. /\ \A j \in 1..challenges : challenge'[j].phone = challenge[j].phone
      /\ \A j \in 1..n : challenge'[j].code \in 1..k
      /\ signIns' \in [Codes -> Nat] /\ misses' \in [Codes -> Nat]
  BY <1>0, <1>1, <1>2, <1>5 DEF RowsOK, TablesOK
<1>7. RowsStay => Knows(a)'
  <2>1. /\ a.at \notin WithNumber /\ a.at \notin WithToken /\ a.at \notin WithUser /\ a.at \notin Verifies
        /\ a.at \notin {"reqCount", "reqWrite", "verConsume", "phoneAgain", "refRevoke"}
    BY <1>4 DEF WithNumber, WithToken, WithUser, Verifies
  <2>2. codes' = k /\ tokens' = tokens /\ 0 \in 0..tokens
    BY <1>1, <1>2 DEF sessions
  <2> QED BY <1>2, <1>4, <2>1, <2>2 DEF Knows
<1>8. BaseInv' /\ SessionInv' /\ GoesTo(c, a) /\ api'[c] = a
  <2>1. /\ UNCHANGED <<received, user, users, token, tokens, forked, ended, turnedAway, clock>>
        /\ challenges' = n /\ codes' = k /\ codes <= k
    BY <1>1, <1>2 DEF people, sessions, budget
  <2>2. /\ challenges' \in 0..MaxChallenges /\ codes' \in 0..MaxCodes
        /\ challenges <= challenges' /\ codes <= codes'
    BY <1>2, <2>1
  <2>3. \A j \in 1..challenges' : challenge'[j].code \in 1..codes'
    BY <1>6, <2>1
  <2> QED BY ONLY AccountsAssumption, AccInv, c \in AuthCalls, <1>4, <1>5, <1>6, <1>7, <2>1, <2>2, <2>3, OtpStep
<1>9. \A d \in AuthCalls : api'[d].at \in Verifies => api'[d] = api[d]
  BY <1>4, <1>8 DEF GoesTo, Verifies
<1>10. CodesOK'
  <2>1. ASSUME NEW j \in 1..n, NEW l \in 1..n, challenge'[j].code = challenge'[l].code PROVE j = l
    BY <1>0, <1>1, <1>2, <1>5, <2>1 DEF RowsOK, OtpInv, CodesOK, CodeOf
  <2>2. ASSUME NEW d \in AuthCalls, NEW j \in 1..n, api'[d].at \in Verifies, api'[d].since = challenge'[j].code
        PROVE  api'[d].row = j
    <3>1. api'[d] = api[d] /\ api[d].since \in 1..codes
      BY <1>9, <2>2 DEF AccInv, BaseInv, CallsOK, Knows
    <3>2. j # i
      BY <1>1, <1>2, <1>5, <2>2, <3>1
    <3>3. j \in 1..challenges /\ api[d].since = CodeOf(j)
      BY <1>2, <1>5, <2>2, <3>1, <3>2 DEF CodeOf
    <3> QED BY <1>0, <2>2, <3>1, <3>3 DEF OtpInv, CodesOK
  <2>3. \A m \in Codes : m > k => signIns[m] = 0 /\ misses[m] = 0
    BY <1>0, <1>1, <1>2 DEF OtpInv, CodesOK, Codes
  <2> QED BY <1>1, <2>1, <2>2, <2>3 DEF CodesOK, CodeOf
<1>11. ChallengesOK'
  <2> SUFFICES ASSUME NEW j \in 1..n, j \notin contended' PROVE RowOK(j)'
    BY <1>1 DEF ChallengesOK, Settled
  <2>1. \A d \in Verifiers(j)' : d \in Verifiers(j) /\ api'[d] = api[d]
    BY <1>9 DEF Verifiers
  <2>2. CASE j = i
    <3>1. challenge'[j] = row /\ misses[k] = 0 /\ signIns[k] = 0 /\ Verifiers(j)' = {} /\ row.consumed = FALSE
      BY <1>0, <1>2, <1>5, <2>1, <2>2 DEF OtpInv, CodesOK, Challenge
    <3> QED BY <1>1, <3>1 DEF RowOK, CodeOf, AccountsAssumption
  <2>3. CASE j # i
    <3>1. RowOK(j) /\ challenge'[j] = challenge[j]
      BY <1>0, <1>2, <1>5, <2>3 DEF OtpInv, ChallengesOK, Settled
    <3> QED BY <2>1, <3>1 DEF RowOK, CodeOf
  <2> QED BY <2>2, <2>3
<1>12. LatestOK'
  <2> SUFFICES ASSUME NEW j \in 1..n, NEW l \in 1..n, challenge'[j].code = k, j \notin contended', l > j,
                      challenge'[l].phone = challenge'[j].phone
               PROVE  ~challenge'[l].there
    BY <1>1 DEF LatestOK, CodeOf, Settled
  <2>1. j = i
    BY <1>0, <1>2, <1>5 DEF RowsOK
  <2>2. l \in 1..challenges /\ l # i
    BY <1>2, <2>1
  <2> QED BY <1>2, <1>5, <2>1, <2>2
<1> QED BY <1>8, <1>10, <1>11, <1>12 DEF AccInv, OtpInv

LEMMA WriteKeeps ==
    ASSUME AccountsAssumption, AccInv, NEW c \in AuthCalls, WriteChallenge(c)
    PROVE  AccInv'
<1>0. TablesOK /\ RowsOK /\ api \in [AuthCalls -> ApiCall] /\ api[c] \in ApiCall /\ Knows(api[c])
  BY TypesAre DEF AccInv, BaseInv, CallsOK
<1>1. PICK i, p : i = api[c].row /\ p = api[c].phone
  OBVIOUS
<1>2. /\ api[c].at = "reqWrite" /\ p \in Phones /\ api[c].since \in Nat
      /\ i = 0 \/ (i \in 1..challenges /\ challenge[i].phone = p)
  BY <1>0, <1>1 DEF WriteChallenge, Stands, Knows, WithNumber, ApiCall
<1>3. /\ codes \in Nat /\ challenges \in Nat /\ MaxCodes \in Nat /\ MaxChallenges \in Nat /\ clock \in Nat
      /\ challenges <= MaxChallenges /\ Ttl \in Nat
  BY <1>0 DEF TablesOK, AccountsAssumption
<1>4. UNCHANGED <<received, signIns, misses, people, sessions, budget, turnedAway>>
  BY DEF WriteChallenge
<1>5. CASE i # 0 /\ ~challenge[i].there
  BY <1>0, <1>1, <1>4, <1>5, AnswerKeeps
     DEF WriteChallenge, Still, Tables, people, sessions, budget, TablesOK
<1>6. CASE ~(i # 0 /\ ~challenge[i].there)
  <2>1. /\ codes < MaxCodes /\ codes' = codes + 1 /\ codes + 1 \in 0..MaxCodes
        /\ api' = [api EXCEPT ![c].at = "reqSend", ![c].code = codes + 1]
    BY <1>1, <1>3, <1>6 DEF WriteChallenge
  <2>2. CASE i = 0
    <3>1. PICK row, n : /\ n = challenges + 1
                        /\ row = [there |-> TRUE, phone |-> p, code |-> codes + 1, attempts |-> 0, resends |-> 0,
                                  sentAt |-> clock, expires |-> api[c].since + Ttl, consumed |-> FALSE]
      OBVIOUS
    <3>2. CreateChallenge(c)
      BY <1>1, <2>2 DEF WriteChallenge
    <3>3. /\ challenges < MaxChallenges /\ challenges' = n /\ contended' = contended
          /\ challenge' = [challenge EXCEPT ![n] = row]
      BY <1>1, <3>1, <3>2 DEF CreateChallenge
    <3>4. n \in ChallengeIds /\ \A j \in 1..challenges : j <= n
      BY <1>3, <3>1, <3>3 DEF ChallengeIds
    <3>5. row \in Challenge /\ row.code = codes + 1 /\ row.attempts = 0 /\ ~row.consumed
      <4>1. api[c].since + Ttl \in Nat /\ 0 \in Nat
        BY <1>2, <1>3
      <4> QED BY <1>2, <1>3, <2>1, <3>1, <4>1 DEF Challenge
    <3>6. Verifiers(n) = {}
      BY <1>3, <3>1 DEF Verifiers, AccInv, BaseInv, CallsOK, Knows
    <3> QED BY <1>2, <1>4, <2>1, <3>1, <3>3, <3>4, <3>5, <3>6, WrittenRow
  <2>3. CASE i \in 1..challenges /\ challenge[i].there
    <3>1. PICK row : row = [challenge[i] EXCEPT !.code = codes + 1, !.attempts = 0, !.resends = @ + 1,
                                                !.sentAt = api[c].since, !.expires = api[c].since + Ttl]
      OBVIOUS
    <3>2. RefreshChallenge(c, i)
      BY <1>1, <1>3, <2>3 DEF WriteChallenge
    <3>3. i \in ChallengeIds /\ challenge[i] \in Challenge
      BY <1>0, <1>3, <2>3 DEF ChallengeIds, TablesOK
    <3>4. /\ challenges' = challenges /\ challenge' = [challenge EXCEPT ![i] = row]
          /\ contended' = IF Verifying(i) \/ challenge[i].consumed \/ i # Newest(ChallengesOf(p))
                          THEN contended \cup {i} ELSE contended
      <4>1. challenge' = [challenge EXCEPT ![i] = row]
        BY <1>0, <3>1, <3>2, <3>3 DEF RefreshChallenge, TablesOK
      <4> QED BY <1>1, <3>2, <4>1 DEF RefreshChallenge
    <3>5. /\ row \in Challenge /\ row.code = codes + 1 /\ row.attempts = 0
          /\ row.phone = p /\ row.consumed = challenge[i].consumed
      <4>1. PICK k, r, s, e : /\ k = codes + 1 /\ r = challenge[i].resends + 1
                              /\ s = api[c].since /\ e = api[c].since + Ttl
        OBVIOUS
      <4>2. challenge[i].resends \in Nat
        BY <3>3 DEF Challenge
      <4>3. k \in 0..MaxCodes /\ r \in Nat /\ s \in Nat /\ e \in Nat /\ 0 \in Nat
        BY <1>2, <1>3, <2>1, <4>1, <4>2
      <4>4. row = [challenge[i] EXCEPT !.code = k, !.attempts = 0, !.resends = r, !.sentAt = s, !.expires = e]
        BY <3>1, <4>1
      <4>5. /\ row \in Challenge /\ row.code = k /\ row.attempts = 0
            /\ row.phone = challenge[i].phone /\ row.consumed = challenge[i].consumed
        BY ONLY <3>3, <4>3, <4>4 DEF Challenge
      <4>6. challenge[i].phone = p
        BY <1>2, <1>3, <2>3
      <4> QED BY <4>1, <4>5, <4>6
    <3>6. ASSUME i \notin contended'
          PROVE  /\ Verifiers(i) = {} /\ ~row.consumed
                 /\ \A j \in 1..challenges : challenge[j].there /\ challenge[j].phone = row.phone => j <= i
      <4>1. ~Verifying(i) /\ ~challenge[i].consumed /\ i = Newest(ChallengesOf(p))
        BY <3>4, <3>6
      <4>2. i \in ChallengesOf(p) /\ ChallengesOf(p) \subseteq 1..challenges
        BY <1>2, <1>3, <2>3 DEF ChallengesOf
      <4>3. \A j \in ChallengesOf(p) : j <= i
        BY <1>3, <4>1, <4>2, NewestIs
      <4> QED BY <3>5, <4>1, <4>3 DEF Verifying, Verifiers, Verifies, ChallengesOf
    <3>7. contended' \in {contended, contended \cup {i}}
      BY <3>4
    <3>8. row.phone = challenge[i].phone
      BY <1>2, <1>3, <2>3, <3>5
    <3> QED BY ONLY AccountsAssumption, AccInv, c \in AuthCalls, <1>2, <1>4, <2>1, <2>3, <3>3, <3>4, <3>5, <3>6,
                    <3>7, <3>8, WrittenRow
  <2> QED BY <1>2, <1>3, <1>6, <2>2, <2>3
<1> QED BY <1>5, <1>6

LEMMA FindForVerifyKeeps ==
    ASSUME AccountsAssumption, AccInv, NEW c \in AuthCalls, FindForVerify(c)
    PROVE  AccInv'
<1>0. TablesOK /\ RowsOK /\ OtpInv /\ api \in [AuthCalls -> ApiCall] /\ api[c] \in ApiCall /\ Knows(api[c])
  BY TypesAre DEF AccInv, BaseInv, CallsOK
<1>1. PICK i, p : p = api[c].phone /\ i = Newest(Unconsumed(p))
  OBVIOUS
<1>2. api[c].at = "verFind" /\ p \in Phones /\ VerifyRow(c, i)
  BY <1>0, <1>1 DEF FindForVerify, VerifyRow, Stands, Knows, WithNumber
<1>3. UNCHANGED <<otp, signIns, misses, people, sessions, budget, turnedAway>>
  BY <1>2 DEF VerifyRow
<1>4. CASE i = 0 \/ challenge[i].expires < clock \/ challenge[i].attempts >= MaxAttempts
  BY <1>0, <1>2, <1>3, <1>4, AnswerKeeps
     DEF VerifyRow, Still, Tables, otp, people, sessions, budget, TablesOK
<1>5. CASE ~(i = 0 \/ challenge[i].expires < clock \/ challenge[i].attempts >= MaxAttempts)
  <2>1. /\ Compare(c, i)
        /\ contended' = IF Verifying(i) \/ Requesting(i) THEN contended \cup {i} ELSE contended
    BY <1>2, <1>5 DEF VerifyRow
  <2>2. /\ challenges \in Nat /\ codes \in Nat /\ MaxChallenges \in Nat /\ challenges <= MaxChallenges
        /\ MaxAttempts \in Nat /\ tokens \in Nat
    BY <1>0 DEF TablesOK, AccountsAssumption
  <2>3. i \in 1..challenges /\ ~challenge[i].consumed /\ i \in ChallengeIds /\ i \in 0..MaxChallenges
    <3>1. Unconsumed(p) \subseteq 1..challenges
      BY DEF Unconsumed, ChallengesOf
    <3>2. i \in Unconsumed(p)
      BY <1>1, <1>5, <2>2, <3>1, NewestIs
    <3>3. i \in 1..challenges /\ ~challenge[i].consumed
      BY <3>1, <3>2 DEF Unconsumed
    <3> QED BY <2>2, <3>3 DEF ChallengeIds
  <2>4. PICK at, tried, k : /\ k = challenge[i].code /\ tried = challenge[i].attempts
                            /\ at = IF api[c].code = k THEN "verConsume" ELSE "verMiss"
    OBVIOUS
  <2>5. tried \in Nat /\ tried < MaxAttempts /\ k \in 1..codes /\ k \in Nat /\ at \in Verifies /\ at \in Stage
    <3>1. tried \in Nat
      BY <1>0, <2>3, <2>4 DEF TablesOK, Challenge
    <3>2. k \in 1..codes
      BY <1>0, <2>3, <2>4 DEF RowsOK
    <3> QED BY <1>5, <2>2, <2>4, <3>1, <3>2 DEF Verifies, Stage
  <2>6. PICK a : a = [api[c] EXCEPT !.row = i, !.attempts = tried, !.since = k, !.at = at]
    OBVIOUS
  <2>7. /\ a \in ApiCall /\ a.at = at /\ a.row = i /\ a.attempts = tried /\ a.since = k
        /\ a.phone = p /\ a.code = api[c].code /\ a.line = api[c].line
    BY <1>0, <1>1, <2>3, <2>5, <2>6 DEF ApiCall
  <2>8. api' = [api EXCEPT ![c] = a]
    BY <1>0, <2>1, <2>4, <2>6 DEF Compare
  <2>9. a.line = 0 /\ Knows(a)
    <3>1. a.line = 0 /\ 0 \in 0..tokens
      BY <1>0, <1>2, <2>2, <2>7 DEF Knows, InSession
    <3>2. /\ a.at \notin WithUser /\ a.at \notin WithToken /\ a.at \notin InSession
          /\ a.at \notin {"reqCount", "reqWrite", "reqSend", "phoneAgain", "refRevoke"}
      BY <2>5, <2>7 DEF WithUser, WithToken, InSession, Verifies
    <3>3. a.at = "verConsume" => a.code = a.since
      BY <2>4, <2>7
    <3> QED BY <1>2, <2>3, <2>5, <2>7, <3>1, <3>2, <3>3 DEF Knows
  <2>10. /\ UNCHANGED <<received, user, users, token, tokens, forked, ended, turnedAway, clock>>
         /\ UNCHANGED <<challenge, challenges, codes, signIns, misses>>
    BY <1>3 DEF otp, people, sessions, budget
  <2>11. RowsStay => Knows(a)'
    BY <2>7, <2>9, KnowsStays
  <2>12. BaseInv' /\ SessionInv' /\ GoesTo(c, a) /\ api'[c] = a
    <3>1. \A j \in 1..challenges' : challenge'[j].code \in 1..codes'
      BY <1>0, <2>10 DEF RowsOK
    <3>2. /\ challenge' \in [ChallengeIds -> Challenge] /\ challenges' \in 0..MaxChallenges /\ codes' \in 0..MaxCodes
          /\ challenges <= challenges' /\ codes <= codes'
          /\ signIns' \in [Codes -> Nat] /\ misses' \in [Codes -> Nat]
          /\ \A j \in 1..challenges : challenge'[j].phone = challenge[j].phone
      BY <1>0, <2>2, <2>10 DEF TablesOK
    <3> QED BY ONLY AccountsAssumption, AccInv, c \in AuthCalls, <2>7, <2>8, <2>9, <2>10, <2>11, <3>1, <3>2, OtpStep
  <2>13. CodesOK'
    <3>1. ASSUME NEW d \in AuthCalls, NEW j \in 1..challenges, api'[d].at \in Verifies,
                 api'[d].since = CodeOf(j)
          PROVE  api'[d].row = j
      <4>1. CASE d = c
        <5>1. CodeOf(i) = CodeOf(j)
          BY <2>4, <2>7, <2>12, <3>1, <4>1 DEF CodeOf
        <5> QED BY <1>0, <2>3, <2>7, <2>12, <4>1, <5>1 DEF OtpInv, CodesOK
      <4>2. CASE d # c
        BY <1>0, <2>12, <3>1, <4>2 DEF OtpInv, CodesOK, GoesTo
      <4> QED BY <4>1, <4>2
    <3> QED BY <1>0, <2>10, <3>1 DEF OtpInv, CodesOK, CodeOf
  <2>14. ChallengesOK'
    <3> SUFFICES ASSUME NEW j \in 1..challenges, j \notin contended' PROVE RowOK(j)'
      BY <2>10 DEF ChallengesOK, Settled
    <3>1. RowOK(j) /\ j \notin contended
      BY <1>0, <2>1 DEF OtpInv, ChallengesOK, Settled
    <3>2. CASE j = i
      <4>1. Verifiers(i) = {}
        BY <2>1, <3>2 DEF Verifying, Verifiers, Verifies
      <4>2. \A d \in Verifiers(i)' : d = c
        BY <2>12, <4>1 DEF Verifiers, GoesTo
      <4>3. api'[c].since = CodeOf(i) /\ api'[c].attempts = challenge[i].attempts
        BY <2>4, <2>7, <2>12 DEF CodeOf
      <4> QED BY <2>3, <2>4, <2>5, <2>10, <3>1, <3>2, <4>2, <4>3 DEF RowOK, CodeOf
    <3>3. CASE j # i
      <4>1. \A d \in Verifiers(j)' : d \in Verifiers(j) /\ api'[d] = api[d]
        BY <2>7, <2>12, <3>3 DEF Verifiers, GoesTo
      <4> QED BY <2>10, <3>1, <4>1 DEF RowOK, CodeOf
    <3> QED BY <3>2, <3>3
  <2>15. LatestOK'
    BY <1>0, <2>1, <2>10 DEF OtpInv, LatestOK, CodeOf, Settled
  <2> QED BY <2>12, <2>13, <2>14, <2>15 DEF AccInv, OtpInv
<1> QED BY <1>4, <1>5

(* Row i keeps its code and its number while c stops verifying. *)
LEMMA RowEdit ==
    ASSUME AccountsAssumption, AccInv, NEW c \in AuthCalls, NEW a \in ApiCall, Knows(a), a.line = 0,
           a.at \notin Verifies, api' = [api EXCEPT ![c] = a],
           UNCHANGED <<received, user, users, token, tokens, forked, ended, turnedAway, clock,
                       challenges, codes, contended>>,
           challenge' \in [ChallengeIds -> Challenge],
           \A i \in 1..challenges : /\ challenge'[i].phone = challenge[i].phone
                                    /\ challenge'[i].code = challenge[i].code
                                    /\ challenge'[i].there => challenge[i].there,
           signIns' \in [Codes -> Nat], misses' \in [Codes -> Nat],
           \A k \in Codes : k > codes => signIns'[k] = signIns[k] /\ misses'[k] = misses[k]
    PROVE  /\ BaseInv' /\ SessionInv' /\ CodesOK' /\ LatestOK'
           /\ \A i \in 1..challenges : \A d \in Verifiers(i)' : d # c /\ d \in Verifiers(i) /\ api'[d] = api[d]
<1>0. TablesOK /\ RowsOK /\ OtpInv
  BY TypesAre DEF AccInv, BaseInv
<1>1. /\ challenges' \in 0..MaxChallenges /\ codes' \in 0..MaxCodes /\ challenges <= challenges' /\ codes <= codes'
      /\ \A i \in 1..challenges' : challenge'[i].code \in 1..codes'
  BY <1>0 DEF TablesOK, RowsOK, AccountsAssumption
<1>2. RowsStay => Knows(a)'
  BY KnowsStays
<1>3. BaseInv' /\ SessionInv' /\ GoesTo(c, a) /\ api'[c] = a
  BY <1>1, <1>2, OtpStep
<1>4. \A d \in AuthCalls : api'[d].at \in Verifies => d # c /\ api'[d] = api[d]
  BY <1>3 DEF GoesTo
<1>5. CodesOK'
  <2>1. \A i, j \in 1..challenges : challenge'[i].code = challenge'[j].code => i = j
    BY <1>0 DEF OtpInv, CodesOK, CodeOf
  <2>2. \A d \in AuthCalls, i \in 1..challenges :
           api'[d].at \in Verifies /\ api'[d].since = challenge'[i].code => api'[d].row = i
    BY <1>0, <1>4 DEF OtpInv, CodesOK, CodeOf
  <2>3. \A k \in Codes : k > codes => signIns'[k] = 0 /\ misses'[k] = 0
    BY <1>0 DEF OtpInv, CodesOK
  <2> QED BY <2>1, <2>2, <2>3 DEF CodesOK, CodeOf
<1>6. LatestOK'
  <2> SUFFICES ASSUME NEW i \in 1..challenges, NEW j \in 1..challenges, challenge'[i].code = codes, challenge'[i].there,
                      i \notin contended, j > i, challenge'[j].phone = challenge'[i].phone
               PROVE  ~challenge'[j].there
    BY DEF LatestOK, CodeOf, Settled
  <2>1. challenge[i].code = codes /\ challenge[i].there /\ challenge[j].phone = challenge[i].phone
    OBVIOUS
  <2> QED BY <1>0, <2>1 DEF OtpInv, LatestOK, CodeOf, Settled
<1> QED BY <1>3, <1>4, <1>5, <1>6 DEF Verifiers

LEMMA CountMissKeeps ==
    ASSUME AccountsAssumption, AccInv, NEW c \in AuthCalls, CountMiss(c)
    PROVE  AccInv'
<1>0. TablesOK /\ RowsOK /\ OtpInv /\ api \in [AuthCalls -> ApiCall] /\ api[c] \in ApiCall /\ Knows(api[c])
  BY TypesAre DEF AccInv, BaseInv, CallsOK
<1>1. PICK i, k, n, a : i = api[c].row /\ k = api[c].since /\ n = api[c].attempts + 1 /\ a = Quiet
  OBVIOUS
<1>2. /\ api[c].at \in Verifies /\ i \in 1..challenges /\ k \in 1..codes /\ c \in Verifiers(i)
      /\ api[c].attempts \in Nat /\ n \in Nat
  BY <1>0, <1>1 DEF CountMiss, Stands, Knows, Verifies, Verifiers, ApiCall
<1>3. i \in ChallengeIds /\ 1..challenges \subseteq ChallengeIds /\ k \in Codes /\ k <= codes /\ tokens \in Nat
  BY <1>0, <1>2 DEF TablesOK, ChallengeIds, Codes, AccountsAssumption
<1>4. /\ challenge' = [challenge EXCEPT ![i].attempts = n] /\ misses' = [misses EXCEPT ![k] = @ + 1]
      /\ api' = [api EXCEPT ![c] = a]
      /\ UNCHANGED <<received, user, users, token, tokens, forked, ended, turnedAway, clock,
                     challenges, codes, contended, signIns>>
  BY <1>1 DEF CountMiss, SayIncorrect, Answer, people, sessions, budget
<1>5. /\ challenge' \in [ChallengeIds -> Challenge]
      /\ challenge'[i].attempts = n /\ challenge'[i].consumed = challenge[i].consumed
      /\ \A j \in 1..challenges : /\ challenge'[j].phone = challenge[j].phone /\ challenge'[j].code = challenge[j].code
                                  /\ challenge'[j].there = challenge[j].there
                                  /\ j # i => challenge'[j] = challenge[j]
  <2>1. \A j \in ChallengeIds : challenge[j] \in Challenge
    BY <1>0 DEF TablesOK
  <2> QED BY <1>0, <1>2, <1>3, <1>4, <2>1 DEF TablesOK, Challenge
<1>6. /\ misses' \in [Codes -> Nat] /\ misses'[k] = misses[k] + 1
      /\ \A m \in Codes : m # k => misses'[m] = misses[m]
  BY <1>0, <1>3, <1>4 DEF TablesOK
<1>7. Knows(a) /\ a \in ApiCall /\ a.line = 0 /\ a.at \notin Verifies
  BY <1>1, <1>3, QuietKnows
<1>8. \A m \in Codes : m > codes => signIns'[m] = signIns[m] /\ misses'[m] = misses[m]
  <2>1. codes \in Nat
    BY <1>0 DEF TablesOK
  <2> QED BY <1>3, <1>4, <1>6, <2>1 DEF Codes
<1>9. signIns' \in [Codes -> Nat]
  BY <1>0, <1>4 DEF TablesOK
<1>10. /\ BaseInv' /\ SessionInv' /\ CodesOK' /\ LatestOK'
       /\ \A j \in 1..challenges : \A d \in Verifiers(j)' : d # c /\ d \in Verifiers(j) /\ api'[d] = api[d]
  BY <1>4, <1>5, <1>6, <1>7, <1>8, <1>9, RowEdit
<1>11. ChallengesOK'
  <2> SUFFICES ASSUME NEW j \in 1..challenges, j \notin contended PROVE RowOK(j)'
    BY <1>4 DEF ChallengesOK, Settled
  <2>1. RowOK(j)
    BY <1>0 DEF OtpInv, ChallengesOK, Settled
  <2>2. CASE j = i
    <3>1. /\ challenge[i].code = k /\ misses[k] = challenge[i].attempts /\ api[c].attempts = challenge[i].attempts
          /\ challenge[i].attempts < MaxAttempts
      BY <1>1, <1>2, <2>1, <2>2 DEF RowOK, CodeOf
    <3>2. Verifiers(i)' = {}
      BY <1>2, <1>10, <2>1, <2>2 DEF RowOK
    <3>3. challenge'[i].code = k /\ misses'[k] = challenge'[i].attempts /\ challenge'[i].attempts <= MaxAttempts
      BY <1>1, <1>2, <1>5, <1>6, <3>1 DEF AccountsAssumption
    <3> QED BY <1>4, <1>5, <2>1, <2>2, <3>1, <3>2, <3>3 DEF RowOK, CodeOf
  <2>3. CASE j # i
    <3>1. challenge[j].code # k /\ challenge[j].code \in Codes
      <4>1. challenge[j].code # k
        BY <1>0, <1>1, <1>2, <2>3 DEF OtpInv, CodesOK, CodeOf
      <4> QED BY <1>0, <4>1 DEF RowsOK, Codes, TablesOK, AccountsAssumption
    <3>2. challenge'[j] = challenge[j] /\ misses'[challenge[j].code] = misses[challenge[j].code]
      BY <1>5, <1>6, <2>3, <3>1
    <3> QED BY <1>4, <1>10, <2>1, <3>2 DEF RowOK, CodeOf
  <2> QED BY <2>2, <2>3
<1> QED BY <1>10, <1>11 DEF AccInv, OtpInv

LEMMA ConsumeKeeps ==
    ASSUME AccountsAssumption, AccInv, NEW c \in AuthCalls, Consume(c)
    PROVE  AccInv'
<1>0. TablesOK /\ RowsOK /\ OtpInv /\ api \in [AuthCalls -> ApiCall] /\ api[c] \in ApiCall /\ Knows(api[c])
  BY TypesAre DEF AccInv, BaseInv, CallsOK
<1>1. PICK i, k, a : i = api[c].row /\ k = api[c].code /\ a = [api[c] EXCEPT !.at = "verCleanup"]
  OBVIOUS
<1>2. /\ api[c].at = "verConsume" /\ i \in 1..challenges /\ k \in 1..codes /\ c \in Verifiers(i)
      /\ api[c].since = k /\ api[c].line = 0 /\ api[c].phone \in Phones
  BY <1>0, <1>1 DEF Consume, Stands, Knows, Verifies, Verifiers, InSession, WithNumber
<1>3. i \in ChallengeIds /\ 1..challenges \subseteq ChallengeIds /\ k \in Codes /\ k <= codes /\ tokens \in Nat
  BY <1>0, <1>2 DEF TablesOK, ChallengeIds, Codes, AccountsAssumption
<1>4. /\ challenge' = [challenge EXCEPT ![i].consumed = TRUE] /\ signIns' = [signIns EXCEPT ![k] = @ + 1]
      /\ api' = [api EXCEPT ![c] = a]
      /\ UNCHANGED <<received, user, users, token, tokens, forked, ended, turnedAway, clock,
                     challenges, codes, contended, misses>>
  BY <1>0, <1>1 DEF Consume, Move, people, sessions, budget
<1>5. /\ challenge' \in [ChallengeIds -> Challenge]
      /\ challenge'[i].consumed = TRUE /\ challenge'[i].attempts = challenge[i].attempts
      /\ \A j \in 1..challenges : /\ challenge'[j].phone = challenge[j].phone /\ challenge'[j].code = challenge[j].code
                                  /\ challenge'[j].there = challenge[j].there
                                  /\ j # i => challenge'[j] = challenge[j]
  <2>1. \A j \in ChallengeIds : challenge[j] \in Challenge
    BY <1>0 DEF TablesOK
  <2> QED BY <1>0, <1>2, <1>3, <1>4, <2>1 DEF TablesOK, Challenge
<1>6. /\ signIns' \in [Codes -> Nat] /\ signIns'[k] = signIns[k] + 1
      /\ \A m \in Codes : m # k => signIns'[m] = signIns[m]
  BY <1>0, <1>3, <1>4 DEF TablesOK
<1>7. Knows(a) /\ a \in ApiCall /\ a.line = 0 /\ a.at \notin Verifies
  <2>1. "verCleanup" \in Stage
    BY DEF Stage
  <2>2. a \in ApiCall /\ a.at = "verCleanup" /\ a.phone = api[c].phone /\ a.line = 0
    BY <1>0, <1>1, <1>2, <2>1, MovedCall
  <2> QED BY <1>2, <1>3, <2>2 DEF Knows, WithNumber, WithUser, WithToken, Verifies, InSession
<1>8. \A m \in Codes : m > codes => signIns'[m] = signIns[m] /\ misses'[m] = misses[m]
  <2>1. codes \in Nat
    BY <1>0 DEF TablesOK
  <2> QED BY <1>3, <1>4, <1>6, <2>1 DEF Codes
<1>9. misses' \in [Codes -> Nat]
  BY <1>0, <1>4 DEF TablesOK
<1>10. /\ BaseInv' /\ SessionInv' /\ CodesOK' /\ LatestOK'
       /\ \A j \in 1..challenges : \A d \in Verifiers(j)' : d # c /\ d \in Verifiers(j) /\ api'[d] = api[d]
  BY <1>4, <1>5, <1>6, <1>7, <1>8, <1>9, RowEdit
<1>11. ChallengesOK'
  <2> SUFFICES ASSUME NEW j \in 1..challenges, j \notin contended PROVE RowOK(j)'
    BY <1>4 DEF ChallengesOK, Settled
  <2>1. RowOK(j)
    BY <1>0 DEF OtpInv, ChallengesOK, Settled
  <2>2. CASE j = i
    <3>1. challenge[i].code = k /\ ~challenge[i].consumed
      BY <1>2, <2>1, <2>2 DEF RowOK, CodeOf
    <3>2. Verifiers(i)' = {}
      BY <1>2, <1>10, <2>1, <2>2 DEF RowOK
    <3>3. signIns'[k] = 1
      BY <1>6, <2>1, <2>2, <3>1 DEF RowOK, CodeOf
    <3>4. misses'[k] = challenge'[i].attempts /\ challenge'[i].attempts <= MaxAttempts /\ challenge'[i].code = k
      BY <1>2, <1>4, <1>5, <2>1, <2>2, <3>1 DEF RowOK, CodeOf
    <3> QED BY <1>5, <2>2, <3>2, <3>3, <3>4 DEF RowOK, CodeOf
  <2>3. CASE j # i
    <3>1. challenge[j].code # k /\ challenge[j].code \in Codes
      <4>1. api[c].at \in Verifies
        BY <1>2 DEF Verifies
      <4>2. challenge[j].code # k
        BY <1>0, <1>1, <1>2, <2>3, <4>1 DEF OtpInv, CodesOK, CodeOf
      <4> QED BY <1>0, <4>2 DEF RowsOK, Codes, TablesOK, AccountsAssumption
    <3>2. challenge'[j] = challenge[j] /\ signIns'[challenge[j].code] = signIns[challenge[j].code]
      BY <1>5, <1>6, <2>3, <3>1
    <3> QED BY <1>4, <1>10, <2>1, <3>2 DEF RowOK, CodeOf
  <2> QED BY <2>2, <2>3
<1> QED BY <1>10, <1>11 DEF AccInv, OtpInv

LEMMA CleanupKeeps ==
    ASSUME AccountsAssumption, AccInv, NEW c \in AuthCalls, Cleanup(c)
    PROVE  AccInv'
<1>0. TablesOK /\ RowsOK /\ OtpInv /\ api \in [AuthCalls -> ApiCall] /\ api[c] \in ApiCall /\ Knows(api[c])
  BY TypesAre DEF AccInv, BaseInv, CallsOK
<1>1. PICK a : a = [api[c] EXCEPT !.at = "phoneFind"]
  OBVIOUS
<1>2. api[c].at = "verCleanup" /\ api[c].line = 0 /\ api[c].phone \in Phones
  BY <1>0 DEF Cleanup, Stands, Knows, InSession, WithNumber
<1>3. 1..challenges \subseteq ChallengeIds /\ tokens \in Nat
  BY <1>0 DEF TablesOK, ChallengeIds, AccountsAssumption
<1>4. /\ api' = [api EXCEPT ![c] = a]
      /\ UNCHANGED <<received, user, users, token, tokens, forked, ended, turnedAway, clock,
                     challenges, codes, contended, signIns, misses>>
  BY <1>0, <1>1 DEF Cleanup, Move, otpHistory, people, sessions, budget
<1>5. /\ challenge' \in [ChallengeIds -> Challenge]
      /\ \A j \in ChallengeIds : challenge'[j] \in {challenge[j], [challenge[j] EXCEPT !.there = FALSE]}
  <2>1. \A j \in ChallengeIds : challenge[j] \in Challenge /\ [challenge[j] EXCEPT !.there = FALSE] \in Challenge
    BY <1>0 DEF TablesOK, Challenge
  <2>2. CASE challenge' = challenge
    BY <1>0, <2>2 DEF TablesOK
  <2>3. ASSUME NEW S,
               challenge' = [j \in ChallengeIds |-> IF j \in S THEN [challenge[j] EXCEPT !.there = FALSE]
                                                    ELSE challenge[j]]
        PROVE  /\ challenge' \in [ChallengeIds -> Challenge]
               /\ \A j \in ChallengeIds : challenge'[j] \in {challenge[j], [challenge[j] EXCEPT !.there = FALSE]}
    BY <2>1, <2>3
  <2> QED BY <2>2, <2>3 DEF Cleanup
<1>6. \A j \in 1..challenges : /\ challenge'[j].phone = challenge[j].phone /\ challenge'[j].code = challenge[j].code
                               /\ challenge'[j].there => challenge[j].there
                               /\ challenge'[j].attempts = challenge[j].attempts
                               /\ challenge'[j].consumed = challenge[j].consumed
  <2> SUFFICES ASSUME NEW j \in 1..challenges
               PROVE  /\ challenge'[j].phone = challenge[j].phone /\ challenge'[j].code = challenge[j].code
                      /\ challenge'[j].there => challenge[j].there
                      /\ challenge'[j].attempts = challenge[j].attempts
                      /\ challenge'[j].consumed = challenge[j].consumed
    OBVIOUS
  <2>1. challenge[j] \in Challenge /\ challenge'[j] \in {challenge[j], [challenge[j] EXCEPT !.there = FALSE]}
    BY <1>0, <1>3, <1>5 DEF TablesOK
  <2> QED BY <2>1 DEF Challenge
<1>7. Knows(a) /\ a \in ApiCall /\ a.line = 0 /\ a.at \notin Verifies
  <2>1. "phoneFind" \in Stage
    BY DEF Stage
  <2>2. a \in ApiCall /\ a.at = "phoneFind" /\ a.phone = api[c].phone /\ a.line = 0
    BY <1>0, <1>1, <1>2, <2>1, MovedCall
  <2> QED BY <1>2, <1>3, <2>2 DEF Knows, WithNumber, WithUser, WithToken, Verifies, InSession
<1>8. signIns' \in [Codes -> Nat] /\ misses' \in [Codes -> Nat]
  BY <1>0, <1>4 DEF TablesOK
<1>9. /\ BaseInv' /\ SessionInv' /\ CodesOK' /\ LatestOK'
      /\ \A j \in 1..challenges : \A d \in Verifiers(j)' : d # c /\ d \in Verifiers(j) /\ api'[d] = api[d]
  BY <1>4, <1>5, <1>6, <1>7, <1>8, RowEdit
<1>10. ChallengesOK'
  <2> SUFFICES ASSUME NEW j \in 1..challenges, j \notin contended PROVE RowOK(j)'
    BY <1>4 DEF ChallengesOK, Settled
  <2>1. RowOK(j)
    BY <1>0 DEF OtpInv, ChallengesOK, Settled
  <2> QED BY <1>4, <1>6, <1>9, <2>1 DEF RowOK, CodeOf
<1> QED BY <1>9, <1>10 DEF AccInv, OtpInv

-----------------------------------------------------------------------------
LEMMA AccStarts == ASSUME AccountsAssumption, AccountsInit PROVE AccInv
<1>1. Quiet \in ApiCall /\ Quiet.at = "idle" /\ Quiet.line = 0 /\ Quiet.phone \in Phones
  BY QuietIsCall
<1>2. CallsOK
  <2>1. ASSUME NEW c \in AuthCalls PROVE Knows(api[c])
    <3>1. tokens \in Nat /\ api[c] = Quiet
      BY DEF AccountsInit
    <3> QED BY <3>1, QuietKnows
  <2> QED BY <1>1, <2>1 DEF CallsOK, AccountsInit
<1>3. AccountsTypeOK /\ RowsOK
  <2>1. 0 \in 0..MaxTime /\ 0 \in 0..MaxChallenges /\ 0 \in 0..MaxCodes /\ 0 \in 0..MaxUsers /\ 0 \in 0..MaxTokens
    BY DEF AccountsAssumption
  <2>2. /\ [there |-> FALSE, phone |-> Quiet.phone, code |-> 0, attempts |-> 0, resends |-> 0,
            sentAt |-> 0, expires |-> 0, consumed |-> FALSE] \in Challenge
        /\ [phone |-> None, email |-> None, banned |-> FALSE] \in User
        /\ [user |-> 0, line |-> 0, revoked |-> FALSE, expired |-> FALSE] \in Token
    BY <1>1, <2>1 DEF Challenge, User, Token
  <2>3. TablesOK
    <3>1. challenge \in [ChallengeIds -> Challenge] /\ user \in [UserIds -> User] /\ token \in [TokenIds -> Token]
      BY <2>2 DEF AccountsInit
    <3>2. signIns \in [Codes -> Nat] /\ misses \in [Codes -> Nat] /\ received \subseteq Codes /\ turnedAway \in BOOLEAN
      BY DEF AccountsInit
    <3>3. \A t \in 1..tokens : token[t].user \in 1..users
      BY DEF AccountsInit
    <3>4. clock = 0 /\ challenges = 0 /\ codes = 0 /\ users = 0 /\ tokens = 0
      BY DEF AccountsInit
    <3> QED BY <2>1, <3>1, <3>2, <3>3, <3>4 DEF TablesOK
  <2> QED BY <1>2, <2>3, TypesAre DEF AccountsInit, RowsOK, CallsOK
<1>4. SessionInv
  BY DEF SessionInv, PhonesOK, LinesOK, AccountsInit
<1>5. OtpInv
  BY DEF OtpInv, CodesOK, ChallengesOK, LatestOK, AccountsInit
<1> QED BY <1>2, <1>3, <1>4, <1>5 DEF AccInv, BaseInv

LEMMA AccSteps == ASSUME AccountsAssumption, AccInv, [AccountsNext]_accountVars PROVE AccInv'
<1>1. ASSUME NEW c \in AuthCalls, Caller(c) PROVE AccInv'
  BY <1>1, CallerKeeps
<1>2. ASSUME NEW c \in AuthCalls, Otp(c) PROVE AccInv'
  <2>1. CASE FindForRequest(c) \/ CountRecent(c) \/ SendSms(c) \/ RowGone(c) \/ WidgetVerified(c)
    BY <2>1, RequestPlain
  <2>2. CASE WriteChallenge(c)
    BY <2>2, WriteKeeps
  <2>3. CASE FindForVerify(c)
    BY <2>3, FindForVerifyKeeps
  <2>4. CASE CountMiss(c)
    BY <2>4, CountMissKeeps
  <2>5. CASE Consume(c)
    BY <2>5, ConsumeKeeps
  <2>6. CASE Cleanup(c)
    BY <2>6, CleanupKeeps
  <2> QED BY <1>2, <2>1, <2>2, <2>3, <2>4, <2>5, <2>6 DEF Otp
<1>3. ASSUME NEW c \in AuthCalls, Auth(c) PROVE AccInv'
  <2>1. CASE FindByPhone(c) \/ FindByPhoneAgain(c) \/ UpdateLogin(c) \/ FindForRegister(c) \/ FindForLogin(c)
    BY <2>1, SignInPlain
  <2>2. CASE CreateByPhone(c) \/ CreateByEmail(c)
    BY <2>2, CreateKeeps
  <2>3. CASE FindToken(c)
    BY <2>3, FindTokenKeeps
  <2>4. CASE RevokeToken(c)
    BY <2>4, RevokeTokenKeeps
  <2>5. CASE IssueTokens(c)
    BY <2>5, IssueTokensKeeps
  <2>6. CASE Logout(c)
    BY <2>6, LogoutKeeps
  <2> QED BY <1>3, <2>1, <2>2, <2>3, <2>4, <2>5, <2>6 DEF Auth
<1>4. ASSUME NEW c \in AuthCalls, Abort(c) PROVE AccInv'
  BY <1>4, RequestPlain
<1>5. CASE Tick \/ (\E t \in TokenIds : TokenExpires(t)) \/ (\E u \in UserIds : Ban(u)) \/ UNCHANGED accountVars
  BY <1>5, OutsideKeeps
<1> QED BY <1>1, <1>2, <1>3, <1>4, <1>5 DEF AccountsNext

(* The rows and calls of Accounts stay in their types, and a call knows a    *)
(* number, an account or a token that is there.                              *)
THEOREM AccountsHold == AccountsSpec => []AccInv
<1>1. AccountsInit => AccInv
  BY AccountsAssumption, AccStarts
<1>2. AccInv /\ [AccountsNext]_accountVars => AccInv'
  BY AccountsAssumption, AccSteps
<1> QED BY <1>1, <1>2, PTL DEF AccountsSpec

(* The tables and the calls keep their types. *)
THEOREM AccountTypes == AccountsSpec => []AccountsTypeOK
<1>1. AccInv => AccountsTypeOK
  BY DEF AccInv, BaseInv
<1> QED BY <1>1, AccountsHold, PTL

(* A one-time code signs in once and answers MaxAttempts wrong ones at most, *)
(* and the code sent last is the one that the next verification compares     *)
(* with, with all its attempts, unless two calls read and wrote its row at   *)
(* once (OtpService.verify and request).                                     *)
THEOREM CodesAreSpent == AccountsSpec => []OneTimeCodes
<1>1. ASSUME AccInv PROVE OneTimeCodes
  <2>0. TablesOK /\ RowsOK /\ OtpInv
    BY <1>1, TypesAre DEF AccInv, BaseInv
  <2>1. CodeIsSpent
    <3> SUFFICES ASSUME NEW i \in 1..challenges, Settled(i)
                 PROVE  signIns[CodeOf(i)] <= 1 /\ misses[CodeOf(i)] <= MaxAttempts
      BY DEF CodeIsSpent
    <3>1. RowOK(i)
      BY <2>0 DEF OtpInv, ChallengesOK
    <3> QED BY <3>1 DEF RowOK
  <2>2. LatestCodeWorks
    <3> SUFFICES ASSUME NEW i \in 1..challenges, CodeOf(i) = codes, challenge[i].there, Settled(i),
                        signIns[codes] = 0, misses[codes] = 0
                 PROVE  Newest(Unconsumed(challenge[i].phone)) = i /\ challenge[i].attempts < MaxAttempts
      BY DEF LatestCodeWorks
    <3>1. RowOK(i)
      BY <2>0 DEF OtpInv, ChallengesOK
    <3>2. PICK p : p = challenge[i].phone
      OBVIOUS
    <3>3. i \in Unconsumed(p) /\ Unconsumed(p) \subseteq 1..challenges
      BY <3>1, <3>2 DEF RowOK, Unconsumed, ChallengesOf
    <3>4. \A j \in Unconsumed(p) : ~(j > i)
      BY <2>0, <3>2, <3>3 DEF OtpInv, LatestOK, Unconsumed, ChallengesOf
    <3>5. challenges \in Nat
      BY <2>0 DEF TablesOK
    <3>6. \A j \in Unconsumed(p) : j <= i
      BY <3>3, <3>4, <3>5
    <3>7. Newest(Unconsumed(p)) = i
      BY <3>3, <3>5, <3>6, NewestIs
    <3>8. challenge[i].attempts = 0
      BY <3>1 DEF RowOK
    <3> QED BY <3>2, <3>7, <3>8, AccountsAssumption DEF AccountsAssumption
  <2> QED BY <2>1, <2>2 DEF OneTimeCodes
<1> QED BY <1>1, AccountsHold, PTL

LEMMA AtMostOne ==
    ASSUME NEW S, \A x, y \in S : x = y
    PROVE  IsFiniteSet(S) /\ Cardinality(S) \in {0, 1}
<1>1. CASE S = {}
  BY <1>1, FS_EmptySet
<1>2. CASE S # {}
  <2>1. PICK x \in S : TRUE
    BY <1>2
  <2>2. S = {x}
    BY <2>1
  <2> QED BY <2>2, FS_Singleton
<1> QED BY <1>1, <1>2

(* A number that was verified is signed in, to the one account that has it,  *)
(* however many calls find none and create it; and a sign-in has one good    *)
(* refresh token, and none once it is logged out, unless two calls used one  *)
(* token at once (AuthService).                                              *)
THEOREM SessionsHold == AccountsSpec => []SessionsAreSound
<1>1. ASSUME AccInv PROVE SessionsAreSound
  <2>0. TablesOK /\ RowsOK /\ PhonesOK /\ LinesOK
    BY <1>1, TypesAre DEF AccInv, BaseInv, SessionInv
  <2>1. VerifiedIsSignedIn
    <3>1. ASSUME NEW p \in Phones PROVE Cardinality(WithPhone(p)) <= 1
      <4>1. \A u, v \in WithPhone(p) : u = v
        BY <2>0 DEF PhonesOK, WithPhone
      <4> QED BY <4>1, AtMostOne
    <3> QED BY <2>0, <3>1 DEF VerifiedIsSignedIn, PhonesOK
  <2>2. OneLiveToken
    <3> SUFFICES ASSUME NEW line \in {token[t].line : t \in 1..tokens} \ forked
                 PROVE  Cardinality(Live(line)) <= IF line \in ended THEN 0 ELSE 1
      BY DEF OneLiveToken, Live
    <3>1. LineOK(line)
      BY <2>0 DEF RowsOK, LinesOK
    <3>2. Cardinality(Live(line)) \in {0, 1}
      BY <3>1, AtMostOne DEF LineOK
    <3>3. line \in ended => Cardinality(Live(line)) = 0
      BY <3>1, FS_EmptySet DEF LineOK
    <3> QED BY <3>2, <3>3
  <2> QED BY <2>1, <2>2 DEF SessionsAreSound
<1> QED BY <1>1, AccountsHold, PTL

-----------------------------------------------------------------------------
(* The sign-in page.  A number that anything speaks of is one a code went to. *)

Reached(p) == \E c \in otpCodes : c.phone = p

(* A token, now or to come, is for a number whose code was typed; and what is *)
(* being submitted is a code that was sent, or a wrong one.                   *)
TokensOK ==
    /\ tokenRef # Nobody => Reached(tokenRef)
    /\ \A l \in lateCalls : l.kind = "verify" => Reached(l.phone)
    /\ submitting.at = "server" => submitting.token \in Numbers /\ Reached(submitting.token)
    /\ submitting # NotSubmitting => /\ submitting.code \in otpCodes \cup {WrongCode}
                                     /\ submitting.mobile \in Numbers /\ submitting.len \in 4 .. 8

(* Nothing is sent before the page knows whether there is a widget. *)
BootOK ==
    boot = "config" =>
        sendJobs = {} /\ signStep = "phone" /\ submitting = NotSubmitting /\ transport = "sms"

Sent(via) == \E c \in otpCodes : c.via = via

(* The screen's digits are those of its transport, which has sent a code once *)
(* a code's screen was ever shown; other boxes take codes of both kinds.       *)
ScreenOK ==
    /\ codeLen = IF transport = "sms" THEN SMS_OTP_LENGTH ELSE widgetLen
    /\ boxes = codeLen \/ BothKindsSent
    /\ submitting # NotSubmitting => submitting.len = codeLen \/ BothKindsSent
    /\ \/ Sent(transport)
       \/ /\ transport = "sms" /\ signStep = "phone" /\ submitting = NotSubmitting
          /\ \A j \in sendJobs : ~j.resend

PageInv == OtpTypeOK /\ otpSends \in Nat /\ TokensOK /\ BootOK /\ SignedInAsShown /\ ScreenOK

LEMMA PageStarts == OtpInit => PageInv
<1> SUFFICES ASSUME OtpInit PROVE PageInv
  OBVIOUS
<1>1. OtpTypeOK
  <2>1. 6 \in 4 .. 8 /\ "sms" \in Transports
    BY DEF Transports
  <2> QED BY <2>1 DEF OtpInit, OtpTypeOK, SMS_OTP_LENGTH
<1>2. otpSends \in Nat /\ TokensOK /\ BootOK /\ SignedInAsShown /\ ScreenOK
  BY DEF OtpInit, TokensOK, BootOK, SignedInAsShown, ScreenOK, NotSubmitting
<1> QED BY <1>1, <1>2 DEF PageInv

(* Nothing of the page, and what is outside only grows. *)
LEMMA ReachedStays ==
    ASSUME otpCodes \subseteq otpCodes'
    PROVE  \A p : Reached(p) => Reached(p)'
  BY DEF Reached

(* So does what was sent, by a transport or by both. *)
LEMMA SentStays ==
    ASSUME otpCodes \subseteq otpCodes', otpCodes' \subseteq OtpCode
    PROVE  /\ \A via : Sent(via) => Sent(via)'
           /\ BothKindsSent => BothKindsSent'
           /\ Sent("widget")' /\ Sent("sms")' => BothKindsSent'
<1>1. \A via : Sent(via) => Sent(via)'
  BY DEF Sent
<1>2. ASSUME Sent("widget")', Sent("sms")' PROVE BothKindsSent'
  BY <1>2 DEF Sent, BothKindsSent, OtpCode, Transports
<1>3. BothKindsSent => Sent("widget") /\ Sent("sms")
  BY DEF Sent, BothKindsSent, Transports
<1> QED BY <1>1, <1>2, <1>3

(* The screen keeps its promise in a step that sends nothing, when its boxes   *)
(* stay, or become those of a submission.                                     *)
LEMMA ScreenStays ==
    ASSUME ScreenOK, UNCHANGED <<widgetLen, transport, codeLen, otpCodes>>,
           \/ boxes' = boxes
           \/ boxes' = codeLen
           \/ submitting # NotSubmitting /\ boxes' = submitting.len,
           \/ submitting' \in {submitting, NotSubmitting}
           \/ submitting # NotSubmitting /\ submitting'.len = submitting.len
           \/ signStep = "otp" /\ submitting'.len = codeLen,
           \/ signStep # "phone" \/ submitting # NotSubmitting
           \/ signStep' = "phone" /\ submitting' = NotSubmitting /\ \A j \in sendJobs' : j.resend => \E k \in sendJobs : k.resend
    PROVE  ScreenOK'
<1>1. BothKindsSent' <=> BothKindsSent
  BY DEF BothKindsSent
<1>2. Sent(transport)' <=> Sent(transport)
  BY DEF Sent
<1>3. boxes' = codeLen' \/ BothKindsSent'
  BY <1>1 DEF ScreenOK
<1>4. submitting' # NotSubmitting => submitting'.len = codeLen' \/ BothKindsSent'
  BY <1>1 DEF ScreenOK
<1>5. Sent(transport) \/ (signStep = "phone" /\ submitting = NotSubmitting)
  BY DEF ScreenOK
<1>6. \/ Sent(transport)'
      \/ /\ transport' = "sms" /\ signStep' = "phone" /\ submitting' = NotSubmitting
         /\ \A j \in sendJobs' : ~j.resend
  BY <1>2, <1>5 DEF ScreenOK
<1> QED BY <1>3, <1>4, <1>6 DEF ScreenOK

LEMMA BootKeeps ==
    ASSUME OtpAssumption, PageInv, ConfigResolved \/ ScriptBoots
    PROVE  PageInv'
<1>1. OtpTypeOK'
  BY DEF PageInv, OtpTypeOK, ConfigResolved, ScriptBoots, screenParts, outside, otpBounds, OtpFault,
     OtpAssumption, SMS_OTP_LENGTH
<1>2. otpSends' \in Nat /\ TokensOK' /\ BootOK' /\ SignedInAsShown'
  BY DEF PageInv, OtpTypeOK, TokensOK, BootOK, SignedInAsShown, ConfigResolved, ScriptBoots,
     screenParts, outside, otpBounds, Reached
<1>3. ScreenOK'
  <2>1. CASE ConfigResolved
    <3>1. BothKindsSent' <=> BothKindsSent
      BY <2>1 DEF BothKindsSent, ConfigResolved, outside
    <3>2. /\ sendJobs' = {} /\ signStep' = "phone" /\ submitting' = NotSubmitting /\ transport' = "sms"
          /\ codeLen' = codeLen /\ boxes' = boxes /\ transport = "sms"
      BY <2>1 DEF PageInv, BootOK, ConfigResolved, screenParts
    <3> QED BY <3>1, <3>2 DEF PageInv, ScreenOK
  <2>2. CASE ScriptBoots
    BY <2>2, ScreenStays DEF PageInv, ScriptBoots, screenParts, outside
  <2> QED BY <2>1, <2>2
<1> QED BY <1>1, <1>2, <1>3 DEF PageInv

LEMMA ScreenKeeps ==
    ASSUME OtpAssumption, PageInv, ChangeNumber \/ CoolingEnds \/ \E p \in Numbers : EditMobile(p)
    PROVE  PageInv'
<1>1. OtpTypeOK'
  BY DEF PageInv, OtpTypeOK, ChangeNumber, CoolingEnds, EditMobile, bootParts, outside, otpBounds
<1>2. otpSends' \in Nat /\ TokensOK' /\ BootOK' /\ SignedInAsShown'
  BY DEF PageInv, OtpTypeOK, TokensOK, BootOK, SignedInAsShown, ChangeNumber, CoolingEnds,
     EditMobile, bootParts, outside, otpBounds, Reached
<1>3. ScreenOK'
  BY ScreenStays DEF PageInv, ChangeNumber, CoolingEnds, EditMobile, bootParts, outside
<1> QED BY <1>1, <1>2, <1>3 DEF PageInv

LEMMA SendKeeps ==
    ASSUME OtpAssumption, PageInv, NEW resend \in BOOLEAN, sendOtp(resend)
    PROVE  PageInv'
<1>1. PICK at \in {"await", "sms"} :
         sendJobs' = sendJobs \cup {[n |-> otpSends + 1, at |-> at, phone |-> mobile, resend |-> resend]}
  BY DEF sendOtp
<1>2. [n |-> otpSends + 1, at |-> at, phone |-> mobile, resend |-> resend] \in SendJob
  BY DEF PageInv, OtpTypeOK, SendJob, sendOtp, OtpAssumption
<1>3. OtpTypeOK'
  BY <1>1, <1>2 DEF PageInv, OtpTypeOK, sendOtp, bootParts, screenParts, outside
<1>4. otpSends' \in Nat /\ TokensOK' /\ BootOK' /\ SignedInAsShown'
  BY DEF PageInv, OtpTypeOK, TokensOK, BootOK, SignedInAsShown, sendOtp, bootParts, screenParts,
     outside, Reached
<1>5. ScreenOK'
  BY ScreenStays DEF PageInv, sendOtp, bootParts, screenParts, outside
<1> QED BY <1>3, <1>4, <1>5 DEF PageInv



LEMMA WidgetCallKeeps ==
    ASSUME OtpAssumption, PageInv, NEW j \in sendJobs, WidgetCalled(j)
    PROVE  PageInv'
<1>1. [j EXCEPT !.at = "widget"] \in SendJob
  BY DEF PageInv, OtpTypeOK, SendJob
<1>2. OtpTypeOK'
  BY <1>1 DEF PageInv, OtpTypeOK, WidgetCalled, Becomes, bootParts, screenParts, outside, otpBounds
<1>3. otpSends' \in Nat /\ TokensOK' /\ BootOK' /\ SignedInAsShown'
  BY DEF PageInv, OtpTypeOK, TokensOK, BootOK, SignedInAsShown, WidgetCalled, Becomes,
     bootParts, screenParts, outside, otpBounds, Reached
<1>4. ScreenOK'
  <2>1. [j EXCEPT !.at = "widget"].resend = j.resend
    BY DEF PageInv, OtpTypeOK, SendJob
  <2> QED BY <2>1, ScreenStays DEF PageInv, WidgetCalled, Becomes, bootParts, screenParts, outside
<1> QED BY <1>2, <1>3, <1>4 DEF PageInv

(* A code is sent by via, and the screen asks for it. *)
LEMMA DeliveryKeeps ==
    ASSUME OtpAssumption, PageInv, NEW j \in sendJobs, NEW via \in Transports, NEW phone \in Numbers,
           NEW length, length = (IF via = "sms" THEN SMS_OTP_LENGTH ELSE widgetLen),
           Delivers(via, phone), goToOtpStep(j, via, length), msg91' \in Numbers \cup {Nobody},
           UNCHANGED <<bootParts, widgetFailed, mobile, submitting, tokenRef, lateCalls, signedIn,
                       otpBounds, otpFailures>>
    PROVE  PageInv'
<1>1. [via |-> via, phone |-> phone] \in OtpCode /\ length \in 4 .. 8
  BY DEF OtpCode, SMS_OTP_LENGTH, PageInv, OtpTypeOK
<1>2. OtpTypeOK'
  BY <1>1 DEF PageInv, OtpTypeOK, Delivers, goToOtpStep, bootParts, otpBounds
<1>3. \A p : Reached(p) => Reached(p)'
  BY ReachedStays DEF Delivers
<1>4. BootOK' /\ otpSends' \in Nat
  BY DEF PageInv, OtpTypeOK, BootOK, goToOtpStep, bootParts, otpBounds
<1>7. ScreenOK'
  <2>1. otpCodes \subseteq otpCodes' /\ otpCodes' \subseteq OtpCode
    BY <1>1 DEF Delivers, PageInv, OtpTypeOK
  <2>2. Sent(via)'
    <3>1. [via |-> via, phone |-> phone] \in otpCodes' /\ [via |-> via, phone |-> phone].via = via
      BY DEF Delivers
    <3> QED BY <3>1 DEF Sent
  <2>3. BothKindsSent' \/ via = transport \/ ~Sent(transport)
    BY <2>1, <2>2, SentStays DEF PageInv, OtpTypeOK, Transports
  <2>4. widgetLen' = widgetLen /\ transport' = via /\ codeLen' = length /\ submitting' = submitting
        /\ sendJobs' \subseteq sendJobs /\ boxes' = IF j.resend THEN boxes ELSE length
    BY DEF goToOtpStep, bootParts
  <2>5. codeLen' = codeLen \/ via # transport
    BY <2>4 DEF PageInv, ScreenOK
  <2>6. boxes' = codeLen' \/ BothKindsSent'
    BY <2>1, <2>3, <2>4, <2>5, SentStays DEF PageInv, ScreenOK
  <2>7. submitting' # NotSubmitting => submitting'.len = codeLen' \/ BothKindsSent'
    BY <2>1, <2>3, <2>4, <2>5, SentStays DEF PageInv, ScreenOK
  <2>8. codeLen' = IF transport' = "sms" THEN SMS_OTP_LENGTH ELSE widgetLen'
    BY <2>4
  <2>9. Sent(transport)'
    BY <2>2, <2>4 DEF Sent
  <2> QED BY <2>6, <2>7, <2>8, <2>9 DEF ScreenOK
<1>5. SignedInAsShown'
  BY <1>3 DEF PageInv, SignedInAsShown, Reached
<1>6. TokensOK'
  BY <1>3 DEF PageInv, TokensOK, Delivers
<1> QED BY <1>2, <1>4, <1>5, <1>6, <1>7 DEF PageInv

LEMMA DeliveredKeeps ==
    ASSUME OtpAssumption, PageInv, NEW j \in sendJobs, WidgetSent(j) \/ sendViaSms(j)
    PROVE  PageInv'
<1>1. SessionPhone(j) \in Numbers /\ j.phone \in Numbers
  BY DEF PageInv, OtpTypeOK, SessionPhone, SendJob
<1>2. "widget" \in Transports /\ "sms" \in Transports /\ "widget" # "sms"
  BY DEF Transports
<1>3. CASE WidgetSent(j)
  BY <1>1, <1>2, <1>3, DeliveryKeeps DEF WidgetSent, otpBounds
<1>4. CASE sendViaSms(j)
  BY <1>1, <1>2, <1>4, DeliveryKeeps DEF sendViaSms, SmsLength, otpBounds, PageInv, OtpTypeOK
<1> QED BY <1>3, <1>4

LEMMA SendFailureKeeps ==
    ASSUME OtpAssumption, PageInv, NEW j \in sendJobs, WidgetSendFails(j) \/ SmsFails(j)
    PROVE  PageInv'
<1>1. [j EXCEPT !.at = "sms"] \in SendJob /\ SessionPhone(j) \in Numbers
  BY DEF PageInv, OtpTypeOK, SendJob, SessionPhone
<1>2. lateCalls' \in {lateCalls, lateCalls \cup {[kind |-> "send", phone |-> SessionPhone(j)]}}
  BY DEF WidgetSendFails, SmsFails, outside
<1>3. sendJobs' \subseteq sendJobs \cup {[j EXCEPT !.at = "sms"]}
  BY DEF WidgetSendFails, SmsFails, Becomes
<1>4. OtpTypeOK'
  <2>1. lateCalls' \subseteq [kind : {"send", "verify"}, phone : Numbers]
    BY <1>1, <1>2 DEF PageInv, OtpTypeOK
  <2>2. sendJobs' \subseteq SendJob
    BY <1>1, <1>3 DEF PageInv, OtpTypeOK
  <2>3. widgetFailed' \in BOOLEAN /\ busy' \in BOOLEAN
    BY DEF PageInv, OtpTypeOK, WidgetSendFails, SmsFails
  <2> QED BY <2>1, <2>2, <2>3 DEF PageInv, OtpTypeOK, WidgetSendFails, SmsFails, bootParts, screenParts,
             outside
<1>5. otpSends' \in Nat /\ BootOK' /\ SignedInAsShown'
  BY DEF PageInv, OtpTypeOK, BootOK, SignedInAsShown, WidgetSendFails, SmsFails, Becomes,
     bootParts, screenParts, outside, otpBounds
<1>6. TokensOK'
  BY <1>2 DEF PageInv, TokensOK, Reached, WidgetSendFails, SmsFails, outside
<1>7. ScreenOK'
  <2>1. [j EXCEPT !.at = "sms"].resend = j.resend
    BY DEF PageInv, OtpTypeOK, SendJob
  <2>2. /\ UNCHANGED <<bootParts, screenParts, submitting, otpCodes>>
        /\ \A k \in sendJobs' : k.resend => \E i \in sendJobs : i.resend
    BY <1>3, <2>1 DEF WidgetSendFails, SmsFails, outside
  <2> QED BY <2>2, ScreenStays DEF PageInv, bootParts, screenParts
<1> QED BY <1>4, <1>5, <1>6, <1>7 DEF PageInv

LEMMA LateKeeps ==
    ASSUME OtpAssumption, PageInv, NEW l \in lateCalls, LateSuccess(l)
    PROVE  PageInv'
<1>1. [via |-> "widget", phone |-> l.phone] \in OtpCode /\ l.phone \in Numbers
  BY DEF PageInv, OtpTypeOK, OtpCode, Transports
<1>2. OtpTypeOK'
  BY <1>1 DEF PageInv, OtpTypeOK, LateSuccess, Delivers, bootParts, screenParts, otpBounds
<1>3. \A p : Reached(p) => Reached(p)'
  BY ReachedStays DEF LateSuccess, Delivers
<1>4. l.kind = "send" \/ Reached(l.phone)
  BY DEF PageInv, OtpTypeOK, TokensOK
<1>5. TokensOK'
  BY <1>1, <1>3, <1>4 DEF PageInv, TokensOK, LateSuccess, Delivers
<1>6. otpSends' \in Nat /\ BootOK' /\ SignedInAsShown'
  BY <1>3 DEF PageInv, OtpTypeOK, BootOK, SignedInAsShown, LateSuccess, Reached,
     bootParts, screenParts, otpBounds
<1>7. ScreenOK'
  <2>1. otpCodes \subseteq otpCodes' /\ otpCodes' \subseteq OtpCode
    BY <1>1 DEF LateSuccess, Delivers, PageInv, OtpTypeOK
  <2>2. UNCHANGED <<bootParts, screenParts, sendJobs, submitting>>
    BY DEF LateSuccess
  <2>3. Sent(transport) => Sent(transport)'
    BY <2>1, <2>2 DEF Sent, screenParts
  <2> QED BY <2>1, <2>2, <2>3, SentStays DEF PageInv, ScreenOK, screenParts, bootParts
<1> QED BY <1>2, <1>5, <1>6, <1>7 DEF PageInv

LEMMA SubmitKeeps ==
    ASSUME OtpAssumption, PageInv, NEW c \in otpCodes \cup {WrongCode}, submitOtp(c)
    PROVE  PageInv'
<1>1. PICK at \in {"widget", "sms"} :
         submitting' = [at |-> at, mobile |-> mobile, code |-> c, len |-> codeLen, token |-> Nobody]
  BY DEF submitOtp
<1>2. submitting' \in Submission /\ submitting'.at # "server"
  BY <1>1 DEF PageInv, OtpTypeOK, Submission
<1>3. OtpTypeOK'
  BY <1>2 DEF PageInv, OtpTypeOK, submitOtp, bootParts, screenParts, outside
<1>4. TokensOK'
  BY <1>1, <1>2 DEF PageInv, OtpTypeOK, TokensOK, Reached, submitOtp, outside
<1>5. otpSends' \in Nat /\ BootOK' /\ SignedInAsShown'
  BY DEF PageInv, BootOK, SignedInAsShown, submitOtp, bootParts, screenParts, outside
<1>6. ScreenOK'
  BY <1>1, ScreenStays DEF PageInv, submitOtp, bootParts, outside
<1> QED BY <1>3, <1>4, <1>5, <1>6 DEF PageInv

(* MSG91 accepts a code that reached the number of its session. *)
LEMMA RightReached ==
    ASSUME PageInv, submitting.at = "widget", RightForWidget
    PROVE  msg91 \in Numbers /\ Reached(msg91) /\ submitting # NotSubmitting /\ submitting \in Submission
<1>1. submitting # NotSubmitting /\ submitting \in Submission
  BY DEF PageInv, OtpTypeOK, NotSubmitting
<1>2. submitting.code \in otpCodes
  BY <1>1 DEF PageInv, TokensOK, RightForWidget, WrongCode
<1> QED BY <1>1, <1>2 DEF PageInv, OtpTypeOK, OtpCode, RightForWidget, Reached

LEMMA VerifyKeeps ==
    ASSUME OtpAssumption, PageInv, WidgetVerifies
    PROVE  PageInv'
<1>1. msg91 \in Numbers /\ Reached(msg91) /\ submitting # NotSubmitting /\ submitting \in Submission
  BY RightReached DEF WidgetVerifies
<1>2. PICK t \in Numbers :
         /\ Reached(t)
         /\ submitting' = [submitting EXCEPT !.at = "server", !.token = t]
  BY <1>1 DEF WidgetVerifies, PageInv, TokensOK, OtpTypeOK
<1>3. /\ submitting' \in Submission /\ submitting'.token = t
      /\ submitting'.code = submitting.code /\ submitting'.mobile = submitting.mobile
      /\ submitting'.len = submitting.len
  BY <1>1, <1>2 DEF Submission
<1>4. /\ tokenRef' \in {tokenRef, msg91}
      /\ lateCalls' \in {lateCalls, lateCalls \cup {[kind |-> "verify", phone |-> msg91]}}
  BY DEF WidgetVerifies
<1>5. OtpTypeOK'
  BY <1>1, <1>3, <1>4 DEF PageInv, OtpTypeOK, WidgetVerifies, bootParts, screenParts
<1>6. TokensOK'
  BY <1>1, <1>2, <1>3, <1>4 DEF PageInv, TokensOK, Reached, WidgetVerifies
<1>7. otpSends' \in Nat /\ BootOK' /\ SignedInAsShown'
  BY <1>1 DEF PageInv, BootOK, SignedInAsShown, WidgetVerifies, bootParts, screenParts, otpBounds
<1>8. ScreenOK'
  BY <1>1, <1>3, ScreenStays DEF PageInv, WidgetVerifies, bootParts, screenParts
<1> QED BY <1>5, <1>6, <1>7, <1>8 DEF PageInv

(* A code that is refused empties the screen's boxes. *)
LEMMA RefusalKeeps ==
    ASSUME OtpAssumption, PageInv, WidgetRefuses \/ ApiRefuses
    PROVE  PageInv'
<1>1. submitting # NotSubmitting /\ NotVerified /\ tokenRef' = tokenRef
  <2>1. submitting.at \in {"widget", "server", "sms"} /\ NotVerified /\ tokenRef' = tokenRef
    BY DEF WidgetRefuses, ApiRefuses, SameNumber
  <2> QED BY <2>1 DEF NotSubmitting
<1>2. \/ lateCalls' = lateCalls
      \/ /\ lateCalls' = lateCalls \cup {[kind |-> "verify", phone |-> msg91]}
         /\ msg91 \in Numbers /\ Reached(msg91)
  BY RightReached DEF WidgetRefuses, ApiRefuses
<1>3. submitting.len \in 4 .. 8
  BY <1>1 DEF PageInv, TokensOK
<1>4. OtpTypeOK'
  <2>1. lateCalls' \subseteq [kind : {"send", "verify"}, phone : Numbers]
    BY <1>2 DEF PageInv, OtpTypeOK
  <2> QED BY <1>1, <1>3, <2>1 DEF PageInv, OtpTypeOK, NotVerified, bootParts
<1>5. TokensOK'
  BY <1>1, <1>2 DEF PageInv, TokensOK, Reached, NotVerified, NotSubmitting
<1>6. otpSends' \in Nat /\ BootOK' /\ SignedInAsShown'
  BY <1>1 DEF PageInv, BootOK, SignedInAsShown, NotVerified, bootParts, otpBounds
<1>7. ScreenOK'
  BY <1>1, ScreenStays DEF PageInv, NotVerified, bootParts
<1> QED BY <1>4, <1>5, <1>6, <1>7 DEF PageInv

LEMMA SignedInKeeps ==
    ASSUME OtpAssumption, PageInv, verifyWidgetToken \/ verifySms
    PROVE  PageInv'
<1>0. submitting # NotSubmitting
  <2>1. submitting.at \in {"server", "sms"}
    BY DEF verifyWidgetToken, verifySms
  <2> QED BY <2>1 DEF NotSubmitting
<1>1. PICK p \in Numbers, named \in BOOLEAN :
         /\ p = submitting.mobile /\ SignedIn(p, named)
         /\ otpCodes # {} /\ (named => Reached(p))
  <2>2. /\ submitting.mobile \in Numbers /\ submitting.mobile # Nobody
        /\ submitting.code \in otpCodes \cup {WrongCode}
    BY <1>0, OtpAssumption DEF PageInv, TokensOK, OtpAssumption
  <2>3. CASE verifyWidgetToken
    <3>1. PICK named \in BOOLEAN : /\ submitting.at = "server" /\ SameNumber(named)
                                  /\ SignedIn(IF named THEN submitting.token ELSE submitting.mobile, named)
      BY <2>3 DEF verifyWidgetToken
    <3>2. Reached(submitting.token) /\ otpCodes # {}
      BY <3>1 DEF PageInv, TokensOK, Reached
    <3>3. CASE named
      BY <2>2, <3>1, <3>2, <3>3 DEF SameNumber
    <3>4. CASE ~named
      BY <2>2, <3>1, <3>2, <3>4
    <3> QED BY <3>3, <3>4
  <2>4. CASE verifySms
    <3>1. submitting.code = [via |-> "sms", phone |-> submitting.mobile]
      BY <2>4 DEF verifySms
    <3>2. submitting.code \in otpCodes
      BY <2>2, <3>1 DEF WrongCode
    <3> QED BY <2>2, <2>4, <3>1, <3>2 DEF verifySms, Reached
  <2> QED BY <2>3, <2>4
<1>2. OtpTypeOK'
  BY <1>1 DEF PageInv, OtpTypeOK, SignedIn, bootParts, outside
<1>3. SignedInAsShown'
  BY <1>1 DEF SignedInAsShown, SignedIn, outside, Reached
<1>4. TokensOK'
  BY <1>1 DEF PageInv, TokensOK, SignedIn, outside, Reached, NotSubmitting
<1>5. otpSends' \in Nat /\ BootOK'
  BY <1>0, <1>1 DEF PageInv, BootOK, SignedIn, bootParts, otpBounds
<1>6. ScreenOK'
  BY <1>0, <1>1, ScreenStays DEF PageInv, SignedIn, bootParts, outside
<1> QED BY <1>2, <1>3, <1>4, <1>5, <1>6 DEF PageInv

LEMMA PageSteps == PageInv /\ [OtpNext]_otpVars => PageInv'
<1> SUFFICES ASSUME PageInv, [OtpNext]_otpVars PROVE PageInv'
  OBVIOUS
<1> USE OtpAssumption
<1>1. CASE ConfigResolved \/ ScriptBoots
  BY <1>1, BootKeeps
<1>2. CASE ChangeNumber \/ CoolingEnds \/ \E p \in Numbers : EditMobile(p)
  BY <1>2, ScreenKeeps
<1>3. CASE \E resend \in BOOLEAN : sendOtp(resend)
  BY <1>3, SendKeeps
<1>4. ASSUME NEW j \in sendJobs,
             WidgetCalled(j) \/ WidgetSent(j) \/ WidgetSendFails(j) \/ sendViaSms(j) \/ SmsFails(j)
      PROVE  PageInv'
  BY <1>4, WidgetCallKeeps, DeliveredKeeps, SendFailureKeeps
<1>5. CASE \E l \in lateCalls : LateSuccess(l)
  BY <1>5, LateKeeps
<1>6. CASE \E c \in otpCodes \cup {WrongCode} : submitOtp(c)
  BY <1>6, SubmitKeeps
<1>7. CASE WidgetVerifies
  BY <1>7, VerifyKeeps
<1>8. CASE WidgetRefuses \/ ApiRefuses
  BY <1>8, RefusalKeeps
<1>9. CASE verifyWidgetToken \/ verifySms
  BY <1>9, SignedInKeeps
<1>10. CASE UNCHANGED otpVars
  <2>1. OtpTypeOK'
    BY <1>10 DEF otpVars, PageInv, OtpTypeOK
  <2>2. otpSends' \in Nat /\ TokensOK' /\ BootOK' /\ SignedInAsShown' /\ ScreenOK'
    BY <1>10, ScreenStays DEF otpVars, PageInv, TokensOK, Reached, BootOK, SignedInAsShown
  <2> QED BY <2>1, <2>2 DEF PageInv
<1> QED BY <1>1, <1>2, <1>3, <1>4, <1>5, <1>6, <1>7, <1>8, <1>9, <1>10 DEF OtpNext

(* The steps of the sign-in page, its timers and its codes keep their types. *)
THEOREM SignInTypes == OtpSpec => []OtpTypeOK
<1>1. PageInv => OtpTypeOK
  BY DEF PageInv
<1> QED BY <1>1, PageStarts, PageSteps, PTL DEF OtpSpec

(* Whoever is signed in is the number that was on the screen, by a code that *)
(* went to this number unless MSG91 named none; and the screen asks for as    *)
(* many digits as the transport of the code sends, with a box for each until  *)
(* codes of both kinds were sent, whatever was edited, sent again, given up   *)
(* or left behind meanwhile (account/page.tsx, msg91-widget.ts).              *)
THEOREM PageSignsIn == OtpSpec => []SignInIsTrue
<1>1. PageInv => SignInIsTrue
  BY DEF PageInv, ScreenOK, CodeFits, SignInIsTrue
<1> QED BY <1>1, PageStarts, PageSteps, PTL DEF OtpSpec
=============================================================================
