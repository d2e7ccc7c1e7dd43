------------------------------ MODULE Accounts ------------------------------
(***************************************************************************)
(* auth/otp.service and auth/auth.service behind auth.controller: one-time *)
(* codes for a mobile number, the account a verified number signs in to,   *)
(* and the refresh tokens of its sessions.                                 *)
(*                                                                         *)
(* Every call runs statement by statement, no two statements share a       *)
(* transaction, so calls overlap anywhere.  A code is the number of its    *)
(* hash in the order they were written; 0 is a wrong code.  A number is in  *)
(* the form normalisePhone gives every spelling of it.                     *)
(***************************************************************************)
EXTENDS Integers, FiniteSets, FiniteSetsExt

CONSTANTS
    Phones,         \* mobile numbers
    Emails,         \* e-mail addresses people register with
    AuthCalls,          \* calls in flight at once
    Cooldown,       \* OTP_RESEND_COOLDOWN_SEC
    Ttl,            \* OTP_TTL_SEC
    MaxResends,     \* OTP_MAX_RESENDS
    MaxAttempts,    \* OTP_MAX_ATTEMPTS
    HourlyLimit,    \* challenges of a number in one hour (8 in the code)
    MaxTime,        \* bound on the clock; less than an hour
    MaxChallenges,  \* bound: ids of OtpChallenge rows
    MaxCodes,       \* bound on codes
    MaxUsers,       \* bound: ids of User rows
    MaxTokens,      \* bound: ids of RefreshToken rows
    MaxAuthSends,       \* bound on calls sent, accounts banned and tokens expired
    MaxAuthFailures     \* bound on calls that stop half way

None == "none"   \* null: no number, no address

ASSUME AccountsAssumption ==
    /\ Phones # {} /\ Emails # {} /\ None \notin Phones \cup Emails
    /\ Cooldown \in Nat /\ Ttl \in Nat /\ MaxResends \in Nat
    /\ MaxAttempts \in Nat \ {0} /\ HourlyLimit \in Nat
    /\ \A bound \in {MaxTime, MaxChallenges, MaxCodes, MaxUsers, MaxTokens, MaxAuthSends, MaxAuthFailures} :
          bound \in Nat

VARIABLES
    clock,
    challenge,   \* OtpChallenge rows
    challenges,  \* rows created so far
    codes,       \* codes written so far
    received,    \* codes that reached the customer's phone
    user,        \* User rows
    users,       \* rows created so far
    token,       \* RefreshToken rows
    tokens,      \* rows created so far
    api,         \* calls in flight
    signIns,     \* history: sign-ins each code was good for
    misses,      \* history: answers that a code is incorrect, per code compared with
    contended,   \* history: challenges that overlapping calls read and wrote
    forked,      \* history: sign-ins of which two calls used one refresh token at once
    ended,       \* history: sign-ins that were logged out
    turnedAway,  \* history: a consumed code did not sign in
    sent, stopped

accountVars == <<clock, challenge, challenges, codes, received, user, users, token, tokens, api,
                 signIns, misses, contended, forked, ended, turnedAway, sent, stopped>>

ChallengeIds == 1..MaxChallenges
Codes == 1..MaxCodes
Wrong == 0
UserIds == 1..MaxUsers
TokenIds == 1..MaxTokens

Challenge == [there : BOOLEAN, phone : Phones, code : 0..MaxCodes, attempts : Nat,
              resends : Nat, sentAt : Nat, expires : Nat, consumed : BOOLEAN]
User == [phone : Phones \cup {None}, email : Emails \cup {None}, banned : BOOLEAN]
Token == [user : 0..MaxUsers, line : Nat, revoked : BOOLEAN, expired : BOOLEAN]

Stage == {"idle", "reqFind", "reqCount", "reqWrite", "reqSend", "verFind", "verMiss",
          "verConsume", "verCleanup", "widget", "phoneFind", "phoneCreate", "phoneAgain",
          "phoneUpdate", "regFind", "regCreate", "logFind", "logUpdate", "refFind",
          "refRevoke", "issue", "logout"}
ApiCall == [at : Stage, phone : Phones \cup {None}, email : Emails, code : 0..MaxCodes, row : 0..MaxChallenges,
            attempts : Nat, since : Nat, user : 0..MaxUsers, token : 0..MaxTokens, line : Nat]

Quiet == [at |-> "idle", phone |-> CHOOSE p \in Phones : TRUE, email |-> CHOOSE e \in Emails : TRUE,
          code |-> Wrong, row |-> 0, attempts |-> 0, since |-> 0, user |-> 0, token |-> 0,
          line |-> 0]

AccountsInit ==
    /\ clock = 0
    /\ challenge = [i \in ChallengeIds |->
          [there |-> FALSE, phone |-> Quiet.phone, code |-> 0, attempts |-> 0, resends |-> 0,
           sentAt |-> 0, expires |-> 0, consumed |-> FALSE]]
    /\ challenges = 0 /\ codes = 0 /\ received = {}
    /\ user = [u \in UserIds |-> [phone |-> None, email |-> None, banned |-> FALSE]]
    /\ users = 0
    /\ token = [t \in TokenIds |-> [user |-> 0, line |-> 0, revoked |-> FALSE, expired |-> FALSE]]
    /\ tokens = 0
    /\ api = [c \in AuthCalls |-> Quiet]
    /\ signIns = [k \in Codes |-> 0] /\ misses = [k \in Codes |-> 0]
    /\ contended = {} /\ forked = {} /\ ended = {} /\ turnedAway = FALSE
    /\ sent = 0 /\ stopped = 0

Stands(c, stage) == api[c].at = stage
Move(c, stage) == api' = [api EXCEPT ![c].at = stage]
Answer(c) == api' = [api EXCEPT ![c] = Quiet]

otp == <<challenge, challenges, codes, received>>
otpHistory == <<signIns, misses, contended>>
people == <<user, users>>
sessions == <<token, tokens, forked, ended>>
budget == <<clock, sent, stopped>>

(* findFirst: the newest row, which is the last one created *)
ChallengesOf(p) == {i \in 1..challenges : challenge[i].there /\ challenge[i].phone = p}
Unconsumed(p) == {i \in ChallengesOf(p) : ~challenge[i].consumed}
Usable(p) == {i \in Unconsumed(p) : challenge[i].expires > clock}
Newest(those) == IF those = {} THEN 0 ELSE Max(those)
WithPhone(p) == {u \in 1..users : user[u].phone = p}
WithEmail(e) == {u \in 1..users : user[u].email = e}

-----------------------------------------------------------------------------
(* Callers, the clock, the back office *)

StartCall(c, opening) ==
    /\ Stands(c, "idle")
    /\ sent < MaxAuthSends
    /\ sent' = sent + 1
    /\ api' = [api EXCEPT ![c] = opening]
    /\ UNCHANGED <<otp, otpHistory, people, sessions, clock, stopped, turnedAway>>

requestOtp(c) == \E p \in Phones : StartCall(c, [Quiet EXCEPT !.at = "reqFind", !.phone = p])
verifyOtp(c) == \E p \in Phones, k \in received \cup {Wrong} :
    StartCall(c, [Quiet EXCEPT !.at = "verFind", !.phone = p, !.code = k])
verifyWidgetOtp(c) == \E p \in Phones : StartCall(c, [Quiet EXCEPT !.at = "widget", !.phone = p])
registerEmail(c) == \E e \in Emails, p \in Phones \cup {None} :
    StartCall(c, [Quiet EXCEPT !.at = "regFind", !.email = e, !.phone = p])
loginEmail(c) == \E e \in Emails : StartCall(c, [Quiet EXCEPT !.at = "logFind", !.email = e])
refreshSession(c) == \E t \in 1..tokens : StartCall(c, [Quiet EXCEPT !.at = "refFind", !.token = t])
logoutSession(c) == \E t \in 1..tokens : StartCall(c, [Quiet EXCEPT !.at = "logout", !.token = t])

Tick ==
    /\ clock < MaxTime
    /\ clock' = clock + 1
    /\ UNCHANGED <<otp, otpHistory, people, sessions, api, sent, stopped, turnedAway>>

(* A refresh token outlives the clock of this model; it may expire any time. *)
TokenExpires(t) ==
    /\ t \in 1..tokens /\ ~token[t].expired
    /\ sent < MaxAuthSends /\ sent' = sent + 1
    /\ token' = [token EXCEPT ![t].expired = TRUE]
    /\ UNCHANGED <<otp, otpHistory, people, tokens, forked, ended, api, clock, stopped, turnedAway>>

(* The status of a customer is set in the database; the code has no action. *)
Ban(u) ==
    /\ u \in 1..users /\ ~user[u].banned
    /\ sent < MaxAuthSends /\ sent' = sent + 1
    /\ user' = [user EXCEPT ![u].banned = TRUE]
    /\ UNCHANGED <<otp, otpHistory, users, sessions, api, clock, stopped, turnedAway>>

(* A statement throws or the process ends; what was written stays. *)
Abort(c) ==
    /\ ~Stands(c, "idle")
    /\ stopped < MaxAuthFailures
    /\ stopped' = stopped + 1
    /\ Answer(c)
    /\ UNCHANGED <<otp, otpHistory, people, sessions, clock, sent, turnedAway>>

-----------------------------------------------------------------------------
(* OtpService.request *)

(* The newest challenge that can still be used; one sent a moment ago, or   *)
(* too often, refuses the call.                                             *)
FindForRequest(c) ==
    LET i == Newest(Usable(api[c].phone))
    IN  /\ Stands(c, "reqFind")
        /\ IF i # 0 /\ (clock - challenge[i].sentAt < Cooldown \/ challenge[i].resends >= MaxResends)
           THEN Answer(c)
           ELSE api' = [api EXCEPT ![c].row = i, ![c].since = clock, ![c].at = "reqCount"]
        /\ UNCHANGED <<otp, otpHistory, people, sessions, budget, turnedAway>>

(* Rows of the last hour, that is all of them: MaxTime is less.             *)
CountRecent(c) ==
    /\ Stands(c, "reqCount")
    /\ IF Cardinality(ChallengesOf(api[c].phone)) >= HourlyLimit THEN Answer(c) ELSE Move(c, "reqWrite")
    /\ UNCHANGED <<otp, otpHistory, people, sessions, budget, turnedAway>>

(* A verification that has read row i and has not written it.               *)
Verifying(i) == \E d \in AuthCalls : api[d].at \in {"verMiss", "verConsume"} /\ api[d].row = i
Requesting(i) == \E d \in AuthCalls : api[d].at \in {"reqCount", "reqWrite"} /\ api[d].row = i

RefreshChallenge(c, i) ==
    /\ challenge' = [challenge EXCEPT ![i].code = codes + 1, ![i].attempts = 0, ![i].resends = @ + 1,
                                      ![i].sentAt = api[c].since, ![i].expires = api[c].since + Ttl]
    /\ contended' = IF Verifying(i) \/ challenge[i].consumed \/ i # Newest(ChallengesOf(api[c].phone))
                    THEN contended \cup {i} ELSE contended
    /\ UNCHANGED challenges

CreateChallenge(c) ==
    /\ challenges < MaxChallenges
    /\ challenges' = challenges + 1
    /\ challenge' = [challenge EXCEPT ![challenges + 1] =
          [there |-> TRUE, phone |-> api[c].phone, code |-> codes + 1, attempts |-> 0,
           resends |-> 0, sentAt |-> clock, expires |-> api[c].since + Ttl, consumed |-> FALSE]]
    /\ UNCHANGED contended

(* Mutant: the count of wrong codes is kept when a new code is written. *)
WriteChallenge_KeepsAttempts(c) ==
    LET i == api[c].row
    IN  /\ Stands(c, "reqWrite")
        /\ codes < MaxCodes /\ codes' = codes + 1
        /\ api' = [api EXCEPT ![c].at = "reqSend", ![c].code = codes + 1]
        /\ IF i = 0 THEN CreateChallenge(c)
           ELSE challenge' = [challenge EXCEPT ![i].code = codes + 1, ![i].resends = @ + 1,
                                 ![i].sentAt = api[c].since, ![i].expires = api[c].since + Ttl]
                /\ UNCHANGED <<challenges, contended>>
        /\ UNCHANGED <<received, signIns, misses, people, sessions, budget, turnedAway>>

(* The row that was found gets a new code, if it is still there; else a row *)
(* is created, whatever another call created meanwhile.                     *)
WriteChallenge(c) ==
    LET i == api[c].row
    IN  /\ Stands(c, "reqWrite")
        /\ IF i # 0 /\ ~challenge[i].there
           THEN Answer(c) /\ UNCHANGED <<challenge, challenges, codes, contended>>
           ELSE /\ codes < MaxCodes /\ codes' = codes + 1
                /\ api' = [api EXCEPT ![c].at = "reqSend", ![c].code = codes + 1]
                /\ IF i = 0 THEN CreateChallenge(c) ELSE RefreshChallenge(c, i)
        /\ UNCHANGED <<received, signIns, misses, people, sessions, budget, turnedAway>>

(* sms.sendOtp, which does not throw: the code arrives or it does not.      *)
SendSms(c) ==
    /\ Stands(c, "reqSend")
    /\ \/ received' = received \cup {api[c].code}
       \/ UNCHANGED received
    /\ Answer(c)
    /\ UNCHANGED <<challenge, challenges, codes, otpHistory, people, sessions, budget, turnedAway>>

-----------------------------------------------------------------------------
(* OtpService.verify *)

(* Compared c's code with row i, as it was read. *)
Compare(c, i) ==
    api' = [api EXCEPT ![c].row = i, ![c].attempts = challenge[i].attempts, ![c].since = challenge[i].code,
                       ![c].at = IF api[c].code = challenge[i].code THEN "verConsume" ELSE "verMiss"]

VerifyRow(c, i) ==
    /\ Stands(c, "verFind")
    /\ IF i = 0 \/ challenge[i].expires < clock \/ challenge[i].attempts >= MaxAttempts
       THEN Answer(c) /\ UNCHANGED contended
       ELSE /\ Compare(c, i)
            /\ contended' = IF Verifying(i) \/ Requesting(i) THEN contended \cup {i} ELSE contended
    /\ UNCHANGED <<otp, signIns, misses, people, sessions, budget, turnedAway>>

(* Mutant: a consumed challenge is found too. *)
FindForVerify_Consumed(c) == VerifyRow(c, Newest(ChallengesOf(api[c].phone)))

FindForVerify(c) == VerifyRow(c, Newest(Unconsumed(api[c].phone)))

SayIncorrect(c) ==
    /\ misses' = [misses EXCEPT ![api[c].since] = @ + 1]
    /\ Answer(c)
    /\ UNCHANGED <<challenges, codes, received, signIns, contended, people, sessions, budget, turnedAway>>

(* Mutant: the number of wrong codes is not written. *)
CountMiss_Forgotten(c) == Stands(c, "verMiss") /\ SayIncorrect(c) /\ UNCHANGED challenge

(* A wrong code: what was read, plus one, and the answer that it is wrong.   *)
(* update throws on a missing row.                                           *)
CountMiss(c) ==
    LET i == api[c].row
    IN  /\ Stands(c, "verMiss") /\ challenge[i].there
        /\ challenge' = [challenge EXCEPT ![i].attempts = api[c].attempts + 1]
        /\ SayIncorrect(c)

RowGone(c) ==
    /\ api[c].at \in {"verMiss", "verConsume"} /\ ~challenge[api[c].row].there
    /\ Answer(c)
    /\ UNCHANGED <<otp, otpHistory, people, sessions, budget, turnedAway>>

(* The right code: consumed, whoever consumed it before. *)
Consume(c) ==
    LET i == api[c].row
    IN  /\ Stands(c, "verConsume") /\ challenge[i].there
        /\ challenge' = [challenge EXCEPT ![i].consumed = TRUE]
        /\ signIns' = [signIns EXCEPT ![api[c].code] = @ + 1]
        /\ Move(c, "verCleanup")
        /\ UNCHANGED <<challenges, codes, received, misses, contended, people, sessions, budget,
                       turnedAway>>

(* deleteMany of the number's other rows that are consumed or expired.  Its *)
(* failure is ignored.                                                      *)
Cleanup(c) ==
    LET stale == {i \in ChallengesOf(api[c].phone) \ {api[c].row} :
                     challenge[i].consumed \/ challenge[i].expires < clock}
    IN  /\ Stands(c, "verCleanup")
        /\ \/ challenge' = [i \in ChallengeIds |->
                               IF i \in stale THEN [challenge[i] EXCEPT !.there = FALSE]
                               ELSE challenge[i]]
           \/ UNCHANGED challenge
        /\ Move(c, "phoneFind")
        /\ UNCHANGED <<challenges, codes, received, otpHistory, people, sessions, budget, turnedAway>>

(* verifyWidgetOtp: MSG91 names the verified number, or only says yes; a    *)
(* number other than the claimed one is refused.                            *)
WidgetVerified(c) ==
    /\ Stands(c, "widget")
    /\ \E verified \in Phones \cup {None} :
          IF verified \in {None, api[c].phone} THEN Move(c, "phoneFind") ELSE Answer(c)
    /\ UNCHANGED <<otp, otpHistory, people, sessions, budget, turnedAway>>

-----------------------------------------------------------------------------
(* AuthService: which account a caller gets *)

Suspended(u) == user[u].banned
GoTo(c, stage, u) == api' = [api EXCEPT ![c].at = stage, ![c].user = u]

(* A verified number came to nothing. *)
TurnAway(c) == Answer(c) /\ turnedAway' = TRUE

(* authByVerifiedPhone *)
FindByPhone(c) ==
    LET known == WithPhone(api[c].phone)
    IN  /\ Stands(c, "phoneFind")
        /\ IF known = {} THEN Move(c, "phoneCreate")
           ELSE \E u \in known : IF Suspended(u) THEN Answer(c) ELSE GoTo(c, "phoneUpdate", u)
        /\ UNCHANGED <<otp, otpHistory, people, sessions, budget, turnedAway>>

CreateUser(c, phone, email) ==
    /\ users < MaxUsers
    /\ users' = users + 1
    /\ user' = [user EXCEPT ![users + 1] = [phone |-> phone, email |-> email, banned |-> FALSE]]
    /\ GoTo(c, "issue", users + 1)
    /\ UNCHANGED turnedAway

(* Mutant: the refusal of the unique index is passed on. *)
CreateByPhone_RefusalThrown(c) ==
    /\ Stands(c, "phoneCreate")
    /\ IF WithPhone(api[c].phone) = {} THEN CreateUser(c, api[c].phone, None)
       ELSE TurnAway(c) /\ UNCHANGED people
    /\ UNCHANGED <<otp, otpHistory, sessions, budget>>

(* The unique index on phone refuses a second row: the first is read.       *)
CreateByPhone(c) ==
    /\ Stands(c, "phoneCreate")
    /\ IF WithPhone(api[c].phone) = {} THEN CreateUser(c, api[c].phone, None)
       ELSE Move(c, "phoneAgain") /\ UNCHANGED <<people, turnedAway>>
    /\ UNCHANGED <<otp, otpHistory, sessions, budget>>

FindByPhoneAgain(c) ==
    LET known == WithPhone(api[c].phone)
    IN  /\ Stands(c, "phoneAgain")
        /\ IF known = {} THEN TurnAway(c)
           ELSE /\ \E u \in known : IF Suspended(u) THEN Answer(c) ELSE GoTo(c, "phoneUpdate", u)
                /\ UNCHANGED turnedAway
        /\ UNCHANGED <<otp, otpHistory, people, sessions, budget>>

(* phoneVerifiedAt, lastLoginAt, firstName: no column that is kept here. *)
UpdateLogin(c) ==
    /\ api[c].at \in {"phoneUpdate", "logUpdate"}
    /\ Move(c, "issue")
    /\ UNCHANGED <<otp, otpHistory, people, sessions, budget, turnedAway>>

(* register: the number is optional.  The unique indexes refuse what another *)
(* call created after the look-up.                                          *)
NumberTaken(email, phone) == WithEmail(email) \cup {u \in 1..users : phone # None /\ user[u].phone = phone}

FindForRegister(c) ==
    /\ Stands(c, "regFind")
    /\ IF NumberTaken(api[c].email, api[c].phone) # {} THEN Answer(c) ELSE Move(c, "regCreate")
    /\ UNCHANGED <<otp, otpHistory, people, sessions, budget, turnedAway>>

CreateByEmail(c) ==
    /\ Stands(c, "regCreate")
    /\ IF NumberTaken(api[c].email, api[c].phone) = {} THEN CreateUser(c, api[c].phone, api[c].email)
       ELSE Answer(c) /\ UNCHANGED <<people, turnedAway>>
    /\ UNCHANGED <<otp, otpHistory, sessions, budget>>

(* login: the password is right or the call ends like for an unknown e-mail. *)
FindForLogin(c) ==
    LET known == WithEmail(api[c].email)
    IN  /\ Stands(c, "logFind")
        /\ \/ Answer(c)
           \/ \E u \in known : IF Suspended(u) THEN Answer(c) ELSE GoTo(c, "logUpdate", u)
        /\ UNCHANGED <<otp, otpHistory, people, sessions, budget, turnedAway>>

-----------------------------------------------------------------------------
(* AuthService: refresh tokens.  A line is one sign-in and what its refresh *)
(* tokens were exchanged for.                                               *)

Refreshing(t) == {d \in AuthCalls : Stands(d, "refRevoke") /\ api[d].token = t}
SessionInFlight(line) == \E d \in AuthCalls : api[d].line = line /\ api[d].at \in {"refRevoke", "issue"}

(* Mutant: the account of the token is not passed on. *)
FindToken_NoAccount(c) ==
    LET t == api[c].token
    IN  /\ Stands(c, "refFind") /\ ~token[t].revoked /\ ~token[t].expired
        /\ api' = [api EXCEPT ![c].at = "refRevoke", ![c].line = token[t].line]
        /\ UNCHANGED <<otp, otpHistory, people, sessions, budget, turnedAway>>

FindToken(c) ==
    LET t == api[c].token
    IN  /\ Stands(c, "refFind")
        /\ IF token[t].revoked \/ token[t].expired THEN Answer(c) /\ UNCHANGED forked
           ELSE /\ api' = [api EXCEPT ![c].at = "refRevoke", ![c].user = token[t].user,
                                      ![c].line = token[t].line]
                /\ forked' = IF Refreshing(t) # {} THEN forked \cup {token[t].line} ELSE forked
        /\ UNCHANGED <<otp, otpHistory, people, token, tokens, ended, budget, turnedAway>>

(* Mutant: the token that was used stays good. *)
RevokeToken_Kept(c) ==
    /\ Stands(c, "refRevoke")
    /\ Move(c, "issue")
    /\ UNCHANGED <<otp, otpHistory, people, sessions, budget, turnedAway>>

(* update by id, whoever revoked it meanwhile; the account is not looked at. *)
RevokeToken(c) ==
    /\ Stands(c, "refRevoke")
    /\ token' = [token EXCEPT ![api[c].token].revoked = TRUE]
    /\ Move(c, "issue")
    /\ UNCHANGED <<otp, otpHistory, people, tokens, forked, ended, budget, turnedAway>>

IssueTokens(c) ==
    LET line == IF api[c].line = 0 THEN tokens + 1 ELSE api[c].line
    IN  /\ Stands(c, "issue")
        /\ tokens < MaxTokens
        /\ tokens' = tokens + 1
        /\ token' = [token EXCEPT ![tokens + 1] =
              [user |-> api[c].user, line |-> line, revoked |-> FALSE, expired |-> FALSE]]
        /\ Answer(c)
        /\ UNCHANGED <<otp, otpHistory, people, forked, ended, budget, turnedAway>>

(* logout: one updateMany, of the token the cookie has; its error is ignored.*)
Logout(c) ==
    LET t == api[c].token
        line == token[t].line
    IN  /\ Stands(c, "logout")
        /\ Answer(c)
        /\ \/ UNCHANGED <<token, ended, forked>>
           \/ /\ token' = [token EXCEPT ![t].revoked = TRUE]
              /\ ended' = IF token[t].revoked THEN ended ELSE ended \cup {line}
              /\ forked' = IF SessionInFlight(line) THEN forked \cup {line} ELSE forked
        /\ UNCHANGED <<otp, otpHistory, people, tokens, budget, turnedAway>>

-----------------------------------------------------------------------------
Caller(c) ==
    \/ requestOtp(c) \/ verifyOtp(c) \/ verifyWidgetOtp(c) \/ registerEmail(c) \/ loginEmail(c)
    \/ refreshSession(c) \/ logoutSession(c)
Otp(c) ==
    \/ FindForRequest(c) \/ CountRecent(c) \/ WriteChallenge(c) \/ SendSms(c)
    \/ FindForVerify(c) \/ CountMiss(c) \/ RowGone(c) \/ Consume(c) \/ Cleanup(c) \/ WidgetVerified(c)
Auth(c) ==
    \/ FindByPhone(c) \/ CreateByPhone(c) \/ FindByPhoneAgain(c) \/ UpdateLogin(c)
    \/ FindForRegister(c) \/ CreateByEmail(c) \/ FindForLogin(c)
    \/ FindToken(c) \/ RevokeToken(c) \/ IssueTokens(c) \/ Logout(c)

AccountsNext ==
    \/ \E c \in AuthCalls : Caller(c) \/ Otp(c) \/ Auth(c) \/ Abort(c)
    \/ Tick
    \/ \E t \in TokenIds : TokenExpires(t)
    \/ \E u \in UserIds : Ban(u)

AccountsSpec == AccountsInit /\ [][AccountsNext]_accountVars
-----------------------------------------------------------------------------
(* Properties *)

(* Rows, calls and histories stay in their types; a token is an account's. *)
AccountsTypeOK ==
    /\ clock \in 0..MaxTime
    /\ challenge \in [ChallengeIds -> Challenge] /\ challenges \in 0..MaxChallenges
    /\ codes \in 0..MaxCodes /\ received \subseteq Codes
    /\ user \in [UserIds -> User] /\ users \in 0..MaxUsers
    /\ token \in [TokenIds -> Token] /\ tokens \in 0..MaxTokens
    /\ \A t \in 1..tokens : token[t].user \in 1..users
    /\ \A c \in AuthCalls : api[c] \in ApiCall
    /\ signIns \in [Codes -> Nat] /\ misses \in [Codes -> Nat] /\ turnedAway \in BOOLEAN

CodeOf(i) == challenge[i].code
Settled(i) == i \notin contended

(* "On success the challenge is consumed (single-use)": a code signs in once *)
(* and tells MaxAttempts wrong ones at most that they are, however often the    *)
(* number asks for codes and tries them, unless two calls that read the      *)
(* challenge overlapped: each then writes from what it read.                 *)
CodeIsSpent ==
    \A i \in 1..challenges : Settled(i) /\ CodeOf(i) # 0 =>
        /\ signIns[CodeOf(i)] <= 1
        /\ misses[CodeOf(i)] <= MaxAttempts

(* The code sent last is the one the next verification compares with: an     *)
(* older challenge never stands in its way, and a new code starts with all   *)
(* its attempts.  Requests that overlap each other break this.               *)
LatestCodeWorks ==
    \A i \in 1..challenges :
        (/\ CodeOf(i) = codes /\ challenge[i].there /\ Settled(i)
         /\ signIns[codes] = 0 /\ misses[codes] = 0)
            => /\ Newest(Unconsumed(challenge[i].phone)) = i
               /\ challenge[i].attempts < MaxAttempts

(* A number has one account, and a number that was verified is signed in to  *)
(* it (or its account is suspended) though two verifications of a new number *)
(* both find none and both create it.                                        *)
VerifiedIsSignedIn ==
    /\ ~turnedAway
    /\ \A p \in Phones : Cardinality(WithPhone(p)) <= 1

(* A sign-in has one refresh token that is good, and none once it is logged  *)
(* out, unless two calls used the same token at once.                        *)
OneLiveToken ==
    \A line \in {token[t].line : t \in 1..tokens} \ forked :
        Cardinality({t \in 1..tokens : token[t].line = line /\ ~token[t].revoked})
            <= IF line \in ended THEN 0 ELSE 1

(* What a one-time code is worth, and that the newest one is worth it. *)
OneTimeCodes == CodeIsSpent /\ LatestCodeWorks

(* Who proved a number is signed in, to one account, by one token at a time. *)
SessionsAreSound == VerifiedIsSignedIn /\ OneLiveToken
=============================================================================
