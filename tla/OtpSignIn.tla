----------------------------- MODULE OtpSignIn ------------------------------
(***************************************************************************)
(* The sign-in page of the shop (web: app/account/page.tsx) and the MSG91   *)
(* widget it drives (web: lib/msg91-widget.ts), with what the API says to a *)
(* widget's token (auth.controller, msg91-widget.service).  The one-time    *)
(* codes the API itself sends are the subject of Accounts.                  *)
(*                                                                          *)
(* MSG91 is outside: a call may fail, or be given up and still succeed, and *)
(* its global callback may come before or after the one of the call.  A     *)
(* code is the transport it came by and the number it went to.              *)
(***************************************************************************)
EXTENDS Integers, FiniteSets

CONSTANTS
    Numbers,         \* mobile numbers
    WidgetLength,   \* digits of the widget's codes
    MaxOtpSends,    \* bound on clicks on Continue and Resend
    MaxOtpTries,    \* bound on codes submitted
    MaxOtpFailures  \* bound on calls that fail or are given up

Nobody == "nobody"

ASSUME OtpAssumption ==
    /\ Nobody \notin Numbers /\ WidgetLength \in 4 .. 8
    /\ {MaxOtpSends, MaxOtpTries, MaxOtpFailures} \subseteq Nat

VARIABLES
    boot,         \* the widget: config and script
    widgetLen,    \* the length of its codes, as far as the page knows
    widgetFailed, \* it failed in this visit
    signStep,     \* the screen
    mobile,       \* the number in the field, and on the code's screen
    transport, codeLen, boxes, cooling,
    busy,
    sendJobs,     \* sendOtp in progress
    submitting,   \* submitOtp in progress
    tokenRef,     \* number of the token the global callback left
    msg91,        \* number the widget's session at MSG91 is about
    otpCodes,     \* codes that reached their number
    lateCalls,    \* calls given up that may succeed yet
    signedIn,     \* number of the account, the one that was on the screen, and whether
                  \* MSG91's answer named it
    otpSends, otpTries, otpFailures

otpVars == <<boot, widgetLen, widgetFailed, signStep, mobile, transport, codeLen, boxes, cooling,
             busy, sendJobs, submitting, tokenRef, msg91, otpCodes, lateCalls, signedIn,
             otpSends, otpTries, otpFailures>>

SMS_OTP_LENGTH == 6
Transports == {"widget", "sms"}
OtpCode == [via : Transports, phone : Numbers]
WrongCode == [via |-> "sms", phone |-> Nobody]
SendJob == [n : 1 .. MaxOtpSends, at : {"await", "widget", "sms"}, phone : Numbers, resend : BOOLEAN]
Submission == [at : {"none", "widget", "server", "sms"}, mobile : Numbers, code : OtpCode \cup {WrongCode},
               len : Nat, token : Numbers \cup {Nobody}]
NotSubmitting == [at |-> "none"]

OtpInit ==
    /\ boot = "config" /\ widgetLen = SMS_OTP_LENGTH /\ widgetFailed = FALSE
    /\ signStep = "phone" /\ mobile \in Numbers
    /\ transport = "sms" /\ codeLen = SMS_OTP_LENGTH /\ boxes = SMS_OTP_LENGTH /\ cooling = FALSE
    /\ busy = FALSE /\ sendJobs = {} /\ submitting = NotSubmitting
    /\ tokenRef = Nobody /\ msg91 = Nobody /\ otpCodes = {} /\ lateCalls = {}
    /\ signedIn = [phone |-> Nobody, shown |-> Nobody, named |-> TRUE]
    /\ otpSends = 0 /\ otpTries = 0 /\ otpFailures = 0

bootParts == <<boot, widgetLen>>
screenParts == <<signStep, mobile, transport, codeLen, boxes, cooling>>
outside == <<msg91, otpCodes, lateCalls>>
otpBounds == <<otpSends, otpTries>>

OtpFault == otpFailures < MaxOtpFailures /\ otpFailures' = otpFailures + 1
widgetActive == boot \in {"script", "ready"} /\ ~widgetFailed
Lengths(via) == IF via = "sms" THEN SMS_OTP_LENGTH ELSE WidgetLength

-----------------------------------------------------------------------------
(* The widget starts. *)

(* The length comes from the API, else from MSG91 itself, else it is 6.     *)
ConfigResolved ==
    /\ boot = "config"
    /\ \/ boot' = "off" /\ UNCHANGED widgetLen
       \/ boot' = "script" /\ widgetLen' \in {WidgetLength, SMS_OTP_LENGTH}
    /\ UNCHANGED <<widgetFailed, screenParts, busy, sendJobs, submitting, tokenRef, outside,
                   signedIn, otpBounds, otpFailures>>

ScriptBoots ==
    /\ boot = "script"
    /\ \/ boot' = "ready" /\ UNCHANGED otpFailures
       \/ boot' = "initError" /\ OtpFault
    /\ UNCHANGED <<widgetLen, widgetFailed, screenParts, busy, sendJobs, submitting, tokenRef,
                   outside, signedIn, otpBounds>>

-----------------------------------------------------------------------------
(* Sending. *)

(* The field stays open while a code is on its way. *)
EditMobile(p) ==
    /\ signStep = "phone" /\ p # mobile
    /\ mobile' = p
    /\ UNCHANGED <<bootParts, widgetFailed, signStep, transport, codeLen, boxes, cooling, busy,
                   sendJobs, submitting, tokenRef, outside, signedIn, otpBounds, otpFailures>>

ChangeNumber ==
    /\ signStep = "otp"
    /\ signStep' = "phone"
    /\ UNCHANGED <<bootParts, widgetFailed, mobile, transport, codeLen, boxes, cooling, busy,
                   sendJobs, submitting, tokenRef, outside, signedIn, otpBounds, otpFailures>>

CoolingEnds ==
    /\ cooling
    /\ cooling' = FALSE
    /\ UNCHANGED <<bootParts, widgetFailed, signStep, mobile, transport, codeLen, boxes, busy,
                   sendJobs, submitting, tokenRef, outside, signedIn, otpBounds, otpFailures>>

(* A resend goes by the transport of the screen, a first send by the widget *)
(* while it works.                                                          *)
sendOtp(resend) ==
    /\ ~busy /\ otpSends < MaxOtpSends
    /\ IF resend THEN signStep = "otp" /\ ~cooling ELSE signStep = "phone" /\ boot # "config"
    /\ LET tryWidget == IF resend THEN transport = "widget" ELSE widgetActive
       IN sendJobs' = sendJobs \cup {[n |-> otpSends + 1, at |-> IF tryWidget THEN "await" ELSE "sms",
                                      phone |-> mobile, resend |-> resend]}
    /\ busy' = TRUE /\ otpSends' = otpSends + 1
    /\ UNCHANGED <<bootParts, widgetFailed, screenParts, submitting, tokenRef, outside, signedIn,
                   otpTries, otpFailures>>

Becomes(j, stage) == sendJobs' = (sendJobs \ {j}) \cup {[j EXCEPT !.at = stage]}

(* A call waits for the widget; a send forgets the token left before.       *)
WidgetCalled(j) ==
    /\ j.at = "await" /\ boot = "ready"
    /\ Becomes(j, "widget")
    /\ tokenRef' = IF j.resend THEN tokenRef ELSE Nobody
    /\ UNCHANGED <<bootParts, widgetFailed, screenParts, busy, submitting, outside, signedIn,
                   otpBounds, otpFailures>>

goToOtpStep(j, via, length) ==
    /\ signStep' = (IF signedIn.phone = Nobody THEN "otp" ELSE signStep)
    /\ transport' = via /\ codeLen' = length /\ cooling' = TRUE
    /\ boxes' = IF j.resend THEN boxes ELSE length
    /\ sendJobs' = sendJobs \ {j} /\ busy' = FALSE

Delivers(via, phone) == otpCodes' = otpCodes \cup {[via |-> via, phone |-> phone]}

(* A resend is about the session's number, whatever the field says.         *)
SessionPhone(j) == IF j.resend /\ msg91 # Nobody THEN msg91 ELSE j.phone

WidgetSent(j) ==
    /\ j.at = "widget"
    /\ msg91' = SessionPhone(j)
    /\ Delivers("widget", SessionPhone(j))
    /\ goToOtpStep(j, "widget", widgetLen)
    /\ UNCHANGED <<bootParts, widgetFailed, mobile, submitting, tokenRef, lateCalls, signedIn,
                   otpBounds, otpFailures>>

(* It fails, or it does not answer in time and may have sent all the same:  *)
(* the code goes by SMS, now and in the rest of the visit.                  *)
WidgetSendFails(j) ==
    /\ \/ j.at = "await" /\ boot # "ready" /\ UNCHANGED <<lateCalls, otpFailures>>
       \/ j.at = "widget" /\ OtpFault
          /\ lateCalls' \in {lateCalls, lateCalls \cup {[kind |-> "send", phone |-> SessionPhone(j)]}}
    /\ widgetFailed' = TRUE
    /\ Becomes(j, "sms")
    /\ UNCHANGED <<bootParts, screenParts, busy, submitting, tokenRef, msg91, otpCodes, signedIn,
                   otpBounds>>

SmsLength_Kept == codeLen
SmsLength == SMS_OTP_LENGTH

sendViaSms(j) ==
    /\ j.at = "sms"
    /\ Delivers("sms", j.phone)
    /\ goToOtpStep(j, "sms", SmsLength)
    /\ UNCHANGED <<bootParts, widgetFailed, mobile, submitting, tokenRef, msg91, lateCalls,
                   signedIn, otpBounds, otpFailures>>

SmsFails(j) ==
    /\ j.at = "sms" /\ OtpFault
    /\ sendJobs' = sendJobs \ {j} /\ busy' = FALSE
    /\ UNCHANGED <<bootParts, widgetFailed, screenParts, submitting, tokenRef, outside, signedIn,
                   otpBounds>>

(* What was given up succeeds: a code arrives, or a token is left behind.   *)
LateSuccess(l) ==
    /\ lateCalls' = lateCalls \ {l}
    /\ IF l.kind = "send"
         THEN msg91' = l.phone /\ Delivers("widget", l.phone) /\ UNCHANGED tokenRef
         ELSE tokenRef' = l.phone /\ UNCHANGED <<msg91, otpCodes>>
    /\ UNCHANGED <<bootParts, widgetFailed, screenParts, busy, sendJobs, submitting, signedIn,
                   otpBounds, otpFailures>>

-----------------------------------------------------------------------------
(* Verifying. *)

(* As soon as as many digits are there as the screen asks for; only a code  *)
(* of that length can be given, and a longer one than the boxes adds boxes. *)
submitOtp(c) ==
    /\ signStep = "otp" /\ submitting.at = "none" /\ otpTries < MaxOtpTries
    /\ c = WrongCode \/ Lengths(c.via) = codeLen
    /\ submitting' = [at |-> IF transport = "widget" THEN "widget" ELSE "sms", mobile |-> mobile,
                      code |-> c, len |-> codeLen, token |-> Nobody]
    /\ boxes' = IF boxes < codeLen THEN codeLen ELSE boxes
    /\ busy' = TRUE /\ otpTries' = otpTries + 1
    /\ UNCHANGED <<bootParts, widgetFailed, signStep, mobile, transport, codeLen, cooling, sendJobs,
                   tokenRef, outside, signedIn, otpSends, otpFailures>>

(* The boxes are emptied, as many as the screen had when it submitted.      *)
NotVerified ==
    /\ submitting' = NotSubmitting /\ busy' = FALSE /\ boxes' = submitting.len
    /\ UNCHANGED <<bootParts, widgetFailed, signStep, mobile, transport, codeLen, cooling, sendJobs,
                   msg91, otpCodes, signedIn, otpBounds>>

RightForWidget == submitting.code = [via |-> "widget", phone |-> msg91]

(* MSG91 accepts the code.  The token is in the answer, or the one the      *)
(* global callback has left, which may come just before or later.           *)
WidgetVerifies ==
    /\ submitting.at = "widget" /\ RightForWidget
    /\ \/ /\ submitting' = [submitting EXCEPT !.at = "server", !.token = msg91]
          /\ UNCHANGED <<tokenRef, lateCalls>>
       \/ /\ tokenRef' = msg91 /\ UNCHANGED lateCalls
          /\ submitting' = [submitting EXCEPT !.at = "server", !.token = msg91]
       \/ /\ tokenRef # Nobody /\ UNCHANGED tokenRef
          /\ lateCalls' = lateCalls \cup {[kind |-> "verify", phone |-> msg91]}
          /\ submitting' = [submitting EXCEPT !.at = "server", !.token = tokenRef]
    /\ UNCHANGED <<bootParts, widgetFailed, screenParts, busy, sendJobs, msg91, otpCodes,
                   signedIn, otpBounds, otpFailures>>

(* A wrong code, no token at all, or no answer in time.                     *)
WidgetRefuses ==
    /\ submitting.at = "widget"
    /\ \/ ~RightForWidget /\ UNCHANGED <<lateCalls, otpFailures>>
       \/ RightForWidget /\ tokenRef = Nobody /\ UNCHANGED otpFailures
          /\ lateCalls' = lateCalls \cup {[kind |-> "verify", phone |-> msg91]}
       \/ RightForWidget /\ OtpFault
          /\ lateCalls' = lateCalls \cup {[kind |-> "verify", phone |-> msg91]}
    /\ NotVerified
    /\ UNCHANGED tokenRef

(* The API asks MSG91 whose token it is, and compares with the number the   *)
(* page sent along: an answer that names no number is taken for that one.   *)
SameNumber_Unchecked(named) == TRUE
SameNumber(named) == named => submitting.token = submitting.mobile

SignedIn(phone, named) ==
    /\ signedIn' = [phone |-> phone, shown |-> submitting.mobile, named |-> named]
    /\ signStep' = "in" /\ submitting' = NotSubmitting /\ busy' = FALSE
    /\ UNCHANGED <<bootParts, widgetFailed, mobile, transport, codeLen, boxes, cooling, sendJobs,
                   tokenRef, outside, otpBounds, otpFailures>>

verifyWidgetToken ==
    \E named \in BOOLEAN :
        /\ submitting.at = "server" /\ SameNumber(named)
        /\ SignedIn(IF named THEN submitting.token ELSE submitting.mobile, named)

verifySms ==
    /\ submitting.at = "sms" /\ submitting.code = [via |-> "sms", phone |-> submitting.mobile]
    /\ SignedIn(submitting.mobile, TRUE)

ApiRefuses ==
    /\ \/ submitting.at = "server" /\ ~SameNumber(TRUE) /\ UNCHANGED otpFailures
       \/ submitting.at = "sms" /\ submitting.code # [via |-> "sms", phone |-> submitting.mobile]
          /\ UNCHANGED otpFailures
       \/ submitting.at \in {"server", "sms"} /\ OtpFault
    /\ NotVerified
    /\ UNCHANGED <<tokenRef, lateCalls>>

-----------------------------------------------------------------------------
OtpNext ==
    \/ ConfigResolved \/ ScriptBoots \/ ChangeNumber \/ CoolingEnds
    \/ WidgetVerifies \/ WidgetRefuses \/ verifyWidgetToken \/ verifySms \/ ApiRefuses
    \/ \E p \in Numbers : EditMobile(p)
    \/ \E resend \in BOOLEAN : sendOtp(resend)
    \/ \E j \in sendJobs :
         WidgetCalled(j) \/ WidgetSent(j) \/ WidgetSendFails(j) \/ sendViaSms(j) \/ SmsFails(j)
    \/ \E l \in lateCalls : LateSuccess(l)
    \/ \E c \in otpCodes \cup {WrongCode} : submitOtp(c)

OtpSpec == OtpInit /\ [][OtpNext]_otpVars

-----------------------------------------------------------------------------
OtpTypeOK ==
    /\ boot \in {"config", "script", "ready", "off", "initError"} /\ widgetLen \in 4 .. 8
    /\ widgetFailed \in BOOLEAN /\ signStep \in {"phone", "otp", "in"} /\ mobile \in Numbers
    /\ transport \in Transports /\ codeLen \in 4 .. 8 /\ boxes \in 4 .. 8
    /\ cooling \in BOOLEAN /\ busy \in BOOLEAN
    /\ sendJobs \subseteq SendJob /\ submitting \in Submission \cup {NotSubmitting}
    /\ tokenRef \in Numbers \cup {Nobody} /\ msg91 \in Numbers \cup {Nobody}
    /\ otpCodes \subseteq OtpCode /\ lateCalls \subseteq [kind : {"send", "verify"}, phone : Numbers]

(* Whoever is signed in is the number that was on the screen, after a code  *)
(* was typed; and that code went to this number, unless MSG91's answer named *)
(* none: a token that an earlier number left behind is not taken for it     *)
(* (msg91-widget.ts:323, auth.controller.ts:112-118).                       *)
SignedInAsShown ==
    signedIn.phone # Nobody =>
        /\ signedIn.phone = signedIn.shown
        /\ \E c \in otpCodes : signedIn.named => c.phone = signedIn.phone

BothKindsSent == {c.via : c \in otpCodes} = Transports

(* The code's screen asks for as many digits as its transport sends, after  *)
(* a resend that fell back to SMS too, and has a box for each of them unless *)
(* codes of both kinds were sent in the visit: a resend keeps the boxes, and *)
(* a refusal restores those of its own screen (account/page.tsx:85-120, 191).*)
CodeFits ==
    signStep = "otp" =>
        /\ codeLen = IF transport = "sms" THEN SMS_OTP_LENGTH ELSE widgetLen
        /\ boxes = codeLen \/ BothKindsSent

(* The steps of the sign-in tell the truth about the number and its code. *)
SignInIsTrue == SignedInAsShown /\ CodeFits
=============================================================================
