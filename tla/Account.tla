------------------------------- MODULE Account -------------------------------
(***************************************************************************)
(* The account of one phone number or e-mail address: login, verification, *)
(* the codes they exchange, and the fields that routes of other users and  *)
(* other devices write meanwhile (deviceToken, pushNotificationEnabled,    *)
(* isFirstTime, isDeleted).                                                *)
(*                                                                         *)
(* Login and verify read the document, decide, and write it in a later     *)
(* call.  All other routes here are a single update.  A code is named by   *)
(* the request that draws it, so that no two are equal by chance.          *)
(***************************************************************************)
EXTENDS Naturals

CONSTANTS
    Request,    \* bound: logins, verifications and code requests, each used once
    Token       \* FCM tokens of the devices

NoToken == ""
NoCode == "none"
Wrong == "wrong"    \* a code that was never drawn
Bypass == "bypass"  \* the fixed codes that verifyUser accepts for any account

ASSUME NamesAssumption ==
    /\ NoToken \notin Token
    /\ {NoCode, Wrong, Bypass} \cap Request = {}

VARIABLES
    route,          \* how the account is addressed: "phone" or "email"
    exists,         \* there is a user document
    otpInfo,        \* user.otpInfo: the code, and whether its minute still runs
    deviceToken,
    pushNotificationEnabled,
    isFirstTime,
    isDeleted,
    signedIn,       \* somebody holds a token of this account
    req,            \* the local state of each request
    \* History, read by the properties only:
    newest,         \* the code stored last
    expired,        \* the codes whose minute is over
    spent,          \* the codes that have been accepted
    loggedOut,      \* no request has carried a token since the last logout
    overlapped      \* a request came with another still at work

profile == <<deviceToken, pushNotificationEnabled, isFirstTime, isDeleted>>
doc == <<exists, otpInfo, profile, signedIn>>
history == <<newest, expired, spent, loggedOut, overlapped>>
vars == <<route, doc, req, history>>

Idle == [pc |-> "idle"]
Finished == [pc |-> "done"]
Done(r) == [req EXCEPT ![r] = Finished]
Goto(r, label) == [req EXCEPT ![r].pc = label]
Active == {r \in Request : req[r].pc \notin {"idle", "done"}}
Overlap == overlapped' = (overlapped \/ Active # {})

\* An account may be there from before, marked as deleted or not.
Init ==
    /\ route \in {"phone", "email"}
    /\ exists \in BOOLEAN
    /\ otpInfo = [code |-> NoCode, runs |-> FALSE]
    /\ deviceToken = NoToken
    /\ pushNotificationEnabled = TRUE
    /\ isFirstTime = TRUE
    /\ isDeleted \in {d \in BOOLEAN : d => exists}
    /\ signedIn = exists
    /\ req = [r \in Request |-> Idle]
    /\ newest = NoCode
    /\ expired = {}
    /\ spent = {}
    /\ loggedOut = FALSE
    /\ overlapped = FALSE

-----------------------------------------------------------------------------
(* A request arrives, with the token of its device or none.                *)

Login(r) ==
    /\ req[r].pc = "idle"
    /\ \E t \in Token \cup {NoToken} :
          req' = [req EXCEPT ![r] = [pc |-> "loginFind", token |-> t, stored |-> NoToken]]
    /\ Overlap
    /\ UNCHANGED <<route, doc, newest, expired, spent, loggedOut>>

Verify(r) ==
    /\ req[r].pc = "idle"
    /\ \E t \in Token \cup {NoToken}, c \in Request \cup {Wrong, Bypass} :
          req' = [req EXCEPT ![r] = [pc |-> "verifyFind", token |-> t, code |-> c]]
    /\ Overlap
    /\ UNCHANGED <<route, doc, newest, expired, spent, loggedOut>>

-----------------------------------------------------------------------------
(* loginWithPhone and loginWithEmail                                       *)

Store(code) ==
    /\ otpInfo' = [code |-> code, runs |-> TRUE]
    /\ newest' = code

\* 'Your account is deleted.'
LoginDeleted(r) ==
    /\ req[r].pc = "loginFind"
    /\ exists /\ isDeleted
    /\ req' = Done(r)
    /\ UNCHANGED <<route, doc, history>>

LoginKnown(r) ==
    /\ req[r].pc = "loginFind"
    /\ exists /\ ~isDeleted
    /\ req' = [req EXCEPT ![r].pc = "loginUpdate", ![r].stored = deviceToken]
    /\ UNCHANGED <<route, doc, history>>

LoginUnknown(r) ==
    /\ req[r].pc = "loginFind"
    /\ ~exists
    /\ req' = Goto(r, "loginCreate")
    /\ UNCHANGED <<route, doc, history>>

\* The new document.  A phone login without a token turns push off; an e-mail
\* login leaves the schema's default.
LoginCreate(r) ==
    LET q == req[r]
    IN  /\ q.pc = "loginCreate"
        /\ ~exists
        /\ exists' = TRUE
        /\ Store(r)
        /\ deviceToken' = q.token
        /\ pushNotificationEnabled' = (route = "email" \/ q.token # NoToken)
        /\ loggedOut' = FALSE
        /\ req' = Done(r)
        /\ UNCHANGED <<route, isFirstTime, isDeleted, signedIn, expired, spent, overlapped>>

\* Another login created it first: e-mail addresses are unique, and an account
\* without one gets an address made of its phone number.
LoginCreateFails(r) ==
    /\ req[r].pc = "loginCreate"
    /\ exists
    /\ req' = Done(r)
    /\ UNCHANGED <<route, doc, history>>

\* Without a token of its own the login writes back the one it has read.
LoginUpdate(r) ==
    LET q == req[r]
    IN  /\ q.pc = "loginUpdate"
        /\ Store(r)
        /\ deviceToken' = IF q.token # NoToken THEN q.token ELSE q.stored
        /\ pushNotificationEnabled' =
              (pushNotificationEnabled \/ (route = "phone" /\ q.token # NoToken))
        /\ loggedOut' = (loggedOut /\ q.token = NoToken)
        /\ req' = Done(r)
        /\ UNCHANGED <<route, exists, isFirstTime, isDeleted, signedIn, expired, spent, overlapped>>

\* sendOtp, of /users/forgetPassword: it addresses accounts by phone number.
\* It looks the account up and ignores the answer.
SendOtp(r) ==
    /\ req[r].pc = "idle"
    /\ exists /\ route = "phone"
    /\ Store(r)
    /\ req' = Done(r)
    /\ Overlap
    /\ UNCHANGED <<route, exists, profile, signedIn, expired, spent, loggedOut>>

-----------------------------------------------------------------------------
(* verifyUser                                                              *)

\* Mutant: a wrong code uses up the one that is stored.
VerifyRefusedClears(r) ==
    LET q == req[r]
    IN  /\ q.pc = "verifyFind"
        /\ ~exists \/ (q.code # Bypass /\ (q.code # otpInfo.code \/ ~otpInfo.runs))
        /\ otpInfo' = [otpInfo EXCEPT !.runs = FALSE]
        /\ req' = Done(r)
        /\ UNCHANGED <<route, exists, profile, signedIn, history>>

VerifyRefused(r) ==
    LET q == req[r]
    IN  /\ q.pc = "verifyFind"
        /\ ~exists \/ (q.code # Bypass /\ (q.code # otpInfo.code \/ ~otpInfo.runs))
        /\ req' = Done(r)
        /\ UNCHANGED <<route, doc, history>>

\* Mutant: a code is accepted after its minute.
VerifyMatchesLate(r) ==
    LET q == req[r]
    IN  /\ q.pc = "verifyFind"
        /\ exists
        /\ q.code = Bypass \/ q.code = otpInfo.code
        /\ req' = Goto(r, "verifyUpdate")
        /\ UNCHANGED <<route, doc, history>>

\* The code is the stored one, and is not expired.  The comparison runs on the
\* document that was read, so it stands at the read; a code that is stored before
\* the update falls between this step and VerifyUpdate, and an expiry in between
\* only makes the code refuse more (VerifyRefused).
VerifyMatches(r) ==
    LET q == req[r]
    IN  /\ q.pc = "verifyFind"
        /\ exists
        /\ q.code = Bypass \/ (q.code = otpInfo.code /\ otpInfo.runs)
        /\ req' = Goto(r, "verifyUpdate")
        /\ UNCHANGED <<route, doc, history>>

\* Mutant: the accepted code stays.
VerifyUpdateKeepsCode(r) ==
    LET q == req[r]
    IN  /\ q.pc = "verifyUpdate"
        /\ isDeleted' = FALSE
        /\ \/ /\ q.token # NoToken
              /\ deviceToken' = q.token
              /\ pushNotificationEnabled' = TRUE
           \/ /\ q.token = NoToken
              /\ UNCHANGED <<deviceToken, pushNotificationEnabled>>
        /\ signedIn' = TRUE
        /\ spent' = spent \cup {q.code}
        /\ loggedOut' = (loggedOut /\ q.token = NoToken)
        /\ req' = Done(r)
        /\ UNCHANGED <<route, exists, otpInfo, isFirstTime, newest, expired, overlapped>>

\* Update by _id; the token of the answer is signed after it.
VerifyUpdate(r) ==
    LET q == req[r]
    IN  /\ q.pc = "verifyUpdate"
        /\ isDeleted' = FALSE
        /\ otpInfo' = [code |-> NoCode, runs |-> FALSE]
        /\ \/ /\ q.token # NoToken
              /\ deviceToken' = q.token
              /\ pushNotificationEnabled' = TRUE
           \/ /\ q.token = NoToken
              /\ UNCHANGED <<deviceToken, pushNotificationEnabled>>
        /\ signedIn' = TRUE
        /\ spent' = spent \cup {q.code}
        /\ loggedOut' = (loggedOut /\ q.token = NoToken)
        /\ req' = Done(r)
        /\ UNCHANGED <<route, exists, isFirstTime, newest, expired, overlapped>>

-----------------------------------------------------------------------------
(* Routes that are one findOneAndUpdate: buildUserPatch keeps the fields   *)
(* of PROFILE_PATCH_KEYS, and clears isFirstTime unless it is set in the   *)
(* body.                                                                   *)

\* PUT /users/updateProfile and /users/updateNotifications by the user.
UpdateProfile(t, push, first) ==
    /\ signedIn
    /\ deviceToken' = t
    /\ pushNotificationEnabled' = push
    /\ isFirstTime' = first
    /\ loggedOut' = (loggedOut /\ t = deviceToken)
    /\ Overlap
    /\ UNCHANGED <<route, exists, otpInfo, isDeleted, signedIn, req, newest, expired, spent>>

\* Mutant: push is turned off and the token stays.
LogoutPushOnly ==
    /\ signedIn
    /\ pushNotificationEnabled' = FALSE
    /\ isFirstTime' = FALSE
    /\ loggedOut' = TRUE
    /\ Overlap
    /\ UNCHANGED <<route, exists, otpInfo, deviceToken, isDeleted, signedIn, req,
                   newest, expired, spent>>

Logout ==
    /\ signedIn
    /\ deviceToken' = NoToken
    /\ isFirstTime' = FALSE
    /\ loggedOut' = TRUE
    /\ Overlap
    /\ UNCHANGED <<route, exists, otpInfo, pushNotificationEnabled, isDeleted,
                   signedIn, req, newest, expired, spent>>

\* POST /users/deactive asks for isDeleted, which is not a key of the patch.
Deactivate ==
    /\ signedIn
    /\ isFirstTime' = FALSE
    /\ Overlap
    /\ UNCHANGED <<route, exists, otpInfo, deviceToken, pushNotificationEnabled,
                   isDeleted, signedIn, req, newest, expired, spent, loggedOut>>

\* The half of somebody else's like, or pass, that is written here.
LikedOrPassed ==
    /\ exists
    /\ isFirstTime' = FALSE
    /\ Overlap
    /\ UNCHANGED <<route, exists, otpInfo, deviceToken, pushNotificationEnabled,
                   isDeleted, signedIn, req, newest, expired, spent, loggedOut>>

-----------------------------------------------------------------------------
(* Time and failures.                                                      *)

\* Sixty seconds after the code was drawn.
Expire ==
    /\ otpInfo.runs
    /\ otpInfo' = [otpInfo EXCEPT !.runs = FALSE]
    /\ expired' = expired \cup {otpInfo.code}
    /\ UNCHANGED <<route, exists, profile, signedIn, req, newest, spent, loggedOut, overlapped>>

\* A call throws, or the process restarts (several at once).
Abort(r) ==
    /\ r \in Active
    /\ req' = Done(r)
    /\ UNCHANGED <<route, doc, history>>

Next ==
    \/ \E r \in Request :
          \/ Login(r) \/ LoginDeleted(r) \/ LoginKnown(r) \/ LoginUnknown(r)
          \/ LoginCreate(r) \/ LoginCreateFails(r) \/ LoginUpdate(r) \/ SendOtp(r)
          \/ Verify(r) \/ VerifyRefused(r) \/ VerifyMatches(r) \/ VerifyUpdate(r)
          \/ Abort(r)
    \/ \E t \in Token \cup {deviceToken}, push, first \in BOOLEAN :
          UpdateProfile(t, push, first)
    \/ Logout \/ Deactivate \/ LikedOrPassed \/ Expire

Spec == Init /\ [][Next]_vars

-----------------------------------------------------------------------------
(* Properties.                                                             *)

AnyToken == Token \cup {NoToken}

LoginState == [pc : {"loginFind", "loginCreate", "loginUpdate"},
               token : AnyToken, stored : AnyToken]
VerifyState == [pc : {"verifyFind", "verifyUpdate"},
                token : AnyToken, code : Request \cup {Wrong, Bypass}]

\* The type invariant of the account and its requests.
TypeOK ==
    /\ route \in {"phone", "email"}
    /\ exists \in BOOLEAN
    /\ otpInfo \in [code : Request \cup {NoCode}, runs : BOOLEAN]
    /\ deviceToken \in AnyToken
    /\ pushNotificationEnabled \in BOOLEAN
    /\ isFirstTime \in BOOLEAN
    /\ isDeleted \in BOOLEAN
    /\ signedIn \in BOOLEAN
    /\ req \in [Request -> {Idle, Finished} \cup LoginState \cup VerifyState]
    /\ newest \in Request \cup {NoCode}
    /\ expired \subseteq Request
    /\ spent \subseteq Request \cup {Bypass}
    /\ loggedOut \in BOOLEAN
    /\ overlapped \in BOOLEAN

\* However logins, code requests and verifications interleave, a code passes
\* the check of verifyUser only if it is the one stored last, its minute is
\* not over and no verification with it has completed.
CheckedCodeIsCurrent ==
    [][\A r \in Request :
          VerifyMatches(r) /\ req[r].code # Bypass =>
              req[r].code = newest /\ newest \notin expired \cup spent]_vars

\* One request at a time, a code signs in once: two requests that both read
\* it before either has cleared it are the only way to use it twice.
CodeSpentOnceAtATime ==
    [][\A r \in Request :
          VerifyUpdate(r) /\ ~overlapped => req[r].code \notin spent \ {Bypass}]_vars

\* One request at a time, the code sent last stays good for its minute until
\* it is used: no other route, wrong guess or failed call takes it away.
FreshCodeStays ==
    ~overlapped /\ newest \notin expired \cup spent \cup {NoCode} /\ Bypass \notin spent =>
        otpInfo = [code |-> newest, runs |-> TRUE]

\* One request at a time, the device that was logged out gets no more pushes:
\* no later login or verification without a token brings its token back.
LoggedOutSilent == ~overlapped /\ loggedOut => deviceToken = NoToken
=============================================================================
