---------------------------- MODULE AccountProofs ----------------------------
(***************************************************************************)
(* Proofs about the codes of an account, for any number of requests and    *)
(* tokens.                                                                 *)
(***************************************************************************)
EXTENDS Account, TLAPS

\* What a running code and an accepted verification are, beyond their types.
CodeType ==
    /\ otpInfo.runs => otpInfo.code \in Request
    /\ \A r \in Request :
          req[r].pc = "verifyUpdate" => req[r].code \in Request \cup {Bypass}

\* A code is drawn by one request, which is then over: a code that is stored,
\* in use, expired or spent is never stored again.
Drawn(c) == c \in Request /\ req[c] = Finished

CodeInv ==
    /\ otpInfo.code = NoCode \/ Drawn(otpInfo.code)
    /\ \A c \in expired : Drawn(c)
    /\ \A c \in spent : c = Bypass \/ Drawn(c)
    /\ \A r \in Request :
          req[r].pc = "verifyUpdate" => req[r].code = Bypass \/ Drawn(req[r].code)
    /\ otpInfo.runs => otpInfo.code = newest /\ newest \notin expired \cup spent

\* What a request is at a step.
LEMMA AtStep ==
    ASSUME TypeOK, NEW r \in Request
    PROVE  /\ req[r].pc \in {"loginFind", "loginCreate", "loginUpdate"} => req[r] \in LoginState
           /\ req[r].pc \in {"verifyFind", "verifyUpdate"} => req[r] \in VerifyState
BY DEF TypeOK, LoginState, VerifyState, Idle, Finished

\* The step of a request to a state without a code to remember.
LEMMA Moves ==
    ASSUME TypeOK, NEW r \in Request, NEW q \in {Idle, Finished} \cup LoginState \cup VerifyState,
           req' = [req EXCEPT ![r] = q]
    PROVE  /\ req' \in [Request -> {Idle, Finished} \cup LoginState \cup VerifyState]
           /\ req'[r] = q
           /\ \A s \in Request : s # r => req'[s] = req[s]
BY DEF TypeOK

\* The account and its requests keep their types, and only drawn codes and
\* the fixed ones are ever accepted.
THEOREM TypeCorrect == Spec => [](TypeOK /\ CodeType)
<1>1. Init => TypeOK /\ CodeType
  <2> SUFFICES ASSUME Init PROVE TypeOK /\ CodeType
    OBVIOUS
  <2>1. exists \in BOOLEAN /\ isDeleted \in BOOLEAN /\ signedIn \in BOOLEAN
    BY DEF Init
  <2>2. req \in [Request -> {Idle, Finished} \cup LoginState \cup VerifyState]
    BY DEF Init
  <2>3. \A r \in Request : req[r].pc # "verifyUpdate"
    BY DEF Init, Idle
  <2>4. otpInfo \in [code : Request \cup {NoCode}, runs : BOOLEAN] /\ otpInfo.runs = FALSE
    BY DEF Init
  <2> QED
    BY <2>1, <2>2, <2>3, <2>4 DEF Init, TypeOK, CodeType, AnyToken
<1>2. TypeOK /\ CodeType /\ [Next]_vars => (TypeOK /\ CodeType)'
  <2> SUFFICES ASSUME TypeOK, CodeType, [Next]_vars PROVE (TypeOK /\ CodeType)'
    OBVIOUS
  <2> USE DEF profile, doc, history
  <2> DEFINE ReqType == req \in [Request -> {Idle, Finished} \cup LoginState \cup VerifyState]
             Accepted == \A r \in Request :
                 req[r].pc = "verifyUpdate" => req[r].code \in Request \cup {Bypass}
  <2>a. ASSUME NEW r \in Request, req' = Done(r)
        PROVE  ReqType' /\ Accepted'
    <3>1. Finished.pc # "verifyUpdate"
      BY DEF Finished
    <3> QED
      BY <2>a, <3>1, Moves DEF Done, CodeType
  <2>b. ASSUME NEW r \in Request, NEW q \in LoginState \cup VerifyState,
               req' = [req EXCEPT ![r] = q],
               q.pc = "verifyUpdate" => q.code \in Request \cup {Bypass}
        PROVE  ReqType' /\ Accepted'
    BY <2>b, Moves DEF CodeType
  <2>c. overlapped' \in BOOLEAN
    BY DEF TypeOK, Next, vars, Overlap, Login, Verify, LoginDeleted, LoginKnown, LoginUnknown,
           LoginCreate, LoginCreateFails, LoginUpdate, SendOtp, VerifyRefused,
           VerifyMatches, VerifyUpdate, Abort, UpdateProfile, Logout, Deactivate,
           LikedOrPassed, Expire
  <2>d. ASSUME req' = req PROVE ReqType' /\ Accepted'
    BY <2>d DEF TypeOK, CodeType
  <2>1. ASSUME NEW r \in Request, Login(r) PROVE (TypeOK /\ CodeType)'
    <3>1. PICK t \in Token \cup {NoToken} :
             req' = [req EXCEPT ![r] = [pc |-> "loginFind", token |-> t, stored |-> NoToken]]
      BY <2>1 DEF Login
    <3>2. ReqType' /\ Accepted'
      BY <3>1, <2>b DEF LoginState, AnyToken
    <3> QED
      BY <3>2, <2>1, <2>c DEF Login, TypeOK, CodeType
  <2>2. ASSUME NEW r \in Request, Verify(r) PROVE (TypeOK /\ CodeType)'
    <3>1. PICK t \in Token \cup {NoToken}, c \in Request \cup {Wrong, Bypass} :
             req' = [req EXCEPT ![r] = [pc |-> "verifyFind", token |-> t, code |-> c]]
      BY <2>2 DEF Verify
    <3>2. ReqType' /\ Accepted'
      BY <3>1, <2>b DEF VerifyState, AnyToken
    <3> QED
      BY <3>2, <2>2, <2>c DEF Verify, TypeOK, CodeType
  <2>3. ASSUME NEW r \in Request,
               LoginDeleted(r) \/ LoginCreateFails(r) \/ VerifyRefused(r) \/ Abort(r)
        PROVE  (TypeOK /\ CodeType)'
    BY <2>3, <2>a, <2>c
    DEF LoginDeleted, LoginCreateFails, VerifyRefused, Abort, TypeOK, CodeType
  <2>4. ASSUME NEW r \in Request, LoginKnown(r) PROVE (TypeOK /\ CodeType)'
    <3> DEFINE q == [req[r] EXCEPT !.pc = "loginUpdate", !.stored = deviceToken]
    <3>1. q \in LoginState /\ q.pc # "verifyUpdate"
      BY <2>4, AtStep DEF LoginKnown, LoginState, TypeOK
    <3>2. req' = [req EXCEPT ![r] = q]
      BY <2>4 DEF LoginKnown
    <3> HIDE DEF q
    <3>3. ReqType' /\ Accepted'
      BY <3>1, <3>2, <2>b
    <3> QED
      BY <3>3, <2>4, <2>c DEF LoginKnown, TypeOK, CodeType
  <2>5. ASSUME NEW r \in Request, LoginUnknown(r) PROVE (TypeOK /\ CodeType)'
    <3> DEFINE q == [req[r] EXCEPT !.pc = "loginCreate"]
    <3>1. q \in LoginState /\ q.pc # "verifyUpdate"
      BY <2>5, AtStep DEF LoginUnknown, LoginState
    <3>2. req' = [req EXCEPT ![r] = q]
      BY <2>5 DEF LoginUnknown, Goto
    <3> HIDE DEF q
    <3>3. ReqType' /\ Accepted'
      BY <3>1, <3>2, <2>b
    <3> QED
      BY <3>3, <2>5, <2>c DEF LoginUnknown, TypeOK, CodeType
  <2>6. ASSUME NEW r \in Request, VerifyMatches(r) PROVE (TypeOK /\ CodeType)'
    <3> DEFINE q == [req[r] EXCEPT !.pc = "verifyUpdate"]
    <3>1. q \in VerifyState /\ q.code \in Request \cup {Bypass}
      BY <2>6, AtStep DEF VerifyMatches, VerifyState, CodeType
    <3>2. req' = [req EXCEPT ![r] = q]
      BY <2>6 DEF VerifyMatches, Goto
    <3> HIDE DEF q
    <3>3. ReqType' /\ Accepted'
      BY <3>1, <3>2, <2>b
    <3> QED
      BY <3>3, <2>6, <2>c DEF VerifyMatches, TypeOK, CodeType
  <2>7. ASSUME NEW r \in Request, LoginCreate(r) \/ LoginUpdate(r)
        PROVE  (TypeOK /\ CodeType)'
    <3>1. /\ req[r] \in LoginState
          /\ ReqType' /\ Accepted'
      BY <2>7, <2>a, AtStep DEF LoginCreate, LoginUpdate
    <3>2. deviceToken' \in AnyToken
      BY <2>7, <3>1 DEF LoginCreate, LoginUpdate, LoginState
    <3>3. /\ pushNotificationEnabled' \in BOOLEAN /\ loggedOut' \in BOOLEAN
          /\ exists' \in BOOLEAN
      BY <2>7 DEF LoginCreate, LoginUpdate, TypeOK
    <3>0. Store(r)
      BY <2>7 DEF LoginCreate, LoginUpdate
    <3>4. /\ otpInfo' \in [code : Request \cup {NoCode}, runs : BOOLEAN]
          /\ otpInfo'.code = r /\ newest' = r
      BY <3>0 DEF Store
    <3>5. UNCHANGED <<route, isFirstTime, isDeleted, signedIn, expired, spent>>
      BY <2>7 DEF LoginCreate, LoginUpdate
    <3>6. TypeOK'
      BY <3>1, <3>2, <3>3, <3>4, <3>5, <2>c DEF TypeOK
    <3>7. CodeType'
      BY <3>1, <3>4 DEF CodeType
    <3> QED
      BY <3>6, <3>7
  <2>8. ASSUME NEW r \in Request, SendOtp(r) PROVE (TypeOK /\ CodeType)'
    BY <2>8, <2>a, <2>c DEF SendOtp, Store, TypeOK, CodeType
  <2>9. ASSUME NEW r \in Request, VerifyUpdate(r) PROVE (TypeOK /\ CodeType)'
    <3>1. /\ req[r] \in VerifyState /\ req[r].code \in Request \cup {Bypass}
          /\ ReqType' /\ Accepted'
      BY <2>9, <2>a, AtStep DEF VerifyUpdate, CodeType
    <3>2. deviceToken' \in AnyToken /\ pushNotificationEnabled' \in BOOLEAN
      BY <2>9, <3>1 DEF VerifyUpdate, VerifyState, TypeOK
    <3>3. spent' \subseteq Request \cup {Bypass} /\ loggedOut' \in BOOLEAN
      BY <2>9, <3>1 DEF VerifyUpdate, TypeOK
    <3>4. /\ otpInfo' = [code |-> NoCode, runs |-> FALSE]
          /\ isDeleted' = FALSE /\ signedIn' = TRUE
          /\ UNCHANGED <<route, exists, isFirstTime, newest, expired>>
      BY <2>9 DEF VerifyUpdate
    <3> QED
      BY <3>1, <3>2, <3>3, <3>4, <2>c DEF TypeOK, CodeType
  <2>10. ASSUME NEW t \in Token \cup {deviceToken}, NEW push \in BOOLEAN,
                NEW first \in BOOLEAN, UpdateProfile(t, push, first)
         PROVE  (TypeOK /\ CodeType)'
    BY <2>10, <2>c, <2>d DEF UpdateProfile, AnyToken, TypeOK, CodeType
  <2>11. CASE Logout \/ Deactivate \/ LikedOrPassed
    BY <2>11, <2>c, <2>d DEF Logout, Deactivate, LikedOrPassed, AnyToken, TypeOK, CodeType
  <2>12. CASE Expire
    BY <2>12, <2>c, <2>d DEF Expire, TypeOK, CodeType
  <2>13. CASE UNCHANGED vars
    BY <2>13 DEF vars, TypeOK, CodeType
  <2> QED
    BY <2>1, <2>2, <2>3, <2>4, <2>5, <2>6, <2>7, <2>8, <2>9, <2>10, <2>11, <2>12, <2>13
    DEF Next
<1> QED
  BY <1>1, <1>2, PTL DEF Spec
-----------------------------------------------------------------------------
(* Codes.                                                                  *)

\* A running code is the newest, and a code once drawn is never drawn again.
LEMMA CodeInvHolds == Spec => []CodeInv
<1>1. Init => CodeInv
  BY DEF Init, CodeInv, Idle
<1>2. TypeOK /\ CodeType /\ CodeInv /\ [Next]_vars => CodeInv'
  <2> SUFFICES ASSUME TypeOK, CodeType, CodeInv, [Next]_vars PROVE CodeInv'
    OBVIOUS
  <2> USE DEF profile, doc, history
  \* A step of a request that is not over: what was drawn stays drawn.
  <2>a. ASSUME NEW r \in Request, NEW q \in {Idle, Finished} \cup LoginState \cup VerifyState,
               req' = [req EXCEPT ![r] = q], req[r] # Finished
        PROVE  /\ \A c : Drawn(c) => Drawn(c)'
               /\ req'[r] = q /\ \A s \in Request : s # r => req'[s] = req[s]
    BY <2>a, Moves DEF Drawn
  <2>b. ASSUME NEW r \in Request, req' = Done(r), req[r] # Finished
        PROVE  /\ \A c : Drawn(c) => Drawn(c)'
               /\ Drawn(r)'
               /\ \A s \in Request : req'[s].pc = "verifyUpdate" => req'[s] = req[s]
    <3>1. Finished.pc # "verifyUpdate"
      BY DEF Finished
    <3> QED
      BY <2>b, <2>a, <3>1 DEF Done, Drawn
  \* A step that leaves the codes alone.
  <2>c. ASSUME \A c : Drawn(c) => Drawn(c)', UNCHANGED <<otpInfo, newest, expired, spent>>,
               \A s \in Request : req'[s].pc = "verifyUpdate" =>
                   \/ req'[s].code = Bypass
                   \/ req'[s].code \in Request /\ req'[req'[s].code] = Finished
        PROVE  CodeInv'
    BY <2>c DEF CodeInv, Drawn
  \* A request that stores its code has drawn none before.
  <2>d. ASSUME NEW r \in Request, req' = Done(r), req[r] # Finished, Store(r),
               UNCHANGED <<expired, spent>>
        PROVE  CodeInv'
    <3>1. r # Bypass /\ r \notin expired \cup spent
      BY <2>d, NamesAssumption DEF CodeInv, Drawn
    <3>2. otpInfo'.code = r /\ newest' = r
      BY <2>d DEF Store
    <3> QED
      BY <3>1, <3>2, <2>b, <2>d DEF CodeInv
  <2>e. /\ Finished.pc = "done" /\ Idle.pc = "idle"
    BY DEF Finished, Idle
  <2>1. ASSUME NEW r \in Request, Login(r) PROVE CodeInv'
    <3>1. PICK t \in Token \cup {NoToken} :
             req' = [req EXCEPT ![r] = [pc |-> "loginFind", token |-> t, stored |-> NoToken]]
      BY <2>1 DEF Login
    <3> DEFINE q == [pc |-> "loginFind", token |-> t, stored |-> NoToken]
    <3>2. q \in LoginState /\ q.pc # "verifyUpdate" /\ req' = [req EXCEPT ![r] = q]
      BY <3>1 DEF LoginState, AnyToken
    <3> HIDE DEF q
    <3>0. req[r] # Finished
      BY <2>1, <2>e DEF Login
    <3>a. /\ \A d : Drawn(d) => Drawn(d)'
          /\ req'[r] = q /\ \A s \in Request : s # r => req'[s] = req[s]
      BY <3>0, <3>2, <2>a
    <3>3. \A s \in Request : req'[s].pc = "verifyUpdate" => req'[s] = req[s]
      BY <3>2, <3>a
    <3>4. \A s \in Request : req'[s].pc = "verifyUpdate" =>
             \/ req'[s].code = Bypass
             \/ req'[s].code \in Request /\ req'[req'[s].code] = Finished
      BY <3>a, <3>3 DEF CodeInv, Drawn
    <3> QED
      BY <3>a, <3>4, <2>1, <2>c DEF Login
  <2>2. ASSUME NEW r \in Request, Verify(r) PROVE CodeInv'
    <3>1. PICK t \in Token \cup {NoToken}, c \in Request \cup {Wrong, Bypass} :
             req' = [req EXCEPT ![r] = [pc |-> "verifyFind", token |-> t, code |-> c]]
      BY <2>2 DEF Verify
    <3> DEFINE q == [pc |-> "verifyFind", token |-> t, code |-> c]
    <3>2. q \in VerifyState /\ q.pc # "verifyUpdate" /\ req' = [req EXCEPT ![r] = q]
      BY <3>1 DEF VerifyState, AnyToken
    <3> HIDE DEF q
    <3>0. req[r] # Finished
      BY <2>2, <2>e DEF Verify
    <3>a. /\ \A d : Drawn(d) => Drawn(d)'
          /\ req'[r] = q /\ \A s \in Request : s # r => req'[s] = req[s]
      BY <3>0, <3>2, <2>a
    <3>3. \A s \in Request : req'[s].pc = "verifyUpdate" => req'[s] = req[s]
      BY <3>2, <3>a
    <3>4. \A s \in Request : req'[s].pc = "verifyUpdate" =>
             \/ req'[s].code = Bypass
             \/ req'[s].code \in Request /\ req'[req'[s].code] = Finished
      BY <3>a, <3>3 DEF CodeInv, Drawn
    <3> QED
      BY <3>a, <3>4, <2>2, <2>c DEF Verify
  <2>3. ASSUME NEW r \in Request,
               LoginDeleted(r) \/ LoginCreateFails(r) \/ VerifyRefused(r) \/ Abort(r)
        PROVE  CodeInv'
    <3>1. req' = Done(r) /\ req[r] # Finished
      BY <2>3, <2>e DEF LoginDeleted, LoginCreateFails, VerifyRefused, Abort, Active
    <3>2. UNCHANGED <<otpInfo, newest, expired, spent>>
      BY <2>3 DEF LoginDeleted, LoginCreateFails, VerifyRefused, Abort
    <3> QED
      BY <3>1, <3>2, <2>b, <2>c DEF CodeInv
  <2>4. ASSUME NEW r \in Request, LoginKnown(r) \/ LoginUnknown(r) PROVE CodeInv'
    <3> DEFINE q == req'[r]
    <3>1. q \in LoginState /\ q.pc # "verifyUpdate" /\ req' = [req EXCEPT ![r] = q]
      <4>1. req[r] \in LoginState
        BY <2>4, AtStep DEF LoginKnown, LoginUnknown
      <4> QED
        BY <4>1, <2>4 DEF LoginKnown, LoginUnknown, Goto, LoginState, TypeOK
    <3>2. req[r] # Finished /\ UNCHANGED <<otpInfo, newest, expired, spent>>
      BY <2>4, <2>e DEF LoginKnown, LoginUnknown
    <3> HIDE DEF q
    <3> QED
      BY <3>1, <3>2, <2>a, <2>c DEF CodeInv
  <2>5. ASSUME NEW r \in Request, VerifyMatches(r) PROVE CodeInv'
    <3> DEFINE q == [req[r] EXCEPT !.pc = "verifyUpdate"]
    <3>1. /\ q \in VerifyState /\ q.code = req[r].code
          /\ q.code = Bypass \/ Drawn(q.code)
      BY <2>5, AtStep, NamesAssumption DEF VerifyMatches, VerifyState, CodeInv, CodeType, Drawn
    <3>2. req' = [req EXCEPT ![r] = q] /\ req[r] # Finished
      BY <2>5, <2>e DEF VerifyMatches, Goto
    <3> HIDE DEF q
    <3>3. /\ \A d : Drawn(d) => Drawn(d)'
          /\ req'[r] = q /\ \A s \in Request : s # r => req'[s] = req[s]
      BY <3>1, <3>2, <2>a
    <3>4. \A s \in Request : req'[s].pc = "verifyUpdate" =>
             \/ req'[s].code = Bypass
             \/ req'[s].code \in Request /\ req'[req'[s].code] = Finished
      BY <3>1, <3>3 DEF CodeInv, Drawn
    <3> QED
      BY <3>3, <3>4, <2>5, <2>c DEF VerifyMatches
  <2>6. ASSUME NEW r \in Request, LoginCreate(r) \/ LoginUpdate(r) \/ SendOtp(r)
        PROVE  CodeInv'
    <3>1. req' = Done(r) /\ req[r] # Finished /\ Store(r) /\ UNCHANGED <<expired, spent>>
      BY <2>6, <2>e DEF LoginCreate, LoginUpdate, SendOtp
    <3> QED
      BY <3>1, <2>d
  <2>7. ASSUME NEW r \in Request, VerifyUpdate(r) PROVE CodeInv'
    <3>1. /\ req' = Done(r) /\ req[r] # Finished
          /\ otpInfo'.code = NoCode /\ otpInfo'.runs = FALSE
          /\ spent' = spent \cup {req[r].code} /\ UNCHANGED <<newest, expired>>
      BY <2>7, <2>e DEF VerifyUpdate
    <3>2. req[r].code = Bypass \/ Drawn(req[r].code)
      BY <2>7 DEF VerifyUpdate, CodeInv
    <3> QED
      BY <3>1, <3>2, <2>b DEF CodeInv
  <2>8. CASE Expire
    <3>1. /\ otpInfo'.code = otpInfo.code /\ otpInfo'.runs = FALSE
          /\ expired' = expired \cup {otpInfo.code}
          /\ UNCHANGED <<req, newest, spent>>
      BY <2>8 DEF Expire, TypeOK
    <3>2. Drawn(otpInfo.code)
      BY <2>8, NamesAssumption DEF Expire, CodeInv, CodeType
    <3> QED
      BY <3>1, <3>2 DEF CodeInv, Drawn
  <2>9. ASSUME \/ Logout \/ Deactivate \/ LikedOrPassed \/ UNCHANGED vars
               \/ \E t \in Token \cup {deviceToken}, push, first \in BOOLEAN :
                      UpdateProfile(t, push, first)
        PROVE  CodeInv'
    <3>1. UNCHANGED <<otpInfo, req, newest, expired, spent>>
      BY <2>9 DEF Logout, Deactivate, LikedOrPassed, UpdateProfile, vars
    <3> QED
      BY <3>1 DEF CodeInv, Drawn
  <2> QED
    BY <2>1, <2>2, <2>3, <2>4, <2>5, <2>6, <2>7, <2>8, <2>9 DEF Next
<1> QED
  BY <1>1, <1>2, TypeCorrect, PTL DEF Spec

\* However logins, code requests and verifications interleave, a code that
\* passes the check of verifyUser is the one stored last, its minute is not
\* over and no verification with it has completed.
THEOREM CheckedCode == Spec => CheckedCodeIsCurrent
<1>1. CodeInv /\ [Next]_vars =>
        [\A r \in Request :
            VerifyMatches(r) /\ req[r].code # Bypass =>
                req[r].code = newest /\ newest \notin expired \cup spent]_vars
  BY DEF CodeInv, VerifyMatches
<1> QED
  BY <1>1, CodeInvHolds, PTL DEF Spec, CheckedCodeIsCurrent

-----------------------------------------------------------------------------
(* Requests that come one at a time.                                       *)

Fresh == newest \notin expired \cup spent \cup {NoCode} /\ Bypass \notin spent

\* The request at work is alone: the token a login has read is still stored, and
\* the code a verification has checked is still the newest and unspent.
SerialInv ==
    ~overlapped =>
        /\ \A r, q \in Active : r = q
        /\ loggedOut => deviceToken = NoToken
        /\ \A r \in Request : req[r].pc = "loginUpdate" => req[r].stored = deviceToken
        /\ Fresh => otpInfo = [code |-> newest, runs |-> TRUE]
        /\ \A r \in Request : req[r].pc = "verifyUpdate" /\ req[r].code # Bypass =>
              req[r].code = newest /\ newest \notin spent

\* A step that ends r, or moves it without a new fact to remember.
LEMMA SerialMoves ==
    ASSUME TypeOK, SerialInv, overlapped' = overlapped, NEW r \in Active,
           UNCHANGED <<deviceToken, loggedOut, otpInfo, newest, expired, spent>>,
           \A q \in Request : q # r => req'[q] = req[q],
           req'[r].pc = "loginUpdate" => req'[r].stored = deviceToken,
           req'[r].pc = "verifyUpdate" /\ req'[r].code # Bypass =>
               req'[r].code = newest /\ newest \notin spent
    PROVE  SerialInv'
<1>1. \A q \in Request : q \in Active' => q \in Active
  BY DEF Active
<1>2. ~overlapped => \A p, q \in Active' : p = q
  BY <1>1 DEF SerialInv, Active
<1>3. Fresh' <=> Fresh
  BY DEF Fresh
<1> QED BY <1>2, <1>3 DEF SerialInv

\* With one request at a time, nobody else is at work beside r.
LEMMA Alone ==
    ASSUME SerialInv, ~overlapped, NEW r \in Active, req' = Done(r), TypeOK
    PROVE  /\ Active' = {}
           /\ \A q \in Request : req'[q].pc \notin {"loginUpdate", "verifyUpdate"}
BY DEF SerialInv, Active, Done, Finished, TypeOK

\* Every step keeps it.
LEMMA SerialStep ==
    TypeOK /\ CodeInv /\ SerialInv /\ [Next]_vars => SerialInv'
<1> SUFFICES ASSUME TypeOK, CodeInv, SerialInv, [Next]_vars, ~overlapped' PROVE SerialInv'
  BY DEF SerialInv
<1> USE DEF profile, doc, history
<1>1. ASSUME NEW r \in Request, Login(r) \/ Verify(r) PROVE SerialInv'
  <2>1. /\ ~overlapped /\ Active = {}
        /\ UNCHANGED <<deviceToken, loggedOut, otpInfo, newest, expired, spent>>
    BY <1>1 DEF Login, Verify, Overlap
  <2>2. req'[r].pc \in {"loginFind", "verifyFind"} /\ \A q \in Request : q # r => req'[q] = req[q]
    BY <1>1 DEF Login, Verify, TypeOK
  <2>3. \A q \in Request : req'[q].pc \notin {"loginUpdate", "verifyUpdate"}
    BY <2>1, <2>2 DEF Active
  <2>4. \A p, q \in Active' : p = q
    BY <2>1, <2>2 DEF Active
  <2>5. Fresh' <=> Fresh
    BY <2>1 DEF Fresh
  <2> QED BY <2>1, <2>3, <2>4, <2>5 DEF SerialInv
<1>2. ASSUME NEW r \in Request,
             LoginDeleted(r) \/ LoginCreateFails(r) \/ VerifyRefused(r) \/ Abort(r)
      PROVE  SerialInv'
  <2>1. /\ r \in Active /\ req' = Done(r) /\ overlapped' = overlapped
        /\ UNCHANGED <<deviceToken, loggedOut, otpInfo, newest, expired, spent>>
    BY <1>2 DEF LoginDeleted, LoginCreateFails, VerifyRefused, Abort, Active
  <2>2. req'[r] = Finished /\ \A q \in Request : q # r => req'[q] = req[q]
    BY <2>1, Moves DEF Done
  <2> QED BY <2>1, <2>2, SerialMoves DEF Finished
<1>3. ASSUME NEW r \in Request, LoginKnown(r) \/ LoginUnknown(r) PROVE SerialInv'
  <2>1. /\ r \in Active /\ overlapped' = overlapped
        /\ UNCHANGED <<deviceToken, loggedOut, otpInfo, newest, expired, spent>>
    BY <1>3 DEF LoginKnown, LoginUnknown, Active
  <2>2. req[r] \in LoginState
    BY <1>3, AtStep DEF LoginKnown, LoginUnknown
  <2>3. /\ req'[r].pc \in {"loginUpdate", "loginCreate"}
        /\ req'[r].pc = "loginUpdate" => req'[r].stored = deviceToken
        /\ \A q \in Request : q # r => req'[q] = req[q]
    BY <1>3, <2>2 DEF LoginKnown, LoginUnknown, Goto, LoginState, TypeOK
  <2> QED BY <2>1, <2>3, SerialMoves
<1>4. ASSUME NEW r \in Request, VerifyMatches(r) PROVE SerialInv'
  <2>1. /\ r \in Active /\ overlapped' = overlapped
        /\ UNCHANGED <<deviceToken, loggedOut, otpInfo, newest, expired, spent>>
    BY <1>4 DEF VerifyMatches, Active
  <2>2. req[r] \in VerifyState
    BY <1>4, AtStep DEF VerifyMatches
  <2>3. /\ req'[r].pc = "verifyUpdate" /\ req'[r].code = req[r].code
        /\ \A q \in Request : q # r => req'[q] = req[q]
    BY <1>4, <2>2 DEF VerifyMatches, Goto, VerifyState, TypeOK
  <2>4. req[r].code # Bypass => req[r].code = newest /\ newest \notin spent
    BY <1>4 DEF VerifyMatches, CodeInv
  <2> QED BY <2>1, <2>3, <2>4, SerialMoves
<1>5. ASSUME NEW r \in Request, LoginCreate(r) \/ LoginUpdate(r) PROVE SerialInv'
  <2>1. r \in Active /\ req' = Done(r) /\ Store(r) /\ ~overlapped
    BY <1>5 DEF LoginCreate, LoginUpdate, Active
  <2>2. loggedOut' => deviceToken' = NoToken
    BY <1>5, <2>1 DEF LoginCreate, LoginUpdate, SerialInv
  <2>3. otpInfo' = [code |-> newest', runs |-> TRUE]
    BY <2>1 DEF Store
  <2> QED BY <2>1, <2>2, <2>3, Alone DEF SerialInv
<1>6. ASSUME NEW r \in Request, SendOtp(r) PROVE SerialInv'
  <2>1. /\ req' = Done(r) /\ Store(r) /\ ~overlapped /\ Active = {}
        /\ UNCHANGED <<deviceToken, loggedOut>>
    BY <1>6 DEF SendOtp, Overlap
  <2>2. Active' = {} /\ \A q \in Request : req'[q].pc \notin {"loginUpdate", "verifyUpdate"}
    BY <2>1 DEF Active, Done, Finished, TypeOK
  <2>3. otpInfo' = [code |-> newest', runs |-> TRUE]
    BY <2>1 DEF Store
  <2> QED BY <2>1, <2>2, <2>3 DEF SerialInv
<1>7. ASSUME NEW r \in Request, VerifyUpdate(r) PROVE SerialInv'
  <2>1. /\ r \in Active /\ req' = Done(r) /\ ~overlapped
        /\ req[r].pc = "verifyUpdate" /\ spent' = spent \cup {req[r].code} /\ newest' = newest
    BY <1>7 DEF VerifyUpdate, Active
  <2>2. loggedOut' => deviceToken' = NoToken
    BY <1>7, <2>1 DEF VerifyUpdate, SerialInv
  <2>3. ~Fresh'
    BY <2>1 DEF Fresh, SerialInv
  <2> QED BY <2>1, <2>2, <2>3, Alone DEF SerialInv
<1>8. CASE Expire
  <2>1. /\ UNCHANGED <<deviceToken, loggedOut, newest, spent, req, overlapped>>
        /\ expired' = expired \cup {newest}
    BY <1>8 DEF Expire, CodeInv
  <2>2. ~Fresh'
    BY <2>1 DEF Fresh
  <2> QED BY <2>1, <2>2 DEF SerialInv, Active
<1>9. ASSUME \/ Logout \/ Deactivate \/ LikedOrPassed
             \/ \E t \in Token \cup {deviceToken}, push, first \in BOOLEAN :
                    UpdateProfile(t, push, first)
      PROVE  SerialInv'
  <2>1. /\ ~overlapped /\ Active = {}
        /\ UNCHANGED <<req, otpInfo, newest, expired, spent>>
    BY <1>9 DEF Logout, Deactivate, LikedOrPassed, UpdateProfile, Overlap
  <2>2. loggedOut' => deviceToken' = NoToken
    BY <1>9, <2>1 DEF Logout, Deactivate, LikedOrPassed, UpdateProfile, SerialInv
  <2>3. \A q \in Request : req[q].pc \notin {"loginUpdate", "verifyUpdate"}
    BY <2>1 DEF Active
  <2>4. Active' = {} /\ (Fresh' <=> Fresh)
    BY <2>1 DEF Active, Fresh
  <2> QED BY <2>1, <2>2, <2>3, <2>4 DEF SerialInv
<1>10. CASE UNCHANGED vars
  BY <1>10 DEF vars, SerialInv, Active, Fresh
<1> QED BY <1>1, <1>2, <1>3, <1>4, <1>5, <1>6, <1>7, <1>8, <1>9, <1>10 DEF Next

\* So it holds throughout.
LEMMA SerialHolds == Spec => []SerialInv
<1>1. Init => SerialInv
  BY DEF Init, SerialInv, Active, Idle, Fresh
<1> QED BY <1>1, SerialStep, CodeInvHolds, TypeCorrect, PTL DEF Spec

\* As long as requests come one at a time, the code sent last stays good for its
\* minute until it is used, whatever other routes, guesses and failures do.
THEOREM FreshStays == Spec => []FreshCodeStays
<1>1. SerialInv => FreshCodeStays
  BY DEF SerialInv, FreshCodeStays, Fresh
<1> QED BY <1>1, SerialHolds, PTL

\* As long as requests come one at a time, no login or verification without a
\* token brings back the token of a device that was logged out.
THEOREM LogoutSilences == Spec => []LoggedOutSilent
<1>1. SerialInv => LoggedOutSilent
  BY DEF SerialInv, LoggedOutSilent
<1> QED BY <1>1, SerialHolds, PTL

\* As long as requests come one at a time, a code signs in once.
THEOREM SpentOnce == Spec => CodeSpentOnceAtATime
<1>1. SerialInv /\ [Next]_vars =>
         [\A r \in Request :
             VerifyUpdate(r) /\ ~overlapped => req[r].code \notin spent \ {Bypass}]_vars
  BY DEF SerialInv, VerifyUpdate
<1> QED BY <1>1, SerialHolds, PTL DEF Spec, CodeSpentOnceAtATime
=============================================================================
