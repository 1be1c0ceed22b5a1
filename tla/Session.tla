------------------------------ MODULE Session -------------------------------
(***************************************************************************)
(* The session of one user in one browser: the cookie with the refresh     *)
(* token, the single flight of the gateway's SessionAuthMiddleware         *)
(* (auth.go), and the rotation of refresh tokens in auth-service           *)
(* (refresh_token_svc.go).                                                 *)
(*                                                                         *)
(* Any number of requests share the cookie.  A request whose access token  *)
(* is not accepted has its refresh token exchanged; requests that come     *)
(* with the same token while that goes on wait for the one that asked.     *)
(* /api/auth/refresh, which the web middleware uses, asks auth-service     *)
(* directly.  There the token is found, revoked and replaced in three      *)
(* statements, which go on when the caller has given up.  Answers may      *)
(* arrive late, in any order, or not at all.                               *)
(***************************************************************************)
EXTENDS Integers, FiniteSets

CONSTANTS
  Requests,  \* the request slots: how many requests run at once
  Flights,   \* the refreshCall objects of the gateway
  NoFlight,  \* no refreshCall
  MaxTokens  \* bound of the tokens that are ever issued

ASSUME FlightsAssumption == NoFlight \notin Flights
ASSUME MaxTokensAssumption == MaxTokens \in Nat

(* Tokens are random; they are numbered as they are stored. *)
Tokens == 1 .. MaxTokens
NoToken == 0

VARIABLES
  jar,       \* the refresh token in the browser's cookie
  issued,    \* the rows of refresh_tokens: 1 .. issued
  valid,     \* those neither revoked nor expired
  parent,    \* parent[t]: the token that t replaced
  auth,      \* auth[r]: what auth-service does for r
  inFlight,  \* refreshInFlight: the flight under way for a token
  flight,    \* flight[f]: whether done is closed, and the result
  req        \* req[r]: the request in slot r

tokenVars == <<issued, valid, parent>>
flightVars == <<inFlight, flight>>
vars == <<jar, tokenVars, auth, flightVars, req>>

Kinds == {"page", "refresh", "logout", "login", "reset"}

(* The Set-Cookie of an answer: a new token, NoToken to clear, or nothing. *)
Cookies == {{}} \cup {{t} : t \in Tokens \cup {NoToken}}

AuthStates ==
  [pc : {"idle", "find", "revoke", "store", "revokeAll", "done"},
   kind : Kinds, token : Tokens \cup {NoToken}, cookies : Cookies]
FlightStates == [closed : BOOLEAN, cookies : Cookies]
RequestStates ==
  [pc : {"idle", "validate", "flight", "call", "wait", "leave", "reply"},
   kind : Kinds, token : Tokens \cup {NoToken}, flight : Flights \cup {NoFlight},
   cookies : Cookies]

AuthIdle == [pc |-> "idle", kind |-> "page", token |-> NoToken, cookies |-> {}]
Idle == [pc |-> "idle", kind |-> "page", token |-> NoToken,
         flight |-> NoFlight, cookies |-> {}]

TypeOK ==
  /\ jar \in Tokens \cup {NoToken}
  /\ issued \in 0 .. MaxTokens
  /\ valid \subseteq 1 .. issued
  /\ parent \in [Tokens -> Tokens \cup {NoToken}]
  /\ auth \in [Requests -> AuthStates]
  /\ inFlight \in [Tokens -> Flights \cup {NoFlight}]
  /\ flight \in [Flights -> FlightStates]
  /\ req \in [Requests -> RequestStates]
  /\ \A r \in Requests :
       /\ req[r].pc \in {"validate", "flight"} => req[r].token \in Tokens
       /\ req[r].pc \in {"wait", "leave"} => req[r].flight \in Flights

Init ==
  /\ jar = NoToken
  /\ issued = 0 /\ valid = {} /\ parent = [t \in Tokens |-> NoToken]
  /\ auth = [r \in Requests |-> AuthIdle]
  /\ inFlight = [t \in Tokens |-> NoFlight]
  /\ flight = [f \in Flights |-> [closed |-> FALSE, cookies |-> {}]]
  /\ req = [r \in Requests |-> Idle]

(***************************************************************************)
(* The browser.                                                            *)
(***************************************************************************)
CallAuth(r, kind, token, pc) ==
  auth' = [auth EXCEPT ![r] = [AuthIdle EXCEPT !.pc = pc, !.kind = kind, !.token = token]]

(* A page or an API call through SessionAuthMiddleware. *)
SendPage(r) ==
  /\ req[r].pc = "idle" /\ auth[r].pc = "idle"
  /\ jar # NoToken
  /\ req' = [req EXCEPT ![r] = [Idle EXCEPT !.pc = "validate", !.token = jar]]
  /\ UNCHANGED <<jar, tokenVars, auth, flightVars>>

(* The routes that are passed on to auth-service as they are; for a logout
   ValidateAccessTokenMiddleware asks for no access token. *)
FirstStep(kind) ==
  CASE kind \in {"refresh", "logout"} -> "find"
    [] kind = "login" -> "store"
    [] kind = "reset" -> "revokeAll"

SendAuth(r, kind) ==
  /\ req[r].pc = "idle" /\ auth[r].pc = "idle"
  /\ kind \in {"refresh", "logout"} => jar # NoToken
  /\ req' = [req EXCEPT ![r] = [Idle EXCEPT !.pc = "call", !.kind = kind, !.token = jar]]
  /\ CallAuth(r, kind, IF kind \in {"refresh", "logout"} THEN jar ELSE NoToken,
              FirstStep(kind))
  /\ UNCHANGED <<jar, tokenVars, flightVars>>

Deliver(r) ==
  /\ req[r].pc = "reply"
  /\ jar' \in IF req[r].cookies = {} THEN {jar} ELSE req[r].cookies
  /\ req' = [req EXCEPT ![r] = Idle]
  /\ UNCHANGED <<tokenVars, auth, flightVars>>

(* The browser gives up, at any time: the gateway's handler goes on. *)
ReplyLost(r) ==
  /\ req[r].pc = "reply"
  /\ req' = [req EXCEPT ![r] = Idle]
  /\ UNCHANGED <<jar, tokenVars, auth, flightVars>>

(***************************************************************************)
(* The gateway.                                                            *)
(***************************************************************************)
Reply(r, cookies) ==
  req' = [req EXCEPT ![r] =
            [@ EXCEPT !.pc = "reply", !.cookies = cookies, !.flight = NoFlight]]

(* resolveSession: the access token is accepted, or not (it has expired, or
   auth-service does not answer). *)
Validated(r) ==
  /\ req[r].pc = "validate"
  /\ \/ Reply(r, {})
     \/ req' = [req EXCEPT ![r].pc = "flight"]
  /\ UNCHANGED <<jar, tokenVars, auth, flightVars>>

(* Faulty: one flight for all tokens. *)
AnyFlight(t) == {f \in Flights : \E s \in Tokens : inFlight[s] = f}

(* Faulty: nobody looks whether there is one. *)
NeverLoaded(t) == {}

(* Faulty: the one found is used, whether or not there is one. *)
AlwaysLoaded(t) == {inFlight[t]}

(* The flight that LoadOrStore finds for a token. *)
Loaded(t) == {inFlight[t]} \ {NoFlight}

(* A refreshCall nobody points to. *)
Free(f) ==
  /\ \A t \in Tokens : inFlight[t] # f
  /\ \A r \in Requests : req[r].flight # f

Lead(r) ==
  /\ req[r].pc = "flight"
  /\ Loaded(req[r].token) = {}
  /\ \E f \in Flights :
       /\ Free(f)
       /\ inFlight' = [inFlight EXCEPT ![req[r].token] = f]
       /\ flight' = [flight EXCEPT ![f] = [closed |-> FALSE, cookies |-> {}]]
       /\ req' = [req EXCEPT ![r] = [@ EXCEPT !.pc = "call", !.flight = f]]
  /\ CallAuth(r, "refresh", req[r].token, "find")
  /\ UNCHANGED <<jar, tokenVars>>

Follow(r) ==
  /\ req[r].pc = "flight"
  /\ \E f \in Loaded(req[r].token) :
       req' = [req EXCEPT ![r] = [@ EXCEPT !.pc = "wait", !.flight = f]]
  /\ UNCHANGED <<jar, tokenVars, auth, flightVars>>

(* Faulty: those who wait are told only of a success. *)
LandedWithSession(r, cookies) ==
  /\ req' = [req EXCEPT ![r] = [@ EXCEPT !.pc = "leave", !.cookies = cookies]]
  /\ flight' = [flight EXCEPT ![req[r].flight] =
                  [closed |-> cookies # {}, cookies |-> cookies]]

(* The leader stores the result and closes done. *)
Landed(r, cookies) ==
  /\ req' = [req EXCEPT ![r] = [@ EXCEPT !.pc = "leave", !.cookies = cookies]]
  /\ flight' = [flight EXCEPT ![req[r].flight] = [closed |-> TRUE, cookies |-> cookies]]

CallReturns(r, cookies) ==
  /\ IF req[r].flight = NoFlight
       THEN Reply(r, cookies) /\ UNCHANGED flight
       ELSE Landed(r, cookies)
  /\ UNCHANGED <<jar, tokenVars, inFlight>>

AuthAnswers(r) ==
  /\ req[r].pc = "call" /\ auth[r].pc = "done"
  /\ CallReturns(r, auth[r].cookies)
  /\ auth' = [auth EXCEPT ![r] = AuthIdle]

(* The HTTP client's timeout, or an answer that is lost: auth-service does not
   notice. *)
AuthTimesOut(r) ==
  /\ req[r].pc = "call"
  /\ CallReturns(r, {})
  /\ UNCHANGED auth

(* Delete, after done was closed. *)
Leave(r) ==
  /\ req[r].pc = "leave"
  /\ inFlight' = [inFlight EXCEPT ![req[r].token] = NoFlight]
  /\ Reply(r, req[r].cookies)
  /\ UNCHANGED <<jar, tokenVars, auth, flight>>

Wake(r) ==
  /\ req[r].pc = "wait"
  /\ flight[req[r].flight].closed
  /\ Reply(r, flight[req[r].flight].cookies)
  /\ UNCHANGED <<jar, tokenVars, auth, flightVars>>

GatewayRestarts ==
  /\ req' = [r \in Requests |-> Idle]
  /\ inFlight' = [t \in Tokens |-> NoFlight]
  /\ UNCHANGED <<jar, tokenVars, auth, flight>>

(***************************************************************************)
(* auth-service.                                                           *)
(***************************************************************************)
AuthStep(r, pc) == auth' = [auth EXCEPT ![r].pc = pc]
AuthDone(r, cookies) ==
  auth' = [auth EXCEPT ![r] = [AuthIdle EXCEPT !.pc = "done", !.cookies = cookies]]

(* FindValidRefreshToken; a logout clears the cookies all the same. *)
FailureCookies(r) == IF auth[r].kind = "logout" THEN {NoToken} ELSE {}

Find(r) ==
  /\ auth[r].pc = "find"
  /\ IF auth[r].token \in valid
       THEN AuthStep(r, "revoke")
       ELSE AuthDone(r, FailureCookies(r))
  /\ UNCHANGED <<jar, tokenVars, flightVars, req>>

(* Faulty: the token is left valid until the new one is there. *)
RevokeLater(r) == UNCHANGED valid

(* RevokeRefreshToken, whether or not there still is something to revoke. *)
RevokeToken(r) == valid' = valid \ {auth[r].token}

Revoke(r) ==
  /\ auth[r].pc = "revoke"
  /\ RevokeToken(r)
  /\ IF auth[r].kind = "logout" THEN AuthDone(r, {NoToken}) ELSE AuthStep(r, "store")
  /\ UNCHANGED <<jar, issued, parent, flightVars, req>>

(* GenerateAccessRefreshTokenPair, for a refresh or a login. *)
Store(r) ==
  /\ auth[r].pc = "store"
  /\ issued < MaxTokens
  /\ issued' = issued + 1
  /\ valid' = valid \cup {issued'}
  /\ parent' = [parent EXCEPT ![issued'] = auth[r].token]
  /\ AuthDone(r, {issued'})
  /\ UNCHANGED <<jar, flightVars, req>>

(* BlacklistTokenOnEmail *)
RevokeAll(r) ==
  /\ auth[r].pc = "revokeAll"
  /\ valid' = {}
  /\ AuthDone(r, {})
  /\ UNCHANGED <<jar, issued, parent, flightVars, req>>

(* A statement fails, or the process ends. *)
AuthFails(r) ==
  /\ auth[r].pc \notin {"idle", "done"}
  /\ AuthDone(r, FailureCookies(r))
  /\ UNCHANGED <<jar, tokenVars, flightVars, req>>

(* Nobody is there to take the answer. *)
AuthForgets(r) ==
  /\ auth[r].pc = "done" /\ req[r].pc # "call"
  /\ auth' = [auth EXCEPT ![r] = AuthIdle]
  /\ UNCHANGED <<jar, tokenVars, flightVars, req>>

Expire(t) ==
  /\ t \in valid
  /\ valid' = valid \ {t}
  /\ UNCHANGED <<jar, issued, parent, auth, flightVars, req>>

Gateway(r) ==
  \/ Validated(r) \/ Lead(r) \/ Follow(r)
  \/ AuthAnswers(r) \/ AuthTimesOut(r) \/ Leave(r) \/ Wake(r)

Next ==
  \/ GatewayRestarts
  \/ \E t \in Tokens : Expire(t)
  \/ \E r \in Requests :
       \/ SendPage(r) \/ Deliver(r) \/ ReplyLost(r)
       \/ \E kind \in Kinds \ {"page"} : SendAuth(r, kind)
       \/ Gateway(r)
       \/ Find(r) \/ Revoke(r) \/ Store(r) \/ RevokeAll(r) \/ AuthFails(r) \/ AuthForgets(r)

Spec == Init /\ [][Next]_vars

(* The gateway's goroutines go on, and its HTTP client has a timeout. *)
FairSpec == Spec /\ \A r \in Requests : WF_vars(Gateway(r))

(***************************************************************************)
(* Properties.                                                             *)
(***************************************************************************)

(* Single flight: of the requests that come with one token, one at a time asks
   auth-service, whenever the others come, wait or leave. *)
Asking(t) ==
  {r \in Requests : req[r].pc = "call" /\ req[r].flight # NoFlight /\ req[r].token = t}
OneFlight == \A t \in Tokens, r \in Requests, q \in Requests :
  r \in Asking(t) /\ q \in Asking(t) => r = q

(* Rotation: a token is not valid any more when the one that replaced it is
   there, whoever else exchanged it and whichever step failed. *)
NeverBothValid == \A t \in 1 .. issued : parent[t] \notin valid

(* A request is given the successor of the token it came with, also when
   another request asked for it, and never that of another session. *)
OwnSuccessor ==
  \A r \in Requests :
    req[r].pc = "reply" /\ req[r].kind \in {"page", "refresh"} =>
      \A t \in req[r].cookies : t # NoToken /\ parent[t] = req[r].token

(* Those who wait for a flight are answered, however it ends. *)
WaitersAnswered == \A r \in Requests : req[r].pc = "wait" ~> req[r].pc # "wait"

(* "revoke the refresh token so that it can't be used again" *)
ExchangedOnce ==
  \A s \in 1 .. issued, t \in 1 .. issued :
    parent[s] = parent[t] /\ parent[s] # NoToken => s = t
=============================================================================
