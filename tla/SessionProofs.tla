--------------------------- MODULE SessionProofs ----------------------------
(***************************************************************************)
(* Proofs about Session, for any number of requests, flights and tokens.   *)
(*                                                                         *)
(* NeverBothValid rests on the order of the rotation: a request is about   *)
(* to store a successor only when its token was revoked, and a token once  *)
(* revoked never becomes valid again.  OneFlight and OwnSuccessor rest on  *)
(* what a flight stands for: one token, and one leader at most, until      *)
(* nobody holds it any more.                                               *)
(***************************************************************************)
EXTENDS Session, TLAPS

(* Nobody knows a token before it is stored. *)
Known ==
  /\ jar \in 0 .. issued
  /\ \A t \in 1 .. issued : parent[t] \in 0 .. issued
  /\ \A r \in Requests :
       /\ auth[r].token \in 0 .. issued
       /\ auth[r].cookies \subseteq 0 .. issued
       /\ req[r].token \in 0 .. issued
       /\ req[r].cookies \subseteq 0 .. issued
  /\ \A f \in Flights : flight[f].cookies \subseteq 0 .. issued

(* What is about to be replaced is revoked. *)
StoreRevoked == \A r \in Requests : auth[r].pc = "store" => auth[r].token \notin valid

(* Cookies that a request with token t may be given. *)
SuccessorsOf(t, cookies) == \A c \in cookies : c # NoToken /\ parent[c] = t

(* A flight stands for one token: in the map, and for all who hold it. *)
FlightsStand ==
  /\ \A t \in Tokens : inFlight[t] # NoFlight =>
       /\ \A s \in Tokens : inFlight[s] = inFlight[t] => s = t
       /\ \A r \in Requests : req[r].flight = inFlight[t] => req[r].token = t
       /\ SuccessorsOf(t, flight[inFlight[t]].cookies)
  /\ \A r \in Requests : req[r].flight # NoFlight =>
       /\ \A q \in Requests : req[q].flight = req[r].flight => req[q].token = req[r].token
       /\ SuccessorsOf(req[r].token, flight[req[r].flight].cookies)

(* A leader's flight is in the map, and it is the only leader. *)
Leads(r) == req[r].pc \in {"call", "leave"} /\ req[r].flight # NoFlight
OneLeader ==
  \A r \in Requests : Leads(r) =>
    /\ inFlight[req[r].token] = req[r].flight
    /\ \A q \in Requests : Leads(q) /\ req[q].flight = req[r].flight => q = r

(* What auth-service does for a request, and what it answers, is about the
   token the request came with. *)
Exchanges(r) == req[r].kind \in {"page", "refresh"}
CallsOwn ==
  \A r \in Requests : Exchanges(r) =>
    /\ req[r].pc = "call" =>
         \/ /\ auth[r].pc \in {"find", "revoke", "store"}
            /\ auth[r].kind = "refresh" /\ auth[r].token = req[r].token
         \/ auth[r].pc = "done" /\ SuccessorsOf(req[r].token, auth[r].cookies)
    /\ req[r].pc \in {"leave", "reply"} => SuccessorsOf(req[r].token, req[r].cookies)

(* Who holds a flight or asks for one has a token; its kind is page. *)
Holders ==
  \A r \in Requests :
    /\ req[r].pc \in {"validate", "flight"} => req[r].kind = "page"
    /\ req[r].pc \in {"validate", "flight", "wait", "leave"} => req[r].token \in Tokens
    /\ req[r].flight # NoFlight =>
         /\ req[r].pc \in {"call", "wait", "leave"}
         /\ req[r].kind = "page" /\ req[r].token \in Tokens

IInv ==
  /\ TypeOK /\ Known /\ StoreRevoked /\ NeverBothValid
  /\ FlightsStand /\ OneLeader /\ CallsOwn /\ Holders

LEMMA TypeInit == Init => TypeOK
BY FlightsAssumption, MaxTokensAssumption
DEF Init, TypeOK, AuthIdle, Idle, AuthStates, FlightStates, RequestStates, Cookies, Tokens,
    NoToken, Kinds

(* The records keep their types when they are updated. *)
LEMMA CookiesType == {} \in Cookies /\ \A t \in Tokens \cup {NoToken} : {t} \in Cookies
BY DEF Cookies

LEMMA RequestType ==
  ASSUME NEW x \in RequestStates
  PROVE  /\ [x EXCEPT !.pc = "flight"] \in RequestStates
         /\ \A f \in Flights : /\ [x EXCEPT !.pc = "call", !.flight = f] \in RequestStates
                              /\ [x EXCEPT !.pc = "wait", !.flight = f] \in RequestStates
         /\ \A c \in Cookies :
              /\ [x EXCEPT !.pc = "leave", !.cookies = c] \in RequestStates
              /\ [x EXCEPT !.pc = "reply", !.cookies = c, !.flight = NoFlight]
                    \in RequestStates
BY DEF RequestStates

LEMMA NewRequestType ==
  ASSUME NEW t \in Tokens \cup {NoToken}, NEW kind \in Kinds
  PROVE  /\ Idle \in RequestStates
         /\ [Idle EXCEPT !.pc = "validate", !.token = t] \in RequestStates
         /\ [Idle EXCEPT !.pc = "call", !.kind = kind, !.token = t] \in RequestStates
BY CookiesType DEF RequestStates, Idle, Kinds

LEMMA AuthType ==
  ASSUME NEW x \in AuthStates
  PROVE  /\ [x EXCEPT !.pc = "revoke"] \in AuthStates
         /\ [x EXCEPT !.pc = "store"] \in AuthStates
         /\ AuthIdle \in AuthStates
         /\ \A c \in Cookies : [AuthIdle EXCEPT !.pc = "done", !.cookies = c] \in AuthStates
         /\ \A t \in Tokens \cup {NoToken}, kind \in Kinds, pc \in {"find", "store", "revokeAll"} :
              [AuthIdle EXCEPT !.pc = pc, !.kind = kind, !.token = t] \in AuthStates
BY CookiesType DEF AuthStates, AuthIdle, Kinds

LEMMA Fields ==
  ASSUME TypeOK, NEW r \in Requests
  PROVE  /\ req[r] \in RequestStates /\ req[r].token \in Tokens \cup {NoToken}
         /\ req[r].cookies \in Cookies /\ req[r].kind \in Kinds
         /\ req[r].flight \in Flights \cup {NoFlight}
         /\ auth[r] \in AuthStates /\ auth[r].token \in Tokens \cup {NoToken}
         /\ auth[r].cookies \in Cookies /\ auth[r].kind \in Kinds
         /\ \A f \in Flights : flight[f] \in FlightStates /\ flight[f].cookies \in Cookies
BY DEF TypeOK, RequestStates, AuthStates, FlightStates

(* What the steps of a request do to the requests, the calls and the flights. *)
LEMMA ReplyType ==
  ASSUME TypeOK, NEW r \in Requests, NEW c \in Cookies, Reply(r, c)
  PROVE  /\ req' \in [Requests -> RequestStates]
         /\ req'[r].pc = "reply" /\ req'[r].cookies = c /\ req'[r].flight = NoFlight
         /\ req'[r].kind = req[r].kind /\ req'[r].token = req[r].token
         /\ \A q \in Requests \ {r} : req'[q] = req[q]
<1>1. req' \in [Requests -> RequestStates] BY RequestType, Fields DEF Reply, TypeOK
<1>2. req[r] \in RequestStates BY Fields
<1> QED BY <1>1, <1>2 DEF Reply, TypeOK, RequestStates

LEMMA LandedType ==
  ASSUME TypeOK, NEW r \in Requests, req[r].flight \in Flights, NEW c \in Cookies, Landed(r, c)
  PROVE  /\ req' \in [Requests -> RequestStates] /\ flight' \in [Flights -> FlightStates]
         /\ req'[r].pc = "leave" /\ req'[r].cookies = c /\ req'[r].flight = req[r].flight
         /\ req'[r].kind = req[r].kind /\ req'[r].token = req[r].token
         /\ \A q \in Requests \ {r} : req'[q] = req[q]
         /\ flight'[req[r].flight].cookies = c
         /\ \A f \in Flights \ {req[r].flight} : flight'[f] = flight[f]
<1>1. req' \in [Requests -> RequestStates] BY RequestType, Fields DEF Landed, TypeOK
<1>2. flight' \in [Flights -> FlightStates] BY DEF Landed, TypeOK, FlightStates
<1>3. req[r] \in RequestStates BY Fields
<1> QED BY <1>1, <1>2, <1>3 DEF Landed, TypeOK, RequestStates

LEMMA HoldsType ==
  ASSUME TypeOK, NEW r \in Requests, NEW f \in Flights, NEW pc \in {"call", "wait"},
         req' = [req EXCEPT ![r] = [@ EXCEPT !.pc = pc, !.flight = f]]
  PROVE  /\ req' \in [Requests -> RequestStates]
         /\ req'[r].pc = pc /\ req'[r].cookies = req[r].cookies /\ req'[r].flight = f
         /\ req'[r].kind = req[r].kind /\ req'[r].token = req[r].token
         /\ \A q \in Requests \ {r} : req'[q] = req[q]
<1>1. req' \in [Requests -> RequestStates] BY RequestType, Fields DEF TypeOK
<1>2. req[r] \in RequestStates BY Fields
<1> QED BY <1>1, <1>2 DEF TypeOK, RequestStates

LEMMA AuthDoneType ==
  ASSUME TypeOK, NEW r \in Requests, NEW c \in Cookies, AuthDone(r, c)
  PROVE  /\ auth' \in [Requests -> AuthStates]
         /\ auth'[r].pc = "done" /\ auth'[r].cookies = c /\ auth'[r].token = NoToken
         /\ \A q \in Requests \ {r} : auth'[q] = auth[q]
<1>1. auth' \in [Requests -> AuthStates] BY AuthType, Fields DEF AuthDone, TypeOK
<1> QED BY <1>1 DEF AuthDone, TypeOK, AuthIdle

LEMMA AuthStepType ==
  ASSUME TypeOK, NEW r \in Requests, NEW pc \in {"revoke", "store"}, AuthStep(r, pc)
  PROVE  /\ auth' \in [Requests -> AuthStates]
         /\ auth'[r].pc = pc /\ auth'[r].cookies = auth[r].cookies
         /\ auth'[r].token = auth[r].token /\ auth'[r].kind = auth[r].kind
         /\ \A q \in Requests \ {r} : auth'[q] = auth[q]
<1>1. auth[r] \in AuthStates BY Fields
<1> QED BY <1>1 DEF AuthStep, TypeOK, AuthStates

LEMMA CallAuthType ==
  ASSUME TypeOK, NEW r \in Requests, NEW kind \in Kinds, NEW t \in Tokens \cup {NoToken},
         NEW pc \in {"find", "store", "revokeAll"}, CallAuth(r, kind, t, pc)
  PROVE  /\ auth' \in [Requests -> AuthStates]
         /\ auth'[r].pc = pc /\ auth'[r].cookies = {}
         /\ auth'[r].token = t /\ auth'[r].kind = kind
         /\ \A q \in Requests \ {r} : auth'[q] = auth[q]
<1>1. auth' \in [Requests -> AuthStates] BY AuthType, Fields DEF CallAuth, TypeOK
<1> QED BY <1>1 DEF CallAuth, TypeOK, AuthIdle

LEMMA FailureCookiesType ==
  ASSUME NEW r PROVE FailureCookies(r) \in Cookies
BY CookiesType DEF FailureCookies
LEMMA CallReturnsType ==
  ASSUME TypeOK, NEW r \in Requests, NEW c \in Cookies, CallReturns(r, c)
  PROVE  /\ req' \in [Requests -> RequestStates] /\ flight' \in [Flights -> FlightStates]
         /\ \A q \in Requests :
              /\ req'[q].pc \in {"validate", "flight"} => req'[q].token \in Tokens
              /\ req'[q].pc \in {"wait", "leave"} => req'[q].flight \in Flights
<1>1. CASE req[r].flight = NoFlight
  BY <1>1, ReplyType DEF CallReturns, TypeOK
<1>2. CASE req[r].flight # NoFlight
  <2>1. req[r].flight \in Flights BY <1>2, Fields
  <2>2. Landed(r, c) BY <1>2 DEF CallReturns
  <2> QED BY <2>1, <2>2, LandedType DEF TypeOK
<1> QED BY <1>1, <1>2

LEMMA NextType == TypeOK /\ [Next]_vars => TypeOK'
<1> SUFFICES ASSUME TypeOK, [Next]_vars PROVE TypeOK' OBVIOUS
<1> USE FlightsAssumption, MaxTokensAssumption, CookiesType
    DEF TypeOK, Tokens, NoToken, tokenVars, flightVars
<1>1. CASE GatewayRestarts
  <2>1. Idle \in RequestStates BY NewRequestType DEF Kinds
  <2> QED BY <1>1, <2>1 DEF GatewayRestarts, Idle
<1>2. ASSUME NEW t \in Tokens, Expire(t) PROVE TypeOK' BY <1>2 DEF Expire
<1>3. ASSUME NEW r \in Requests, SendPage(r) PROVE TypeOK'
  <2>1. [Idle EXCEPT !.pc = "validate", !.token = jar] \in RequestStates
    BY NewRequestType DEF Kinds
  <2> QED BY <1>3, <2>1 DEF SendPage, Idle
<1>4. ASSUME NEW r \in Requests, NEW kind \in Kinds \ {"page"}, SendAuth(r, kind) PROVE TypeOK'
  <2>1. [Idle EXCEPT !.pc = "call", !.kind = kind, !.token = jar] \in RequestStates
    BY NewRequestType
  <2>2. FirstStep(kind) \in {"find", "store", "revokeAll"} BY DEF FirstStep, Kinds
  <2>3. auth' \in [Requests -> AuthStates] BY <1>4, <2>2, CallAuthType DEF SendAuth
  <2> QED BY <1>4, <2>1, <2>3 DEF SendAuth, Idle
<1>5. ASSUME NEW r \in Requests, Deliver(r) PROVE TypeOK'
  <2>1. Idle \in RequestStates BY NewRequestType DEF Kinds
  <2>2. jar' \in Tokens \cup {NoToken} BY <1>5, Fields DEF Deliver, Cookies
  <2> QED BY <1>5, <2>1, <2>2 DEF Deliver, Idle
<1>6. ASSUME NEW r \in Requests, ReplyLost(r) PROVE TypeOK'
  <2>1. Idle \in RequestStates BY NewRequestType DEF Kinds
  <2> QED BY <1>6, <2>1 DEF ReplyLost, Idle
<1>7. ASSUME NEW r \in Requests, Validated(r) PROVE TypeOK'
  <2>1. CASE Reply(r, {}) BY <1>7, <2>1, ReplyType DEF Validated
  <2>2. CASE req' = [req EXCEPT ![r].pc = "flight"]
    <3>1. req' \in [Requests -> RequestStates] /\ req'[r].pc = "flight"
      BY <2>2, Fields DEF RequestStates
    <3> QED BY <1>7, <2>2, <3>1 DEF Validated
  <2> QED BY <1>7, <2>1, <2>2 DEF Validated
<1>8. ASSUME NEW r \in Requests, Lead(r) PROVE TypeOK'
  <2>1. PICK f \in Flights :
          /\ inFlight' = [inFlight EXCEPT ![req[r].token] = f]
          /\ flight' = [flight EXCEPT ![f] = [closed |-> FALSE, cookies |-> {}]]
          /\ req' = [req EXCEPT ![r] = [@ EXCEPT !.pc = "call", !.flight = f]]
    BY <1>8 DEF Lead
  <2>2. req' \in [Requests -> RequestStates] /\ req'[r].pc = "call" BY <2>1, HoldsType
  <2>3. flight' \in [Flights -> FlightStates] BY <2>1 DEF FlightStates
  <2>4. auth' \in [Requests -> AuthStates] BY <1>8, CallAuthType, Fields DEF Lead, Kinds
  <2> QED BY <1>8, <2>1, <2>2, <2>3, <2>4 DEF Lead
<1>9. ASSUME NEW r \in Requests, Follow(r) PROVE TypeOK'
  <2>1. PICK f \in Loaded(req[r].token) :
          req' = [req EXCEPT ![r] = [@ EXCEPT !.pc = "wait", !.flight = f]]
    BY <1>9 DEF Follow
  <2>2. f \in Flights BY <1>9, <2>1, Fields DEF Follow, Loaded
  <2>3. req' \in [Requests -> RequestStates] /\ req'[r].flight = f /\ req'[r].pc = "wait"
    BY <2>1, <2>2, HoldsType
  <2> QED BY <1>9, <2>1, <2>2, <2>3 DEF Follow
<1>10. ASSUME NEW r \in Requests, AuthAnswers(r) PROVE TypeOK'
  <2>1. CallReturns(r, auth[r].cookies) /\ auth[r].cookies \in Cookies
    BY <1>10, Fields DEF AuthAnswers
  <2>2. AuthIdle \in AuthStates BY Fields, AuthType
  <2> QED BY <1>10, <2>1, <2>2, CallReturnsType DEF AuthAnswers, CallReturns
<1>11. ASSUME NEW r \in Requests, AuthTimesOut(r) PROVE TypeOK'
  BY <1>11, CallReturnsType DEF AuthTimesOut, CallReturns
<1>12. ASSUME NEW r \in Requests, Leave(r) PROVE TypeOK'
  BY <1>12, ReplyType, Fields DEF Leave
<1>13. ASSUME NEW r \in Requests, Wake(r) PROVE TypeOK'
  BY <1>13, ReplyType, Fields DEF Wake
<1>14. ASSUME NEW r \in Requests, Find(r) PROVE TypeOK'
  BY <1>14, AuthStepType, AuthDoneType, FailureCookiesType DEF Find
<1>15. ASSUME NEW r \in Requests, Revoke(r) PROVE TypeOK'
  BY <1>15, AuthStepType, AuthDoneType DEF Revoke, RevokeToken
<1>16. ASSUME NEW r \in Requests, Store(r) PROVE TypeOK'
  <2>1. issued' \in 1 .. MaxTokens /\ issued' = issued + 1 BY <1>16 DEF Store
  <2>2. {issued'} \in Cookies BY <2>1
  <2>3. auth' \in [Requests -> AuthStates] BY <1>16, <2>2, AuthDoneType DEF Store
  <2>4. valid' \subseteq 1 .. issued'
    <3>1. valid' = valid \cup {issued'} BY <1>16 DEF Store
    <3>2. \A t \in valid : t \in 1 .. issued' BY <2>1
    <3> QED BY <2>1, <3>1, <3>2
  <2>5. parent' \in [Tokens -> Tokens \cup {NoToken}] BY <1>16, Fields DEF Store
  <2> QED BY <1>16, <2>1, <2>3, <2>4, <2>5 DEF Store
<1>17. ASSUME NEW r \in Requests, RevokeAll(r) PROVE TypeOK' BY <1>17, AuthDoneType DEF RevokeAll
<1>18. ASSUME NEW r \in Requests, AuthFails(r) PROVE TypeOK'
  BY <1>18, AuthDoneType, FailureCookiesType DEF AuthFails
<1>19. ASSUME NEW r \in Requests, AuthForgets(r) PROVE TypeOK'
  <2>1. AuthIdle \in AuthStates BY Fields, AuthType
  <2> QED BY <1>19, <2>1 DEF AuthForgets
<1>20. CASE UNCHANGED vars BY <1>20 DEF vars
<1> QED
  BY <1>1, <1>2, <1>3, <1>4, <1>5, <1>6, <1>7, <1>8, <1>9, <1>10, <1>11, <1>12, <1>13, <1>14,
     <1>15, <1>16, <1>17, <1>18, <1>19, <1>20 DEF Next, Gateway
(* A request that holds no flight any more disturbs no other. *)
LEMMA LetsGo ==
  ASSUME NEW r \in Requests, FlightsStand, OneLeader, req'[r].flight = NoFlight,
         \A q \in Requests \ {r} : req'[q] = req[q],
         UNCHANGED <<inFlight, flight, parent>>
  PROVE  FlightsStand' /\ OneLeader'
<1>1. FlightsStand' BY DEF FlightsStand, SuccessorsOf
<1>2. OneLeader' BY DEF OneLeader, Leads
<1> QED BY <1>1, <1>2

LEMMA TokensNext ==
  IInv /\ [Next]_vars => Known' /\ StoreRevoked' /\ NeverBothValid'
<1> SUFFICES ASSUME IInv, [Next]_vars PROVE Known' /\ StoreRevoked' /\ NeverBothValid'
  OBVIOUS
<1>0. TypeOK /\ TypeOK' /\ Known /\ StoreRevoked /\ NeverBothValid BY NextType DEF IInv
<1>a. issued \in Nat BY <1>0 DEF TypeOK
<1>b. ASSUME UNCHANGED tokenVars, \A q \in Requests : auth'[q].pc = "store" =>
                auth[q].pc = "store" /\ auth'[q].token = auth[q].token
      PROVE  StoreRevoked' /\ NeverBothValid'
  BY <1>0, <1>b DEF StoreRevoked, NeverBothValid, tokenVars
<1>1. CASE GatewayRestarts
  <2>1. Known' BY <1>0, <1>1, <1>a DEF GatewayRestarts, Known, Idle, tokenVars, NoToken
  <2> QED BY <1>1, <2>1, <1>b DEF GatewayRestarts
<1>2. ASSUME NEW t \in Tokens, Expire(t) PROVE Known' /\ StoreRevoked' /\ NeverBothValid'
  BY <1>2, <1>0 DEF Expire, Known, StoreRevoked, NeverBothValid, flightVars
<1>3. ASSUME NEW r \in Requests, SendPage(r) PROVE Known' /\ StoreRevoked' /\ NeverBothValid'
  <2>1. req'[r].token = jar /\ req'[r].cookies = {} /\ \A q \in Requests \ {r} : req'[q] = req[q]
    BY <1>3, <1>0 DEF SendPage, Idle, TypeOK
  <2>2. Known' BY <1>0, <1>3, <1>a, <2>1 DEF SendPage, Known, tokenVars, flightVars
  <2> QED BY <1>3, <2>2, <1>b DEF SendPage
<1>4. ASSUME NEW r \in Requests, NEW kind \in Kinds \ {"page"}, SendAuth(r, kind)
      PROVE  Known' /\ StoreRevoked' /\ NeverBothValid'
  <2>1. req'[r].token = jar /\ req'[r].cookies = {} /\ \A q \in Requests \ {r} : req'[q] = req[q]
    BY <1>4, <1>0 DEF SendAuth, Idle, TypeOK
  <2> DEFINE t == IF kind \in {"refresh", "logout"} THEN jar ELSE NoToken
  <2>2. FirstStep(kind) \in {"find", "store", "revokeAll"} /\ t \in Tokens \cup {NoToken}
    BY <1>0 DEF FirstStep, Kinds, TypeOK
  <2>3. /\ auth'[r].pc = FirstStep(kind) /\ auth'[r].token = t /\ auth'[r].cookies = {}
        /\ \A q \in Requests \ {r} : auth'[q] = auth[q]
    BY <1>4, <1>0, <2>2, CallAuthType DEF SendAuth
  <2>4. t \in 0 .. issued BY <1>0, <1>a DEF Known, NoToken
  <2>5. Known' BY <1>0, <1>4, <1>a, <2>1, <2>3, <2>4 DEF SendAuth, Known, tokenVars, flightVars
  <2>6. FirstStep(kind) = "store" => t = NoToken BY DEF FirstStep, Kinds
  <2>7. NoToken \notin valid BY <1>0 DEF TypeOK, NoToken
  <2>8. StoreRevoked' BY <1>0, <1>4, <2>3, <2>6, <2>7 DEF SendAuth, StoreRevoked, tokenVars
  <2>9. NeverBothValid' BY <1>0, <1>4 DEF SendAuth, NeverBothValid, tokenVars
  <2> QED BY <2>5, <2>8, <2>9
<1>5. ASSUME NEW r \in Requests, Deliver(r) PROVE Known' /\ StoreRevoked' /\ NeverBothValid'
  <2>1. /\ req'[r].token = 0 /\ req'[r].cookies = {}
        /\ \A q \in Requests \ {r} : req'[q] = req[q]
    BY <1>5, <1>0 DEF Deliver, Idle, TypeOK, NoToken
  <2>2. jar' \in 0 .. issued BY <1>5, <1>0 DEF Deliver, Known
  <2>3. Known' BY <1>0, <1>5, <1>a, <2>1, <2>2 DEF Deliver, Known, tokenVars, flightVars
  <2> QED BY <1>5, <2>3, <1>b DEF Deliver
<1>6. ASSUME NEW r \in Requests, ReplyLost(r) PROVE Known' /\ StoreRevoked' /\ NeverBothValid'
  <2>1. /\ req'[r].token = 0 /\ req'[r].cookies = {}
        /\ \A q \in Requests \ {r} : req'[q] = req[q]
    BY <1>6, <1>0 DEF ReplyLost, Idle, TypeOK, NoToken
  <2>2. Known' BY <1>0, <1>6, <1>a, <2>1 DEF ReplyLost, Known, tokenVars, flightVars
  <2> QED BY <1>6, <2>2, <1>b DEF ReplyLost
<1>7. ASSUME NEW r \in Requests, Validated(r) PROVE Known' /\ StoreRevoked' /\ NeverBothValid'
  <2>1. /\ req'[r].token = req[r].token /\ req'[r].cookies \subseteq req[r].cookies
        /\ \A q \in Requests \ {r} : req'[q] = req[q]
    <3>1. CASE Reply(r, {}) BY <1>0, <3>1, ReplyType, CookiesType
    <3>2. CASE req' = [req EXCEPT ![r].pc = "flight"]
      BY <1>0, <3>2, Fields DEF TypeOK, RequestStates
    <3> QED BY <1>7, <3>1, <3>2 DEF Validated
  <2>2. Known' BY <1>0, <1>7, <2>1 DEF Validated, Known, tokenVars, flightVars
  <2> QED BY <1>7, <2>2, <1>b DEF Validated
<1>8. ASSUME NEW r \in Requests, Lead(r) PROVE Known' /\ StoreRevoked' /\ NeverBothValid'
  <2>1. PICK f \in Flights :
          /\ flight' = [flight EXCEPT ![f] = [closed |-> FALSE, cookies |-> {}]]
          /\ req' = [req EXCEPT ![r] = [@ EXCEPT !.pc = "call", !.flight = f]]
    BY <1>8 DEF Lead
  <2>2. /\ req'[r].token = req[r].token /\ req'[r].cookies = req[r].cookies
        /\ \A q \in Requests \ {r} : req'[q] = req[q]
    BY <1>0, <2>1, HoldsType
  <2>3. /\ auth'[r].pc = "find" /\ auth'[r].token = req[r].token /\ auth'[r].cookies = {}
        /\ \A q \in Requests \ {r} : auth'[q] = auth[q]
    BY <1>8, <1>0, Fields, CallAuthType DEF Lead, Kinds
  <2>4. \A g \in Flights : flight'[g].cookies \subseteq flight[g].cookies
    BY <1>0, <2>1 DEF TypeOK
  <2>5. Known' BY <1>0, <1>8, <2>2, <2>3, <2>4 DEF Lead, Known, tokenVars
  <2> QED BY <1>8, <2>3, <2>5, <1>b DEF Lead
<1>9. ASSUME NEW r \in Requests, Follow(r) PROVE Known' /\ StoreRevoked' /\ NeverBothValid'
  <2>1. PICK f \in Loaded(req[r].token) :
          req' = [req EXCEPT ![r] = [@ EXCEPT !.pc = "wait", !.flight = f]]
    BY <1>9 DEF Follow
  <2>2. f \in Flights BY <1>0, <1>9, <2>1 DEF Follow, Loaded, TypeOK
  <2>3. /\ req'[r].token = req[r].token /\ req'[r].cookies = req[r].cookies
        /\ \A q \in Requests \ {r} : req'[q] = req[q]
    BY <1>0, <2>1, <2>2, HoldsType
  <2>4. Known' BY <1>0, <1>9, <2>3 DEF Follow, Known, tokenVars, flightVars
  <2> QED BY <1>9, <2>4, <1>b DEF Follow
<1>c. ASSUME NEW r \in Requests, NEW c \in Cookies, c \subseteq 0 .. issued, CallReturns(r, c),
             \A q \in Requests : /\ auth'[q].token \in 0 .. issued
                                /\ auth'[q].cookies \subseteq 0 .. issued
      PROVE  Known'
  <2>1. CASE req[r].flight = NoFlight
    <3>1. Reply(r, c) BY <1>c, <2>1 DEF CallReturns
    <3> QED BY <1>0, <1>c, <2>1, <3>1, ReplyType DEF CallReturns, Known, tokenVars
  <2>2. CASE req[r].flight # NoFlight
    <3>1. Landed(r, c) /\ req[r].flight \in Flights BY <1>0, <1>c, <2>2, Fields DEF CallReturns
    <3> QED BY <1>0, <1>c, <2>2, <3>1, LandedType DEF CallReturns, Known, tokenVars
  <2> QED BY <2>1, <2>2
<1>10. ASSUME NEW r \in Requests, AuthAnswers(r)
       PROVE  Known' /\ StoreRevoked' /\ NeverBothValid'
  <2>1. CallReturns(r, auth[r].cookies) /\ auth[r].cookies \in Cookies
    BY <1>0, <1>10, Fields DEF AuthAnswers
  <2>2. /\ auth'[r].token = 0 /\ auth'[r].cookies = {} /\ auth'[r].pc = "idle"
        /\ \A q \in Requests \ {r} : auth'[q] = auth[q]
    BY <1>0, <1>10 DEF AuthAnswers, AuthIdle, TypeOK, NoToken
  <2>3. Known' BY <1>0, <1>a, <1>c, <2>1, <2>2 DEF Known
  <2> QED BY <2>1, <2>2, <2>3, <1>b DEF CallReturns
<1>11. ASSUME NEW r \in Requests, AuthTimesOut(r)
       PROVE  Known' /\ StoreRevoked' /\ NeverBothValid'
  <2>1. CallReturns(r, {}) /\ UNCHANGED auth BY <1>11 DEF AuthTimesOut
  <2>2. Known' BY <1>0, <1>c, <2>1, CookiesType DEF Known
  <2> QED BY <2>1, <2>2, <1>b DEF CallReturns
<1>12. ASSUME NEW r \in Requests, Leave(r) PROVE Known' /\ StoreRevoked' /\ NeverBothValid'
  <2>1. Known' BY <1>0, <1>12, ReplyType, Fields DEF Leave, Known, tokenVars
  <2> QED BY <1>12, <2>1, <1>b DEF Leave
<1>13. ASSUME NEW r \in Requests, Wake(r) PROVE Known' /\ StoreRevoked' /\ NeverBothValid'
  <2>1. req[r].flight \in Flights BY <1>0, <1>13 DEF Wake, TypeOK
  <2>2. Known' BY <1>0, <1>13, <2>1, ReplyType, Fields DEF Wake, Known, tokenVars, flightVars
  <2> QED BY <1>13, <2>2, <1>b DEF Wake
<1>d. ASSUME NEW r \in Requests, UNCHANGED <<jar, tokenVars, flightVars, req>>,
             auth'[r].token \in {NoToken, auth[r].token}, auth'[r].cookies \subseteq 0 .. issued,
             \A q \in Requests \ {r} : auth'[q] = auth[q]
      PROVE  Known'
  BY <1>0, <1>a, <1>d DEF Known, tokenVars, flightVars, NoToken
<1>14. ASSUME NEW r \in Requests, Find(r) PROVE Known' /\ StoreRevoked' /\ NeverBothValid'
  <2>1. /\ auth'[r].pc # "store" /\ auth'[r].token \in {NoToken, auth[r].token}
        /\ auth'[r].cookies \subseteq auth[r].cookies \cup {0}
        /\ \A q \in Requests \ {r} : auth'[q] = auth[q]
    <3>1. CASE auth[r].token \in valid BY <1>0, <1>14, <3>1, AuthStepType DEF Find
    <3>2. CASE auth[r].token \notin valid
      BY <1>0, <1>14, <3>2, AuthDoneType, FailureCookiesType DEF Find, FailureCookies, NoToken
    <3> QED BY <3>1, <3>2
  <2>2. auth'[r].cookies \subseteq 0 .. issued BY <2>1, <1>0, <1>a DEF Known
  <2> QED BY <1>14, <2>1, <2>2, <1>b, <1>d DEF Find
<1>15. ASSUME NEW r \in Requests, Revoke(r) PROVE Known' /\ StoreRevoked' /\ NeverBothValid'
  <2>1. /\ auth'[r].pc \in {"store", "done"} /\ auth'[r].token \in {NoToken, auth[r].token}
        /\ auth'[r].cookies \subseteq auth[r].cookies \cup {0}
        /\ \A q \in Requests \ {r} : auth'[q] = auth[q]
    <3>1. CASE auth[r].kind = "logout"
      BY <1>0, <1>15, <3>1, CookiesType, AuthDoneType DEF Revoke, NoToken
    <3>2. CASE auth[r].kind # "logout" BY <1>0, <1>15, <3>2, AuthStepType DEF Revoke
    <3> QED BY <3>1, <3>2
  <2>2. valid' = valid \ {auth[r].token} BY <1>15 DEF Revoke, RevokeToken
  <2>3. NoToken \notin valid BY <1>0 DEF TypeOK, NoToken
  <2>4. Known' BY <1>0, <1>a, <1>15, <2>1 DEF Revoke, Known, flightVars, NoToken
  <2>5. StoreRevoked' BY <1>0, <2>1, <2>2, <2>3 DEF StoreRevoked
  <2>6. NeverBothValid' BY <1>0, <1>15, <2>2 DEF Revoke, NeverBothValid
  <2> QED BY <2>4, <2>5, <2>6
<1>16. ASSUME NEW r \in Requests, Store(r) PROVE Known' /\ StoreRevoked' /\ NeverBothValid'
  <2>1. /\ issued' \in Tokens /\ issued' = issued + 1 /\ valid' = valid \cup {issued'}
        /\ parent'[issued'] = auth[r].token
        /\ \A t \in 1 .. issued : parent'[t] = parent[t]
    BY <1>0, <1>a, <1>16, MaxTokensAssumption DEF Store, Tokens, TypeOK
  <2>2. {issued'} \in Cookies BY <2>1, CookiesType
  <2>3. /\ auth'[r].pc = "done" /\ auth'[r].token = 0 /\ auth'[r].cookies = {issued'}
        /\ \A q \in Requests \ {r} : auth'[q] = auth[q]
    BY <1>0, <1>16, <2>2, AuthDoneType DEF Store, NoToken
  <2>4. 0 .. issued \subseteq 0 .. issued' /\ 0 \in 0 .. issued' /\ issued' \in 0 .. issued'
        /\ 1 .. issued' = 1 .. issued \cup {issued'} /\ issued' \notin 0 .. issued
    BY <1>a, <2>1
  <2>5. auth[r].token \in 0 .. issued /\ auth[r].token \notin valid
    BY <1>0, <1>16 DEF Store, Known, StoreRevoked
  <2>6. Known' BY <1>0, <1>16, <2>1, <2>3, <2>4, <2>5 DEF Store, Known, flightVars
  <2>7. StoreRevoked'
    <3>1. \A q \in Requests : auth'[q].pc = "store" =>
            auth[q].pc = "store" /\ auth'[q].token = auth[q].token /\ auth[q].token \in 0 .. issued
      BY <1>0, <2>3 DEF Known
    <3> QED BY <1>0, <2>1, <2>4, <3>1 DEF StoreRevoked
  <2>8. NeverBothValid'
    <3>1. \A t \in 1 .. issued : parent[t] \in 0 .. issued /\ parent[t] \notin valid
      BY <1>0 DEF Known, NeverBothValid
    <3> QED BY <2>1, <2>4, <2>5, <3>1 DEF NeverBothValid
  <2> QED BY <2>6, <2>7, <2>8
<1>17. ASSUME NEW r \in Requests, RevokeAll(r) PROVE Known' /\ StoreRevoked' /\ NeverBothValid'
  <2>1. /\ auth'[r].pc = "done" /\ auth'[r].token = 0 /\ auth'[r].cookies = {}
        /\ \A q \in Requests \ {r} : auth'[q] = auth[q]
    BY <1>0, <1>17, CookiesType, AuthDoneType DEF RevokeAll, NoToken
  <2>2. Known' BY <1>0, <1>a, <1>17, <2>1 DEF RevokeAll, Known, flightVars
  <2> QED BY <1>17, <2>2 DEF RevokeAll, StoreRevoked, NeverBothValid
<1>18. ASSUME NEW r \in Requests, AuthFails(r) PROVE Known' /\ StoreRevoked' /\ NeverBothValid'
  <2>1. /\ auth'[r].pc = "done" /\ auth'[r].token = 0 /\ auth'[r].cookies \subseteq {0}
        /\ \A q \in Requests \ {r} : auth'[q] = auth[q]
    BY <1>0, <1>18, FailureCookiesType, AuthDoneType DEF AuthFails, NoToken, FailureCookies
  <2>2. auth'[r].cookies \subseteq 0 .. issued BY <2>1, <1>a
  <2> QED BY <1>18, <2>1, <2>2, <1>b, <1>d DEF AuthFails, NoToken
<1>19. ASSUME NEW r \in Requests, AuthForgets(r)
       PROVE  Known' /\ StoreRevoked' /\ NeverBothValid'
  <2>1. /\ auth'[r].pc = "idle" /\ auth'[r].token = 0 /\ auth'[r].cookies = {}
        /\ \A q \in Requests \ {r} : auth'[q] = auth[q]
    BY <1>0, <1>19 DEF AuthForgets, AuthIdle, TypeOK, NoToken
  <2> QED BY <1>19, <2>1, <1>b, <1>d DEF AuthForgets, NoToken
<1>20. CASE UNCHANGED vars
  BY <1>0, <1>20 DEF vars, tokenVars, flightVars, Known, StoreRevoked, NeverBothValid
<1> QED
  BY <1>1, <1>2, <1>3, <1>4, <1>5, <1>6, <1>7, <1>8, <1>9, <1>10, <1>11, <1>12, <1>13, <1>14,
     <1>15, <1>16, <1>17, <1>18, <1>19, <1>20 DEF Next, Gateway
LEMMA FlightsNext ==
  IInv /\ [Next]_vars => FlightsStand' /\ OneLeader' /\ Holders'
<1> SUFFICES ASSUME IInv, [Next]_vars PROVE FlightsStand' /\ OneLeader' /\ Holders'
  OBVIOUS
<1>0. TypeOK /\ TypeOK' /\ Known /\ FlightsStand /\ OneLeader /\ Holders BY NextType DEF IInv
<1>a. ASSUME NEW r \in Requests, UNCHANGED <<inFlight, flight, parent>>,
             req'[r].flight = NoFlight, \A q \in Requests \ {r} : req'[q] = req[q],
             req'[r].pc \notin {"wait", "leave"},
             req'[r].pc \in {"validate", "flight"} =>
               req'[r].kind = "page" /\ req'[r].token \in Tokens
      PROVE  FlightsStand' /\ OneLeader' /\ Holders'
  <2>1. Holders' BY <1>0, <1>a DEF Holders
  <2> QED BY <1>0, <1>a, <2>1, LetsGo
<1>b. ASSUME UNCHANGED <<inFlight, flight, parent, req>>
      PROVE  FlightsStand' /\ OneLeader' /\ Holders'
  BY <1>0, <1>b DEF FlightsStand, SuccessorsOf, OneLeader, Leads, Holders
<1>1. CASE GatewayRestarts
  BY <1>1 DEF GatewayRestarts, FlightsStand, OneLeader, Holders, Idle, Leads
<1>2. ASSUME NEW t \in Tokens, Expire(t) PROVE FlightsStand' /\ OneLeader' /\ Holders'
  BY <1>2, <1>b DEF Expire, flightVars
<1>3. ASSUME NEW r \in Requests, SendPage(r) PROVE FlightsStand' /\ OneLeader' /\ Holders'
  <2>1. /\ req'[r].pc = "validate" /\ req'[r].kind = "page" /\ req'[r].flight = NoFlight
        /\ req'[r].token = jar /\ \A q \in Requests \ {r} : req'[q] = req[q]
    BY <1>3, <1>0 DEF SendPage, Idle, TypeOK
  <2>2. jar \in Tokens BY <1>3, <1>0 DEF SendPage, TypeOK
  <2> QED BY <1>3, <2>1, <2>2, <1>a DEF SendPage, tokenVars, flightVars
<1>4. ASSUME NEW r \in Requests, NEW kind \in Kinds \ {"page"}, SendAuth(r, kind)
      PROVE  FlightsStand' /\ OneLeader' /\ Holders'
  <2>1. /\ req'[r].pc = "call" /\ req'[r].flight = NoFlight
        /\ \A q \in Requests \ {r} : req'[q] = req[q]
    BY <1>4, <1>0 DEF SendAuth, Idle, TypeOK
  <2> QED BY <1>4, <2>1, <1>a DEF SendAuth, tokenVars, flightVars
<1>5. ASSUME NEW r \in Requests, Deliver(r) PROVE FlightsStand' /\ OneLeader' /\ Holders'
  <2>1. /\ req'[r].pc = "idle" /\ req'[r].flight = NoFlight
        /\ \A q \in Requests \ {r} : req'[q] = req[q]
    BY <1>5, <1>0 DEF Deliver, Idle, TypeOK
  <2> QED BY <1>5, <2>1, <1>a DEF Deliver, tokenVars, flightVars
<1>6. ASSUME NEW r \in Requests, ReplyLost(r) PROVE FlightsStand' /\ OneLeader' /\ Holders'
  <2>1. /\ req'[r].pc = "idle" /\ req'[r].flight = NoFlight
        /\ \A q \in Requests \ {r} : req'[q] = req[q]
    BY <1>6, <1>0 DEF ReplyLost, Idle, TypeOK
  <2> QED BY <1>6, <2>1, <1>a DEF ReplyLost, tokenVars, flightVars
<1>7. ASSUME NEW r \in Requests, Validated(r) PROVE FlightsStand' /\ OneLeader' /\ Holders'
  <2>0. UNCHANGED <<inFlight, flight, parent>> BY <1>7 DEF Validated, tokenVars, flightVars
  <2>1. CASE Reply(r, {}) BY <1>0, <1>a, <2>0, <2>1, ReplyType, CookiesType
  <2>2. CASE req' = [req EXCEPT ![r].pc = "flight"]
    <3>1. /\ req'[r].pc = "flight" /\ req'[r].flight = req[r].flight
          /\ req'[r].kind = req[r].kind /\ req'[r].token = req[r].token
          /\ \A q \in Requests \ {r} : req'[q] = req[q]
      BY <1>0, <2>2, Fields DEF TypeOK, RequestStates
    <3>2. req[r].pc = "validate" BY <1>7 DEF Validated
    <3>3. req'[r].flight = NoFlight /\ req'[r].kind = "page" /\ req'[r].token \in Tokens
      BY <1>0, <3>1, <3>2 DEF Holders
    <3> QED BY <1>a, <2>0, <3>1, <3>3
  <2> QED BY <1>7, <2>1, <2>2 DEF Validated
<1>8. ASSUME NEW r \in Requests, Lead(r) PROVE FlightsStand' /\ OneLeader' /\ Holders'
  <2>1. PICK f \in Flights :
          /\ Free(f)
          /\ inFlight' = [inFlight EXCEPT ![req[r].token] = f]
          /\ flight' = [flight EXCEPT ![f] = [closed |-> FALSE, cookies |-> {}]]
          /\ req' = [req EXCEPT ![r] = [@ EXCEPT !.pc = "call", !.flight = f]]
    BY <1>8 DEF Lead
  <2>2. /\ req'[r].pc = "call" /\ req'[r].flight = f /\ req'[r].kind = "page"
        /\ req'[r].token = req[r].token /\ req[r].token \in Tokens
        /\ \A q \in Requests \ {r} : req'[q] = req[q]
    BY <1>0, <1>8, <2>1, HoldsType DEF Lead, Holders
  <2>3. /\ inFlight'[req[r].token] = f /\ inFlight[req[r].token] = NoFlight
        /\ \A t \in Tokens \ {req[r].token} : inFlight'[t] = inFlight[t]
    BY <1>0, <1>8, <2>1, <2>2 DEF Lead, Loaded, TypeOK
  <2>4. /\ flight'[f].cookies = {}
        /\ \A g \in Flights \ {f} : flight'[g] = flight[g]
    BY <1>0, <2>1 DEF TypeOK
  <2>5. /\ \A t \in Tokens : inFlight[t] # f
        /\ \A q \in Requests : req[q].flight # f
        /\ f # NoFlight /\ parent' = parent
    BY <1>8, <2>1, FlightsAssumption DEF Free, Lead, tokenVars
  <2>6. /\ \A t \in Tokens : inFlight[t] \in Flights \cup {NoFlight}
        /\ \A q \in Requests : req[q].flight \in Flights \cup {NoFlight}
    BY <1>0, Fields DEF TypeOK
  <2>7. FlightsStand'
    BY <1>0, <2>2, <2>3, <2>4, <2>5, <2>6 DEF FlightsStand, SuccessorsOf
  <2>8. OneLeader' BY <1>0, <2>2, <2>3, <2>5 DEF OneLeader, Leads, Holders
  <2>9. Holders' BY <1>0, <2>2 DEF Holders
  <2> QED BY <2>7, <2>8, <2>9
<1>9. ASSUME NEW r \in Requests, Follow(r) PROVE FlightsStand' /\ OneLeader' /\ Holders'
  <2>1. PICK f \in Loaded(req[r].token) :
          req' = [req EXCEPT ![r] = [@ EXCEPT !.pc = "wait", !.flight = f]]
    BY <1>9 DEF Follow
  <2>2. f \in Flights /\ req[r].token \in Tokens /\ inFlight[req[r].token] = f /\ f # NoFlight
    BY <1>0, <1>9, <2>1 DEF Follow, Loaded, TypeOK
  <2>3. /\ req'[r].pc = "wait" /\ req'[r].flight = f /\ req'[r].kind = "page"
        /\ req'[r].token = req[r].token
        /\ \A q \in Requests \ {r} : req'[q] = req[q]
    BY <1>0, <1>9, <2>1, <2>2, HoldsType DEF Follow, Holders
  <2>4. inFlight' = inFlight /\ flight' = flight /\ parent' = parent
    BY <1>9 DEF Follow, tokenVars, flightVars
  <2>5. FlightsStand' BY <1>0, <2>2, <2>3, <2>4 DEF FlightsStand, SuccessorsOf
  <2>6. OneLeader' BY <1>0, <2>3, <2>4 DEF OneLeader, Leads
  <2>7. Holders' BY <1>0, <2>2, <2>3 DEF Holders
  <2> QED BY <2>5, <2>6, <2>7
<1>c. ASSUME NEW r \in Requests, NEW c \in Cookies, CallReturns(r, c), req[r].pc = "call",
             req[r].flight # NoFlight => SuccessorsOf(req[r].token, c)
      PROVE  FlightsStand' /\ OneLeader' /\ Holders'
  <2>0. inFlight' = inFlight /\ parent' = parent BY <1>c DEF CallReturns, tokenVars
  <2>1. CASE req[r].flight = NoFlight
    <3>1. Reply(r, c) /\ flight' = flight BY <1>c, <2>1 DEF CallReturns
    <3>2. /\ req'[r].pc = "reply" /\ req'[r].flight = NoFlight
          /\ \A q \in Requests \ {r} : req'[q] = req[q]
      BY <1>0, <1>c, <3>1, ReplyType
    <3> QED BY <1>a, <2>0, <3>1, <3>2
  <2>2. CASE req[r].flight # NoFlight
    <3>1. Landed(r, c) /\ req[r].flight \in Flights BY <1>0, <1>c, <2>2, Fields DEF CallReturns
    <3>2. /\ req'[r].pc = "leave" /\ req'[r].flight = req[r].flight
          /\ req'[r].kind = req[r].kind /\ req'[r].token = req[r].token
          /\ \A q \in Requests \ {r} : req'[q] = req[q]
          /\ flight'[req[r].flight].cookies = c
          /\ \A f \in Flights \ {req[r].flight} : flight'[f] = flight[f]
      BY <1>0, <1>c, <3>1, LandedType
    <3>3. /\ \A t \in Tokens : inFlight[t] \in Flights \cup {NoFlight}
          /\ \A q \in Requests : req[q].flight \in Flights \cup {NoFlight}
      BY <1>0, Fields DEF TypeOK
    <3>4. FlightsStand'
      BY <1>0, <1>c, <2>0, <2>2, <3>2, <3>3 DEF FlightsStand, SuccessorsOf
    <3>5. OneLeader' BY <1>0, <1>c, <2>0, <2>2, <3>2 DEF OneLeader, Leads
    <3>6. Holders' BY <1>0, <2>2, <3>2 DEF Holders
    <3> QED BY <3>4, <3>5, <3>6
  <2> QED BY <2>1, <2>2
<1>10. ASSUME NEW r \in Requests, AuthAnswers(r)
       PROVE  FlightsStand' /\ OneLeader' /\ Holders'
  <2>1. /\ CallReturns(r, auth[r].cookies) /\ auth[r].cookies \in Cookies
        /\ req[r].pc = "call" /\ auth[r].pc = "done"
    BY <1>0, <1>10, Fields DEF AuthAnswers
  <2>2. req[r].flight # NoFlight => SuccessorsOf(req[r].token, auth[r].cookies)
    BY <1>0, <2>1 DEF IInv, CallsOwn, Exchanges, Holders
  <2> QED BY <1>c, <2>1, <2>2
<1>11. ASSUME NEW r \in Requests, AuthTimesOut(r)
       PROVE  FlightsStand' /\ OneLeader' /\ Holders'
  BY <1>11, <1>c, CookiesType DEF AuthTimesOut, SuccessorsOf
<1>12. ASSUME NEW r \in Requests, Leave(r) PROVE FlightsStand' /\ OneLeader' /\ Holders'
  <2>1. /\ inFlight' = [inFlight EXCEPT ![req[r].token] = NoFlight]
        /\ flight' = flight /\ parent' = parent
        /\ Reply(r, req[r].cookies) /\ req[r].pc = "leave"
    BY <1>12 DEF Leave, tokenVars
  <2>2. /\ req'[r].pc = "reply" /\ req'[r].flight = NoFlight
        /\ \A q \in Requests \ {r} : req'[q] = req[q]
    BY <1>0, <2>1, Fields, ReplyType
  <2>3. req[r].flight # NoFlight /\ req[r].flight \in Flights /\ req[r].token \in Tokens
    BY <1>0, <2>1, FlightsAssumption DEF TypeOK, Holders
  <2>4. /\ inFlight'[req[r].token] = NoFlight
        /\ \A t \in Tokens \ {req[r].token} : inFlight'[t] = inFlight[t]
    BY <1>0, <2>1, <2>3 DEF TypeOK
  <2>5. FlightsStand' BY <1>0, <2>1, <2>2, <2>3, <2>4 DEF FlightsStand, SuccessorsOf
  <2>6. OneLeader'
    <3>1. \A q \in Requests \ {r} : Leads(q) => req[q].token \in Tokens
      BY <1>0 DEF Leads, Holders
    <3>2. \A q \in Requests \ {r} : Leads(q) => req[q].token # req[r].token
      BY <1>0, <2>1, <2>3 DEF OneLeader, Leads
    <3> QED BY <1>0, <2>2, <2>4, <3>1, <3>2 DEF OneLeader, Leads
  <2>7. Holders' BY <1>0, <2>2 DEF Holders
  <2> QED BY <2>5, <2>6, <2>7
<1>13. ASSUME NEW r \in Requests, Wake(r) PROVE FlightsStand' /\ OneLeader' /\ Holders'
  <2>1. req[r].flight \in Flights BY <1>0, <1>13 DEF Wake, TypeOK
  <2>2. /\ req'[r].pc = "reply" /\ req'[r].flight = NoFlight
        /\ \A q \in Requests \ {r} : req'[q] = req[q]
    BY <1>0, <1>13, <2>1, Fields, ReplyType DEF Wake
  <2> QED BY <1>13, <2>2, <1>a DEF Wake, tokenVars, flightVars
<1>14. ASSUME NEW r \in Requests, Find(r) PROVE FlightsStand' /\ OneLeader' /\ Holders'
  BY <1>14, <1>b DEF Find, tokenVars, flightVars
<1>15. ASSUME NEW r \in Requests, Revoke(r) PROVE FlightsStand' /\ OneLeader' /\ Holders'
  BY <1>15, <1>b DEF Revoke, flightVars
<1>16. ASSUME NEW r \in Requests, Store(r) PROVE FlightsStand' /\ OneLeader' /\ Holders'
  <2>1. /\ \A c \in 0 .. issued : c # NoToken => parent'[c] = parent[c]
        /\ inFlight' = inFlight /\ flight' = flight /\ req' = req
    BY <1>0, <1>16 DEF Store, TypeOK, Tokens, NoToken, flightVars
  <2>2. \A f \in Flights, t \in Tokens \cup {NoToken} :
          SuccessorsOf(t, flight[f].cookies) => SuccessorsOf(t, flight[f].cookies)'
    BY <1>0, <2>1 DEF Known, SuccessorsOf
  <2>3. /\ \A t \in Tokens : inFlight[t] \in Flights \cup {NoFlight}
        /\ \A q \in Requests : /\ req[q].flight \in Flights \cup {NoFlight}
                               /\ req[q].token \in Tokens \cup {NoToken}
    BY <1>0, Fields DEF TypeOK
  <2>4. FlightsStand' BY <1>0, <2>1, <2>2, <2>3 DEF FlightsStand
  <2> QED BY <1>0, <2>1, <2>4 DEF OneLeader, Leads, Holders
<1>17. ASSUME NEW r \in Requests, RevokeAll(r) PROVE FlightsStand' /\ OneLeader' /\ Holders'
  BY <1>17, <1>b DEF RevokeAll, flightVars
<1>18. ASSUME NEW r \in Requests, AuthFails(r) PROVE FlightsStand' /\ OneLeader' /\ Holders'
  BY <1>18, <1>b DEF AuthFails, tokenVars, flightVars
<1>19. ASSUME NEW r \in Requests, AuthForgets(r)
       PROVE  FlightsStand' /\ OneLeader' /\ Holders'
  BY <1>19, <1>b DEF AuthForgets, tokenVars, flightVars
<1>20. CASE UNCHANGED vars
  BY <1>20, <1>b DEF vars, tokenVars, flightVars
<1> QED
  BY <1>1, <1>2, <1>3, <1>4, <1>5, <1>6, <1>7, <1>8, <1>9, <1>10, <1>11, <1>12, <1>13, <1>14,
     <1>15, <1>16, <1>17, <1>18, <1>19, <1>20 DEF Next, Gateway
LEMMA CallsNext == IInv /\ [Next]_vars => CallsOwn'
<1> SUFFICES ASSUME IInv, [Next]_vars PROVE CallsOwn'
  OBVIOUS
<1>0. TypeOK /\ Known /\ FlightsStand /\ CallsOwn /\ Holders BY DEF IInv
<1> DEFINE Own(r) ==
      Exchanges(r) =>
        /\ req[r].pc = "call" =>
             \/ /\ auth[r].pc \in {"find", "revoke", "store"}
                /\ auth[r].kind = "refresh" /\ auth[r].token = req[r].token
             \/ auth[r].pc = "done" /\ SuccessorsOf(req[r].token, auth[r].cookies)
        /\ req[r].pc \in {"leave", "reply"} => SuccessorsOf(req[r].token, req[r].cookies)
<1>a. ASSUME parent' = parent, NEW r \in Requests, Own(r)', \A q \in Requests \ {r} :
               req'[q] = req[q] /\ auth'[q] = auth[q]
      PROVE  CallsOwn'
  BY <1>0, <1>a DEF CallsOwn, Exchanges, SuccessorsOf
<1>1. CASE GatewayRestarts BY <1>1 DEF GatewayRestarts, CallsOwn, Idle
<1>2. ASSUME NEW t \in Tokens, Expire(t) PROVE CallsOwn'
  BY <1>0, <1>2 DEF Expire, CallsOwn, Exchanges, SuccessorsOf
<1>3. ASSUME NEW r \in Requests, SendPage(r) PROVE CallsOwn'
  BY <1>0, <1>3, <1>a DEF SendPage, Idle, TypeOK, tokenVars
<1>4. ASSUME NEW r \in Requests, NEW kind \in Kinds \ {"page"}, SendAuth(r, kind) PROVE CallsOwn'
  <2>1. /\ req'[r].pc = "call" /\ req'[r].kind = kind /\ req'[r].token = jar
        /\ \A q \in Requests \ {r} : req'[q] = req[q]
    BY <1>4, <1>0 DEF SendAuth, Idle, TypeOK
  <2>2. \A q \in Requests \ {r} : auth'[q] = auth[q] BY <1>4, <1>0 DEF SendAuth, CallAuth, TypeOK
  <2>3. CASE kind = "refresh"
    <3>1. /\ auth'[r].pc = "find" /\ auth'[r].kind = "refresh" /\ auth'[r].token = jar
      BY <1>4, <1>0, <2>3 DEF SendAuth, CallAuth, FirstStep, AuthIdle, TypeOK
    <3> QED BY <1>4, <1>a, <2>1, <2>2, <3>1 DEF SendAuth, tokenVars
  <2>4. CASE kind # "refresh" BY <1>4, <1>a, <2>1, <2>2, <2>4 DEF SendAuth, tokenVars, Exchanges
  <2> QED BY <2>3, <2>4
<1>5. ASSUME NEW r \in Requests, Deliver(r) PROVE CallsOwn'
  BY <1>0, <1>5, <1>a DEF Deliver, Idle, TypeOK, tokenVars
<1>6. ASSUME NEW r \in Requests, ReplyLost(r) PROVE CallsOwn'
  BY <1>0, <1>6, <1>a DEF ReplyLost, Idle, TypeOK, tokenVars
<1>7. ASSUME NEW r \in Requests, Validated(r) PROVE CallsOwn'
  <2>1. parent' = parent /\ auth' = auth BY <1>7 DEF Validated, tokenVars
  <2>2. CASE Reply(r, {})
    BY <1>0, <1>a, <2>1, <2>2, ReplyType, CookiesType DEF SuccessorsOf
  <2>3. CASE req' = [req EXCEPT ![r].pc = "flight"]
    <3>1. req'[r].pc = "flight" /\ \A q \in Requests \ {r} : req'[q] = req[q]
      BY <1>0, <2>3, Fields DEF TypeOK, RequestStates
    <3> QED BY <1>a, <2>1, <3>1
  <2> QED BY <1>7, <2>2, <2>3 DEF Validated
<1>8. ASSUME NEW r \in Requests, Lead(r) PROVE CallsOwn'
  <2>1. PICK f \in Flights : req' = [req EXCEPT ![r] = [@ EXCEPT !.pc = "call", !.flight = f]]
    BY <1>8 DEF Lead
  <2>2. /\ req'[r].pc = "call" /\ req'[r].token = req[r].token
        /\ \A q \in Requests \ {r} : req'[q] = req[q]
    BY <1>0, <2>1, HoldsType
  <2>3. /\ auth'[r].pc = "find" /\ auth'[r].kind = "refresh" /\ auth'[r].token = req[r].token
        /\ \A q \in Requests \ {r} : auth'[q] = auth[q]
    BY <1>8, <1>0, Fields, CallAuthType DEF Lead, Kinds
  <2> QED BY <1>8, <1>a, <2>2, <2>3 DEF Lead, tokenVars
<1>9. ASSUME NEW r \in Requests, Follow(r) PROVE CallsOwn'
  <2>1. PICK f \in Loaded(req[r].token) :
          req' = [req EXCEPT ![r] = [@ EXCEPT !.pc = "wait", !.flight = f]]
    BY <1>9 DEF Follow
  <2>2. f \in Flights BY <1>0, <1>9, <2>1 DEF Follow, Loaded, TypeOK
  <2>3. req'[r].pc = "wait" /\ \A q \in Requests \ {r} : req'[q] = req[q]
    BY <1>0, <2>1, <2>2, HoldsType
  <2> QED BY <1>9, <1>a, <2>3 DEF Follow, tokenVars
<1>b. ASSUME NEW r \in Requests, NEW c \in Cookies, CallReturns(r, c),
             Exchanges(r) => SuccessorsOf(req[r].token, c),
             \A q \in Requests \ {r} : auth'[q] = auth[q]
      PROVE  CallsOwn'
  <2>1. parent' = parent BY <1>b DEF CallReturns, tokenVars
  <2>2. /\ req'[r].pc \in {"leave", "reply"} /\ req'[r].cookies = c
        /\ req'[r].kind = req[r].kind /\ req'[r].token = req[r].token
        /\ \A q \in Requests \ {r} : req'[q] = req[q]
    <3>1. CASE req[r].flight = NoFlight BY <1>0, <1>b, <3>1, ReplyType DEF CallReturns
    <3>2. CASE req[r].flight # NoFlight
      BY <1>0, <1>b, <3>2, Fields, LandedType DEF CallReturns
    <3> QED BY <3>1, <3>2
  <2> QED BY <1>a, <1>b, <2>1, <2>2 DEF Exchanges, SuccessorsOf
<1>10. ASSUME NEW r \in Requests, AuthAnswers(r) PROVE CallsOwn'
  <2>1. /\ CallReturns(r, auth[r].cookies) /\ auth[r].cookies \in Cookies
        /\ \A q \in Requests \ {r} : auth'[q] = auth[q]
    BY <1>0, <1>10, Fields DEF AuthAnswers, TypeOK
  <2>2. Exchanges(r) => SuccessorsOf(req[r].token, auth[r].cookies)
    BY <1>0, <1>10 DEF AuthAnswers, CallsOwn
  <2> QED BY <1>b, <2>1, <2>2
<1>11. ASSUME NEW r \in Requests, AuthTimesOut(r) PROVE CallsOwn'
  BY <1>11, <1>b, CookiesType DEF AuthTimesOut, SuccessorsOf
<1>12. ASSUME NEW r \in Requests, Leave(r) PROVE CallsOwn'
  <2>1. /\ req'[r].pc = "reply" /\ req'[r].cookies = req[r].cookies
        /\ req'[r].kind = req[r].kind /\ req'[r].token = req[r].token
        /\ \A q \in Requests \ {r} : req'[q] = req[q]
    BY <1>0, <1>12, Fields, ReplyType DEF Leave
  <2>2. Exchanges(r) => SuccessorsOf(req[r].token, req[r].cookies)
    BY <1>0, <1>12 DEF Leave, CallsOwn
  <2> QED BY <1>12, <1>a, <2>1, <2>2 DEF Leave, tokenVars, Exchanges, SuccessorsOf
<1>13. ASSUME NEW r \in Requests, Wake(r) PROVE CallsOwn'
  <2>1. req[r].flight \in Flights /\ req[r].flight # NoFlight
    BY <1>0, <1>13, FlightsAssumption DEF Wake, TypeOK
  <2>2. /\ req'[r].pc = "reply" /\ req'[r].cookies = flight[req[r].flight].cookies
        /\ req'[r].token = req[r].token
        /\ \A q \in Requests \ {r} : req'[q] = req[q]
    BY <1>0, <1>13, <2>1, Fields, ReplyType DEF Wake
  <2>3. SuccessorsOf(req[r].token, flight[req[r].flight].cookies)
    BY <1>0, <2>1 DEF FlightsStand
  <2> QED BY <1>13, <1>a, <2>2, <2>3 DEF Wake, tokenVars, SuccessorsOf
<1>14. ASSUME NEW r \in Requests, Find(r) PROVE CallsOwn'
  <2>1. parent' = parent /\ req' = req BY <1>14 DEF Find, tokenVars
  <2>2. CASE auth[r].token \in valid
    <3>1. /\ auth'[r].pc = "revoke" /\ auth'[r].kind = auth[r].kind /\ auth'[r].token = auth[r].token
          /\ \A q \in Requests \ {r} : auth'[q] = auth[q]
      BY <1>0, <1>14, <2>2, AuthStepType DEF Find
    <3> QED BY <1>0, <1>14, <1>a, <2>1, <3>1 DEF Find, CallsOwn, Exchanges, SuccessorsOf
  <2>3. CASE auth[r].token \notin valid
    <3>1. /\ auth'[r].pc = "done" /\ auth'[r].cookies = FailureCookies(r)
          /\ \A q \in Requests \ {r} : auth'[q] = auth[q]
      BY <1>0, <1>14, <2>3, AuthDoneType, FailureCookiesType DEF Find
    <3> QED BY <1>0, <1>14, <1>a, <2>1, <3>1
            DEF Find, CallsOwn, Exchanges, SuccessorsOf, FailureCookies
  <2> QED BY <2>2, <2>3
<1>15. ASSUME NEW r \in Requests, Revoke(r) PROVE CallsOwn'
  <2>1. parent' = parent /\ req' = req BY <1>15 DEF Revoke
  <2>2. CASE auth[r].kind = "logout"
    <3>1. \A q \in Requests \ {r} : auth'[q] = auth[q]
      BY <1>0, <1>15, <2>2, AuthDoneType, CookiesType DEF Revoke, NoToken
    <3> QED BY <1>0, <1>15, <1>a, <2>1, <2>2, <3>1
            DEF Revoke, CallsOwn, Exchanges, SuccessorsOf
  <2>3. CASE auth[r].kind # "logout"
    <3>1. /\ auth'[r].pc = "store" /\ auth'[r].kind = auth[r].kind /\ auth'[r].token = auth[r].token
          /\ \A q \in Requests \ {r} : auth'[q] = auth[q]
      BY <1>0, <1>15, <2>3, AuthStepType DEF Revoke
    <3> QED BY <1>0, <1>15, <1>a, <2>1, <3>1 DEF Revoke, CallsOwn, Exchanges, SuccessorsOf
  <2> QED BY <2>2, <2>3
<1>16. ASSUME NEW r \in Requests, Store(r) PROVE CallsOwn'
  <2>1. /\ issued' \in Tokens /\ req' = req /\ parent'[issued'] = auth[r].token
        /\ issued' # NoToken /\ \A c \in 0 .. issued : c # NoToken => parent'[c] = parent[c]
    BY <1>0, <1>16, MaxTokensAssumption DEF Store, Tokens, NoToken, TypeOK
  <2>2. {issued'} \in Cookies BY <2>1, CookiesType
  <2>3. /\ auth'[r].pc = "done" /\ auth'[r].cookies = {issued'}
        /\ \A q \in Requests \ {r} : auth'[q] = auth[q]
    BY <1>0, <1>16, <2>2, AuthDoneType DEF Store
  <2>4. \A q \in Requests : \A c \in auth[q].cookies \cup req[q].cookies :
          c # NoToken => parent'[c] = parent[c]
    BY <1>0, <2>1 DEF Known
  <2>5. auth[r].pc = "store" BY <1>16 DEF Store
  <2>6. Own(r)'
    BY <1>0, <2>1, <2>3, <2>4, <2>5 DEF CallsOwn, Exchanges, SuccessorsOf
  <2>7. ASSUME NEW q \in Requests \ {r} PROVE Own(q)'
    BY <1>0, <2>1, <2>3, <2>4 DEF CallsOwn, Exchanges, SuccessorsOf
  <2> QED BY <2>6, <2>7 DEF CallsOwn
<1>17. ASSUME NEW r \in Requests, RevokeAll(r) PROVE CallsOwn'
  <2>1. parent' = parent /\ req' = req BY <1>17 DEF RevokeAll
  <2>2. \A q \in Requests \ {r} : auth'[q] = auth[q]
    BY <1>0, <1>17, AuthDoneType, CookiesType DEF RevokeAll
  <2> QED BY <1>0, <1>17, <1>a, <2>1, <2>2 DEF RevokeAll, CallsOwn, Exchanges, SuccessorsOf
<1>18. ASSUME NEW r \in Requests, AuthFails(r) PROVE CallsOwn'
  <2>1. parent' = parent /\ req' = req BY <1>18 DEF AuthFails, tokenVars
  <2>2. /\ auth'[r].pc = "done" /\ auth'[r].cookies = FailureCookies(r)
        /\ \A q \in Requests \ {r} : auth'[q] = auth[q]
    BY <1>0, <1>18, AuthDoneType, FailureCookiesType DEF AuthFails
  <2> QED BY <1>0, <1>18, <1>a, <2>1, <2>2
          DEF AuthFails, CallsOwn, Exchanges, SuccessorsOf, FailureCookies
<1>19. ASSUME NEW r \in Requests, AuthForgets(r) PROVE CallsOwn'
  <2>1. parent' = parent /\ req' = req BY <1>19 DEF AuthForgets, tokenVars
  <2>2. \A q \in Requests \ {r} : auth'[q] = auth[q] BY <1>0, <1>19 DEF AuthForgets, TypeOK
  <2> QED BY <1>0, <1>19, <1>a, <2>1, <2>2 DEF AuthForgets, CallsOwn, Exchanges, SuccessorsOf
<1>20. CASE UNCHANGED vars
  BY <1>0, <1>20 DEF vars, tokenVars, CallsOwn, Exchanges, SuccessorsOf
<1> QED
  BY <1>1, <1>2, <1>3, <1>4, <1>5, <1>6, <1>7, <1>8, <1>9, <1>10, <1>11, <1>12, <1>13, <1>14,
     <1>15, <1>16, <1>17, <1>18, <1>19, <1>20 DEF Next, Gateway

LEMMA InitInv == Init => IInv
<1> SUFFICES ASSUME Init PROVE IInv OBVIOUS
<1>1. TypeOK BY TypeInit
<1>2. Known BY DEF Init, Known, Idle, AuthIdle, NoToken
<1>3. StoreRevoked /\ NeverBothValid BY DEF Init, StoreRevoked, NeverBothValid, AuthIdle
<1>4. FlightsStand /\ OneLeader BY DEF Init, FlightsStand, OneLeader, Leads, Idle
<1>5. CallsOwn /\ Holders BY DEF Init, CallsOwn, Holders, Idle
<1> QED BY <1>1, <1>2, <1>3, <1>4, <1>5 DEF IInv

THEOREM InductiveInvariant == Spec => []IInv
<1>1. IInv /\ [Next]_vars => IInv'
  BY NextType, TokensNext, FlightsNext, CallsNext DEF IInv
<1> QED BY InitInv, <1>1, PTL DEF Spec

(* The records and sets keep their types, and who waits holds a flight. *)
THEOREM SessionTypeCorrect == Spec => []TypeOK
BY InductiveInvariant, PTL DEF IInv

(* A token is not valid any more when its successor is there, however many
   requests exchange it at once and whichever step fails (refresh_token_svc.go). *)
THEOREM Rotation == Spec => []NeverBothValid
BY InductiveInvariant, PTL DEF IInv

(* At most one request per token asks auth-service (auth.go). *)
THEOREM SingleFlight == Spec => []OneFlight
<1>1. IInv => OneFlight BY DEF IInv, OneLeader, Leads, OneFlight, Asking
<1> QED BY InductiveInvariant, <1>1, PTL

(* A request is given the successor of its own token, also by a flight another
   request led and the answer of which came after others (auth.go). *)
THEOREM GivenOwnSuccessor == Spec => []OwnSuccessor
<1>1. IInv => OwnSuccessor
  BY DEF IInv, CallsOwn, Exchanges, SuccessorsOf, OwnSuccessor
<1> QED BY InductiveInvariant, <1>1, PTL
=============================================================================
