----------------------------- MODULE WebSession -----------------------------
(***************************************************************************)
(* The session as the web client keeps it: the tabs of one browser, which  *)
(* share its cookies; the middleware of the web server (middleware.ts),    *)
(* which every page passes through; the pages, which read the session the  *)
(* middleware found (fetch_user.ts, request-token.ts); the calls of a test *)
(* to the gateway, which refreshes for itself (http.ts); and the forms     *)
(* that begin and end a session (auth.ts, login-form.tsx, ...).            *)
(*                                                                         *)
(* A tab has one call under way at a time: a page, one of a test, or a     *)
(* form, whose button is disabled meanwhile.  The services behind the      *)
(* gateway are those of Session, each call one step here: what is looked   *)
(* at is which tokens the browser, the middleware and a page have, and     *)
(* when.                                                                   *)
(***************************************************************************)
EXTENDS Integers, FiniteSets

CONSTANTS
  Tabs,
  Opened,     \* bound: the pages that the participant opens
  MaxTokens,  \* bound: the tokens ever issued
  MaxVisits,  \* bound: how often the participant opens a page
  MaxSends,   \* bound: how often a form, the answers, a call or a click is sent
  MaxFaults   \* bound: how often a call fails

ASSUME WebAssumption ==
  /\ IsFiniteSet(Tabs) /\ MaxTokens \in Nat \ {0}
  /\ MaxVisits \in Nat /\ MaxSends \in Nat /\ MaxFaults \in Nat

(* Tokens are numbered as they are issued; an access token has the number of
   the refresh token it came with.  0 is none. *)
Tokens == 0 .. MaxTokens

VARIABLES
  jar,        \* the cookies access_token, refresh_token and mb_guest_id
  issued,
  live,       \* the refresh tokens that can be exchanged
  fresh,      \* the access tokens that have not expired
  call,       \* call[t]: the call of tab t
  tab,        \* tab[t]: what tab t shows
  stranded,   \* history: an answer with a token was lost, or all were revoked
  visits, sends, faults

tokenVars == <<issued, live, fresh>>
inputs == <<visits, sends>>
bounds == <<inputs, faults>>
webVars == <<jar, tokenVars, call, tab, stranded, bounds>>

AuthPages == {"login", "register", "forgot", "reset"}
Pages == AuthPages \cup {"home", "dashboard", "tryout", "quiz", "result"}
PublicPages == Pages \ {"dashboard"}

ASSUME OpenedAssumption == Opened \subseteq Pages

Blank == [page |-> "none", data |-> 0]
AtQuiz == [page |-> "quiz", data |-> 0]
Forms == {"login", "register", "forgot", "reset"}
Kinds == {"page", "api", "logout", "submit"} \cup Forms
Guests == Nat

(* step: where the call is.  jar: the cookies it was sent with.  session: the
   access token the middleware vouches for.  cookies: the token to be set. *)
NoCall ==
  [kind |-> "page", page |-> "home", step |-> "none", access |-> 0, refresh |-> 0,
   guest |-> 0, session |-> 0, cookies |-> 0, net |-> "ok",
   served |-> FALSE, data |-> 0]

WebTypeOK ==
  /\ jar.access \in Tokens /\ jar.refresh \in Tokens /\ jar.guest \in Guests
  /\ issued \in Tokens /\ live \subseteq 1 .. issued /\ fresh \subseteq 1 .. issued
  /\ \A t \in Tabs :
       /\ call[t].kind \in Kinds /\ call[t].page \in Pages
       /\ call[t].step \in {"none", "validate", "refresh", "wait", "render", "redirect",
                            "api", "auth", "reply"}
       /\ call[t].session \in 0 .. issued /\ call[t].cookies \in 0 .. issued
       /\ call[t].net \in {"ok", "refused", "failed", "lost"}
       /\ tab[t].page \in Pages \cup {"none"}

(* A browser that has been away: its access token may have expired.  Its tabs
   are empty, or at the questionnaire. *)
WebInit ==
  /\ issued = 1 /\ live = {1}
  /\ fresh \in {{}, {1}}
  /\ jar \in {[access |-> a, refresh |-> a, guest |-> 0] : a \in {0, 1}}
  /\ call = [t \in Tabs |-> NoCall]
  /\ \E shown \in {Blank, AtQuiz} : tab = [t \in Tabs |-> shown]
  /\ stranded = FALSE
  /\ visits = 0 /\ sends = 0 /\ faults = 0

VisitCounted == visits < MaxVisits /\ visits' = visits + 1 /\ UNCHANGED sends
SendCounted == sends < MaxSends /\ sends' = sends + 1 /\ UNCHANGED visits
Fault == faults < MaxFaults /\ faults' = faults + 1

Idle(t) == call[t].step = "none"

(* A tab is of no use until the page it calls has come.  A request has the
   cookies of when it is sent. *)
Sent(kind, page, step, cookies) ==
  [NoCall EXCEPT !.kind = kind, !.page = page, !.step = step,
     !.access = cookies.access, !.refresh = cookies.refresh, !.guest = cookies.guest]

PageCall(page, cookies) == Sent("page", page, "validate", cookies)

Visit(t, page) ==
  /\ Idle(t) /\ VisitCounted
  /\ call' = [call EXCEPT ![t] = PageCall(page, jar)]
  /\ tab' = [tab EXCEPT ![t] = Blank]
  /\ UNCHANGED <<jar, tokenVars, stranded, faults>>

(* An access token lives for minutes, an answer that brings one arrives. *)
Expires(a) ==
  /\ a \in fresh
  /\ \A t \in Tabs : call[t].cookies # a
  /\ fresh' = fresh \ {a}
  /\ UNCHANGED <<jar, issued, live, call, tab, stranded, bounds>>

(***************************************************************************)
(* The middleware: resolveSession.                                         *)
(***************************************************************************)

(* An answer that leads the browser to another page. *)
Redirect(c, page) == [c EXCEPT !.step = "redirect", !.page = page, !.session = 0]

(* Faulty: the forms are not among the public pages. *)
FormsNotPublic(c) ==
  IF c.page \in PublicPages \ AuthPages THEN [c EXCEPT !.step = "render"]
  ELSE Redirect(c, "login")

(* With no session a public page goes on, another one leads to the login. *)
Unresolved(c) ==
  IF c.page \in PublicPages THEN [c EXCEPT !.step = "render"]
  ELSE Redirect(c, "login")

(* Faulty: the cookies of the refresh are not passed on to the browser. *)
ResolvedUnset(c, a, set) ==
  [c EXCEPT !.step = "render", !.session = a, !.cookies = 0]

(* nextWithUser. *)
Resolved(c, a, set) ==
  [c EXCEPT !.step = "render", !.session = a, !.cookies = set]

(* Faulty: nobody looks whether there is one. *)
NoFlight(r) == FALSE

(* singleFlightByKey: a refresh with this token is under way. *)
InFlight(r) == \E t \in Tabs : call[t].step = "refresh" /\ call[t].refresh = r

(* The access token is looked at by way of the gateway, and the refresh token
   only when that has come back. *)
Validate(t) ==
  /\ call[t].step = "validate"
  /\ LET c == call[t]
         failed == [c EXCEPT !.step = IF InFlight(c.refresh) THEN "wait" ELSE "refresh"]
     IN  \/ /\ c.access \in fresh
            /\ call' = [call EXCEPT ![t] = Resolved(c, c.access, 0)]
            /\ UNCHANGED <<stranded, faults>>
         \/ /\ IF c.access \in fresh THEN Fault /\ stranded' = TRUE
               ELSE UNCHANGED <<stranded, faults>>
            /\ call' = [call EXCEPT ![t] =
                 IF c.refresh = 0 THEN Unresolved(c) ELSE failed]
  /\ UNCHANGED <<jar, tokenVars, tab, inputs>>

(* A token is exchanged for a new pair. *)
Exchange(r) ==
  /\ issued' = issued + 1
  /\ live' = (live \ {r}) \cup {issued'}
  /\ fresh' = fresh \cup {issued'}

(* The call that refreshes, and those that joined it. *)
Joined(t) ==
  {t} \cup {x \in Tabs : call[x].step = "wait" /\ call[x].refresh = call[t].refresh}

Settled(t, new) ==
  [x \in Tabs |->
     IF x \notin Joined(t) THEN call[x]
     ELSE IF new # 0 THEN Resolved(call[x], new, new) ELSE Unresolved(call[x])]

(* refreshSession; the answer may be lost after the token was exchanged. *)
RefreshReturns(t) ==
  /\ call[t].step = "refresh"
  /\ LET r == call[t].refresh
     IN  \/ /\ r \in live /\ issued < MaxTokens
            /\ Exchange(r)
            /\ \/ call' = Settled(t, issued') /\ UNCHANGED <<stranded, faults>>
               \/ Fault /\ call' = Settled(t, 0) /\ stranded' = TRUE
         \/ /\ IF r \in live /\ issued < MaxTokens THEN Fault ELSE UNCHANGED faults
            /\ call' = Settled(t, 0)
            /\ UNCHANGED <<tokenVars, stranded>>
  /\ UNCHANGED <<jar, tab, inputs>>

(***************************************************************************)
(* The pages, on the web server.                                           *)
(***************************************************************************)

(* Faulty: the cookie goes before the header. *)
CookieToken(c) == IF c.access # 0 THEN c.access ELSE c.session

(* getRequestAccessToken: the middleware's header, else the request's cookie. *)
RequestToken(c) == IF c.session # 0 THEN c.session ELSE c.access

(* fetchUser: from the middleware's headers, else by a call of its own. *)
User(c) == c.session # 0 \/ RequestToken(c) \in fresh

Renders(t, pages) ==
  call[t].step = "render" /\ call[t].kind = "page" /\ call[t].page \in pages

Rendered(t, ok) == call' = [call EXCEPT ![t].step = "reply", ![t].served = ok]

(* A participant who is known is led away from the forms. *)
RenderAuth(t) ==
  /\ Renders(t, AuthPages)
  /\ IF User(call[t]) THEN call' = [call EXCEPT ![t] = Redirect(@, "home")]
     ELSE Rendered(t, TRUE)
  /\ UNCHANGED <<jar, tokenVars, tab, stranded, bounds>>

RenderHome(t) ==
  /\ Renders(t, {"home"})
  /\ Rendered(t, TRUE)
  /\ UNCHANGED <<jar, tokenVars, tab, stranded, bounds>>

(* The pages of a test: without a token that is accepted they lead, by way of
   /tryout/intro, to the dashboard. *)
RenderTryout(t) ==
  /\ Renders(t, {"tryout"})
  /\ \/ /\ RequestToken(call[t]) \in fresh
        /\ Rendered(t, TRUE)
        /\ UNCHANGED faults
     \/ /\ IF RequestToken(call[t]) \in fresh THEN Fault ELSE UNCHANGED faults
        /\ call' = [call EXCEPT ![t] = Redirect(@, "dashboard")]
  /\ UNCHANGED <<jar, tokenVars, tab, stranded, inputs>>

(* The dashboard calls with the cookies of the request, not with what the
   middleware found.  The gateway may exchange the refresh token for it, and
   the cookies of that answer go nowhere. *)
RenderDashboard(t) ==
  /\ Renders(t, {"dashboard"})
  /\ LET c == call[t]
     IN  IF c.access \in fresh \/ c.refresh \notin live \/ issued = MaxTokens
           THEN Rendered(t, c.access \in fresh) /\ UNCHANGED <<tokenVars, stranded>>
           ELSE Rendered(t, TRUE) /\ Exchange(c.refresh) /\ stranded' = TRUE
  /\ UNCHANGED <<jar, tab, bounds>>

(* The cookies the browser has after an answer. *)
After(c) == IF c.cookies = 0 THEN jar
            ELSE [jar EXCEPT !.access = c.cookies, !.refresh = c.cookies]

Follow(t) ==
  /\ call[t].step = "redirect"
  /\ jar' = After(call[t])
  /\ call' = [call EXCEPT ![t] = PageCall(call[t].page, jar')]
  /\ UNCHANGED <<tokenVars, tab, stranded, bounds>>

Show(t) ==
  /\ call[t].step = "reply" /\ call[t].kind = "page"
  /\ jar' = After(call[t])
  /\ tab' = [tab EXCEPT ![t] = [page |-> call[t].page, data |-> call[t].data]]
  /\ call' = [call EXCEPT ![t] = NoCall]
  /\ UNCHANGED <<tokenVars, stranded, bounds>>

(* The page does not come; its cookies neither. *)
PageLost(t) ==
  /\ call[t].step = "reply" /\ call[t].kind = "page" /\ Fault
  /\ call' = [call EXCEPT ![t] = NoCall]
  /\ stranded' = (stranded \/ call[t].cookies # 0)
  /\ UNCHANGED <<jar, tokenVars, tab, inputs>>

(***************************************************************************)
(* The calls of a test: fetchJson, straight to the gateway, which looks at *)
(* the cookies itself and answers with new ones if it has refreshed.       *)
(***************************************************************************)
SendApi(t) ==
  /\ Idle(t) /\ tab[t].page = "tryout" /\ SendCounted
  /\ call' = [call EXCEPT ![t] = Sent("api", "tryout", "api", jar)]
  /\ UNCHANGED <<jar, tokenVars, tab, stranded, faults>>

(* The calls that can have joined the gateway's refresh for tab t. *)
Joining(t) ==
  {J \in SUBSET {x \in Tabs : call[x].step = "api" /\ call[x].refresh = call[t].refresh} : t \in J}

(* The calls of the tabs J are answered, with the cookies of new if any. *)
ApiAnswered(J, new, net) ==
  call' = [x \in Tabs |->
    IF x \in J THEN [call[x] EXCEPT !.step = "reply", !.cookies = new, !.net = net]
    ELSE call[x]]

(* The access token is accepted, or the refresh token is exchanged: once it has
   expired, or auth-service could not be asked for it. *)
ApiServed(t) ==
  /\ call[t].step = "api"
  /\ LET c == call[t]
     IN  \/ /\ c.access \in fresh
            /\ ApiAnswered({t}, 0, "ok")
            /\ UNCHANGED <<tokenVars, stranded, faults>>
         \/ /\ c.refresh \in live /\ issued < MaxTokens
            /\ Exchange(c.refresh)
            /\ \E J \in Joining(t) :
                 \/ /\ ApiAnswered(J, issued', "ok")
                    /\ IF c.access \in fresh THEN Fault /\ stranded' = TRUE
                       ELSE UNCHANGED <<stranded, faults>>
                 \/ ApiAnswered(J, 0, "lost") /\ Fault /\ stranded' = TRUE
         \/ /\ IF c.refresh \in live /\ issued < MaxTokens THEN Fault ELSE UNCHANGED faults
            /\ ApiAnswered({t}, 0, "refused")
            /\ UNCHANGED <<tokenVars, stranded>>
  /\ UNCHANGED <<jar, tab, inputs>>

(* The page goes on with what it has. *)
ApiReturns(t) ==
  /\ call[t].step = "reply" /\ call[t].kind = "api"
  /\ jar' = After(call[t])
  /\ call' = [call EXCEPT ![t] = NoCall]
  /\ UNCHANGED <<tokenVars, tab, stranded, bounds>>

(***************************************************************************)
(* The forms: authRequest, straight to the gateway.                        *)
(***************************************************************************)
SendForm(t, form) ==
  /\ Idle(t) /\ tab[t].page = form /\ SendCounted
  /\ call' = [call EXCEPT ![t] = Sent(form, form, "auth", jar)]
  /\ UNCHANGED <<jar, tokenVars, tab, stranded, faults>>

(* The page of a link from an e-mail; its address has the token to reset with. *)
SendReset(t) == SendForm(t, "reset")

(* handleLogout, of a participant who is known. *)
SendLogout(t) ==
  /\ Idle(t) /\ tab[t].page \in {"home", "dashboard", "tryout"} /\ jar.access # 0 /\ SendCounted
  /\ call' = [call EXCEPT ![t] = Sent("logout", tab[t].page, "auth", jar)]
  /\ UNCHANGED <<jar, tokenVars, tab, stranded, faults>>

(* What the gateway and auth-service do: a login issues a pair, a logout and a
   forgotten password revoke. *)
Served(c) ==
  CASE c.kind = "login" ->
         /\ issued < MaxTokens /\ issued' = issued + 1
         /\ live' = live \cup {issued'} /\ fresh' = fresh \cup {issued'}
         /\ UNCHANGED stranded
    [] c.kind = "logout" -> live' = live \ {c.refresh} /\ stranded' = TRUE /\ UNCHANGED <<issued, fresh>>
    [] c.kind = "forgot" -> live' = {} /\ stranded' = TRUE /\ UNCHANGED <<issued, fresh>>
    [] OTHER -> UNCHANGED <<tokenVars, stranded>>

FormServed(t) ==
  /\ call[t].step = "auth"
  /\ Served(call[t])
  /\ \E net \in {"ok", "lost"} :
       /\ IF net = "lost" THEN Fault ELSE UNCHANGED faults
       /\ call' = [call EXCEPT ![t].step = "reply", ![t].net = net,
             ![t].cookies = IF call[t].kind = "login" /\ net = "ok" THEN issued' ELSE 0]
  /\ UNCHANGED <<jar, tab, inputs>>

(* Refused, or not answered within 12 s. *)
FormFails(t) ==
  /\ call[t].step = "auth"
  /\ call' = [call EXCEPT ![t].step = "reply", ![t].net = "refused"]
  /\ UNCHANGED <<jar, tokenVars, tab, stranded, bounds>>

(* Where a form leads to. *)
NextPage(kind) == IF kind = "login" THEN "dashboard" ELSE "login"

(* After a form for a forgotten password, as after any that failed, a message. *)
LedOn(c) == c.net = "ok" /\ c.kind # "forgot"

FormReturns(t) ==
  /\ call[t].step = "reply" /\ call[t].kind \in Forms \cup {"logout"}
  /\ LET c == call[t]
     IN  IF ~LedOn(c)
           THEN call' = [call EXCEPT ![t] = NoCall] /\ UNCHANGED <<jar, tab>>
           ELSE /\ tab' = [tab EXCEPT ![t] = Blank]
                /\ jar' = IF c.kind = "logout" THEN [jar EXCEPT !.access = 0, !.refresh = 0]
                          ELSE After(c)
                /\ call' = [call EXCEPT ![t] = PageCall(NextPage(c.kind), jar')]
  /\ UNCHANGED <<tokenVars, stranded, bounds>>

(* The answers come, and what waits for them goes on. *)
Goes(t) ==
  \/ Validate(t) \/ RefreshReturns(t) \/ Follow(t)
  \/ RenderAuth(t) \/ RenderHome(t) \/ RenderTryout(t) \/ RenderDashboard(t)
  \/ ApiServed(t) \/ ApiReturns(t)
  \/ FormServed(t) \/ FormFails(t) \/ FormReturns(t)

WebNext ==
  \/ \E t \in Tabs, page \in Opened : Visit(t, page)
  \/ \E t \in Tabs, form \in Forms \ {"reset"} : SendForm(t, form)
  \/ \E t \in Tabs : SendReset(t) \/ SendLogout(t) \/ SendApi(t) \/ PageLost(t) \/ Goes(t)
  \/ \E a \in fresh : Expires(a)

(***************************************************************************)
(* Properties.                                                             *)
(***************************************************************************)

(* The exchange of tokens does not cost the browser its session: unless an
   answer with a token was lost, the browser has a token that can be exchanged,
   or it is on its way, however many tabs call at once. *)
SessionKept ==
  \/ stranded
  \/ jar.refresh \in live \cup {0}
  \/ \E t \in Tabs : call[t].cookies \in live

(* Whenever calls have found their access token expired, and ask or wait for
   the exchange of one refresh token, exactly one exchange of it is under way in
   the middleware: it is not spent twice, and nobody waits for nothing.  A call
   whose access token is looked at for longer than that exchange takes, or
   whose token the gateway has exchanged for a test meanwhile, comes too late:
   it asks again, in vain. *)
OneExchange ==
  \A t \in Tabs : call[t].step \in {"refresh", "wait"} =>
    \E x \in Tabs :
      {y \in Tabs : call[y].step = "refresh" /\ call[y].refresh = call[t].refresh} = {x}

(* The pages of a test are served on the strength of the token the middleware
   has just obtained, with which the browser's cookies have nothing to do yet. *)
TokenPassedOn ==
  [][\A t \in Tabs :
       Renders(t, {"tryout"}) /\ call[t].session \in fresh /\ call'[t] # call[t]
         => faults' # faults \/ call'[t].served]_webVars

(* Whatever fails, the pages do not lead round in a circle and no call waits
   for another in vain: once the participant stops, no call is under way. *)
CallsEnd == <>[](\A t \in Tabs : Idle(t))
=============================================================================
