------------------------------ MODULE AiRelay ------------------------------
(***************************************************************************)
(* One click on "send" in the canvas editor: the browser (canvas-studio.js *)
(* sendToAI), nginx, the web application (canvas_studio.py generate), the  *)
(* proxy (ai_proxy_server.py generate) and the provider each wait for the  *)
(* next with a limit of their own, 60, 50 and 45 seconds.  Time is         *)
(* abstracted to its order: any limit may pass first, because the limits   *)
(* of urlopen hold for each socket operation and two of the SDKs retry.    *)
(***************************************************************************)
EXTENDS Integers, FiniteSets

CONSTANTS MaxClicks,     \* bound: calls the page makes
          ProxyThreads   \* request threads of the proxy

ASSUME AiRelayAssumption == {MaxClicks, ProxyThreads} \subseteq Nat \ {0}

VARIABLES button,    \* the button is enabled
          status,    \* what the page says
          shown,     \* the call whose text the page shows, 0 for an empty output
          browser,   \* the last call of the page
          web,       \* the handler of web of each call
          proxy,     \* the handler of the proxy of each call
          provider,  \* the request at the provider of each call
          answer     \* what nginx will pass to the browser

relayVars == <<button, status, shown, browser, web, proxy, provider, answer>>

Call == 1..MaxClicks

RelayInit ==
    /\ button = TRUE
    /\ status = "idle"
    /\ shown = 0
    /\ browser = 0
    /\ web = [c \in Call |-> "none"]
    /\ proxy = [c \in Call |-> "none"]
    /\ provider = [c \in Call |-> "none"]
    /\ answer = [c \in Call |-> "none"]

----------------------------------------------------------------------------
(* The page.                                                               *)

\* Variant: the button stays enabled.
ClickAgain ==
    /\ button
    /\ browser < MaxClicks
    /\ status' = "busy"
    /\ browser' = browser + 1
    /\ web' = [web EXCEPT ![browser + 1] = "check"]
    /\ UNCHANGED <<button, shown, proxy, provider, answer>>

Click ==
    /\ button
    /\ browser < MaxClicks
    /\ button' = FALSE
    /\ status' = "busy"
    /\ browser' = browser + 1
    /\ web' = [web EXCEPT ![browser + 1] = "check"]
    /\ UNCHANGED <<shown, proxy, provider, answer>>

\* What nginx may have for the page: the JSON with the text, a page that is no
\* JSON, an error.
Received == {"ok", "page", "error"}

\* What a success shows: res.json().catch(() => ({})) turns a page, and a body
\* that breaks off after its head, into no text at all.
Texts(c) == IF answer[c] = "ok" THEN {c, 0} ELSE {0}

\* Variant: the button is enabled only after a success.
ReceiveOk(c) ==
    /\ answer[c] \in Received
    /\ answer' = [answer EXCEPT ![c] = "received"]
    /\ \/ answer[c] # "error" /\ status' = "done" /\ shown' \in Texts(c) /\ button' = TRUE
       \/ answer[c] = "error" /\ status' = "failed" /\ UNCHANGED <<shown, button>>
    /\ UNCHANGED <<browser, web, proxy, provider>>

\* The fetch ends: res.ok, or an error; "finally" enables the button.
Receive(c) ==
    /\ answer[c] \in Received
    /\ answer' = [answer EXCEPT ![c] = "received"]
    /\ \/ answer[c] # "error" /\ status' = "done" /\ shown' \in Texts(c)
       \/ answer[c] = "error" /\ status' = "failed" /\ UNCHANGED shown
    /\ button' = TRUE
    /\ UNCHANGED <<browser, web, proxy, provider>>

\* An answer comes only to who still waits for it.
Pass(c, result) == answer' = IF answer[c] = "none" THEN [answer EXCEPT ![c] = result] ELSE answer

\* nginx gives up (504), or the connection of the browser breaks.
NginxTimesOut(c) ==
    /\ web[c] # "none" /\ answer[c] = "none"
    /\ answer' = [answer EXCEPT ![c] = "error"]
    /\ UNCHANGED <<button, status, shown, browser, web, proxy, provider>>

----------------------------------------------------------------------------
(* web.                                                                    *)

\* 400 for a form or an image that is not right, 503 without a token.
WebRefuses(c) ==
    /\ web[c] = "check"
    /\ web' = [web EXCEPT ![c] = "over"]
    /\ Pass(c, "error")
    /\ UNCHANGED <<button, status, shown, browser, proxy, provider>>

\* login_required, without the check of CSRF tokens (SECURITY_MODE): fetch follows
\* the redirect to the page of the login, a 200.
WebRedirects(c) ==
    /\ web[c] = "check"
    /\ web' = [web EXCEPT ![c] = "over"]
    /\ Pass(c, "page")
    /\ UNCHANGED <<button, status, shown, browser, proxy, provider>>

\* urlopen: the proxy takes the request when it has a thread.
WebCalls(c) ==
    /\ web[c] = "check"
    /\ web' = [web EXCEPT ![c] = "waits"]
    /\ proxy' = [proxy EXCEPT ![c] = "queue"]
    /\ UNCHANGED <<button, status, shown, browser, provider, answer>>

\* The answer of the proxy: its text, or its error with the code it had if that
\* is 400, 403 or 503 and with 502 if not.
WebAnswers(c) ==
    /\ web[c] = "waits"
    /\ proxy[c] \in {"ok", "error"}
    /\ web' = [web EXCEPT ![c] = "over"]
    /\ proxy' = [proxy EXCEPT ![c] = "over"]
    /\ Pass(c, proxy[c])
    /\ UNCHANGED <<button, status, shown, browser, provider>>

\* TimeoutError or URLError: 502.  The proxy goes on.
WebTimesOut(c) ==
    /\ web[c] = "waits"
    /\ web' = [web EXCEPT ![c] = "over"]
    /\ Pass(c, "error")
    /\ UNCHANGED <<button, status, shown, browser, proxy, provider>>

----------------------------------------------------------------------------
(* The proxy.                                                              *)

Serving == {c \in Call : proxy[c] \in {"check", "waits", "ok", "error"}}

ProxyTakes(c) ==
    /\ proxy[c] = "queue"
    /\ Cardinality(Serving) < ProxyThreads
    /\ proxy' = [proxy EXCEPT ![c] = "check"]
    /\ UNCHANGED <<button, status, shown, browser, web, provider, answer>>

\* 503, 403 or 400: not configured, not authorised, no image.
ProxyRefuses(c) ==
    /\ proxy[c] = "check"
    /\ proxy' = [proxy EXCEPT ![c] = "error"]
    /\ UNCHANGED <<button, status, shown, browser, web, provider, answer>>

ProxyCalls(c) ==
    /\ proxy[c] = "check"
    /\ proxy' = [proxy EXCEPT ![c] = "waits"]
    /\ provider' = [provider EXCEPT ![c] = "works"]
    /\ UNCHANGED <<button, status, shown, browser, web, answer>>

\* _call_anthropic, _call_openai, _call_gemini: a text, or an APIError, an
\* HTTPError, a body without the text: 502.
ProxyAnswers(c) ==
    /\ proxy[c] = "waits"
    /\ provider[c] \in {"text", "fails"}
    /\ proxy' = [proxy EXCEPT ![c] = IF provider[c] = "text" THEN "ok" ELSE "error"]
    /\ provider' = [provider EXCEPT ![c] = IF provider[c] = "text" THEN "read" ELSE "over"]
    /\ UNCHANGED <<button, status, shown, browser, web, answer>>

\* CANVAS_AI_TIMEOUT_SEC: 502.  A late answer of the provider is lost.
ProxyTimesOut(c) ==
    /\ proxy[c] = "waits"
    /\ proxy' = [proxy EXCEPT ![c] = "error"]
    /\ provider' = [provider EXCEPT ![c] = "over"]
    /\ UNCHANGED <<button, status, shown, browser, web, answer>>

\* Nobody waits any more for what the proxy has, or would have, to say.
ProxyDrops(c) ==
    /\ web[c] = "over"
    /\ proxy[c] \in {"ok", "error"}
    /\ proxy' = [proxy EXCEPT ![c] = "over"]
    /\ UNCHANGED <<button, status, shown, browser, web, provider, answer>>

ProviderEnds(c) ==
    /\ provider[c] = "works"
    /\ provider' \in {[provider EXCEPT ![c] = r] : r \in {"text", "fails"}}
    /\ UNCHANGED <<button, status, shown, browser, web, proxy, answer>>

RelayCall(c) ==
    \/ Receive(c) \/ NginxTimesOut(c)
    \/ WebRefuses(c) \/ WebRedirects(c) \/ WebCalls(c) \/ WebAnswers(c) \/ WebTimesOut(c)
    \/ ProxyTakes(c) \/ ProxyRefuses(c) \/ ProxyCalls(c) \/ ProxyAnswers(c)
    \/ ProxyTimesOut(c) \/ ProxyDrops(c) \/ ProviderEnds(c)

RelayNext == Click \/ \E c \in Call : RelayCall(c)

----------------------------------------------------------------------------
(* Properties.                                                             *)

\* What the page shows when it says "done" is the text the provider has written
\* for the last click, or nothing: no late answer of an earlier call, and no
\* timeout or redirect on the way, puts another text there.
NoStaleText ==
    status = "done" => \/ shown = 0
                       \/ shown = browser /\ provider[browser] = "read"

\* The page is not left busy, whatever happens to a call behind it: each party
\* has a limit of its own.
ButtonReturns == ~button ~> button
=============================================================================
