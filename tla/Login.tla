-------------------------------- MODULE Login -------------------------------
(***************************************************************************)
(* From a request without a session to the page it asked for               *)
(* (web/server.go requireSession, internal/oidc, internal/seal,            *)
(* web/handlers.go handleAuthCallback).  The server keeps nothing between  *)
(* the redirect and the callback: the page and the PKCE verifier travel,   *)
(* sealed, through the browser and the identity provider.                  *)
(*                                                                         *)
(* Tabs share a cookie jar.  A tab may be duplicated, a callback repeated, *)
(* and the server restarted with another ENCRYPTION_KEY, at any moment.    *)
(***************************************************************************)
EXTENDS Integers, FiniteSets

CONSTANTS
    Tabs,
    Numbers,    \* verifiers and codes, drawn so that none is held twice
    Keys,       \* values of ENCRYPTION_KEY
    None        \* no code, no URL, no cookie

\* Every tab may hold a code, or a verifier, and one more can be drawn.
ASSUME NumbersAssumption ==
    /\ IsFiniteSet(Tabs) /\ IsFiniteSet(Numbers)
    /\ Cardinality(Tabs) < Cardinality(Numbers)
    /\ None \notin Numbers
ASSUME KeysAssumption == Keys \subseteq Nat

\* A request line; /job accepts only POST, the others only GET.
RequestLines == {<<"GET", "/">>, <<"GET", "/jobs">>, <<"POST", "/job">>}
Paths == {r[2] : r \in RequestLines}
NoLine == <<"GET", "/">>

VARIABLES
    at,         \* where tab t's request is
    line,       \* line[t]: the request line
    url,        \* url[t]: its last auth URL or callback URL
    want,       \* history: the path the user wanted when this URL was made
    codes,      \* codes[c]: the challenge the provider remembers for c
    jar,        \* the sealed cookie that the tabs share
    key         \* the server's sealer

loginVars == <<at, line, url, want, codes, jar, key>>

LoginInit ==
    /\ at = [t \in Tabs |-> "idle"]
    /\ line = [t \in Tabs |-> NoLine]
    /\ url = [t \in Tabs |-> None]
    /\ want = [t \in Tabs |-> "/"]
    /\ codes = [c \in Numbers |-> None]
    /\ jar = None
    /\ key \in Keys

\* SealAsJSON and OpenAsJSON: only the same key and label open it.
Seal(label, plain) == [key |-> key, label |-> label, plain |-> plain]
Opens(label, sealed) == sealed # None /\ sealed.key = key /\ sealed.label = label

\* newPKCEChallenge: a digest, equal only for equal verifiers.
Challenge(verifier) == <<"S256", verifier>>

-----------------------------------------------------------------------------
TabGoes(t, point) == at' = [at EXCEPT ![t] = point]

\* The user opens a page or sends the form, and does not go back from there.
Ask(t, request) ==
    /\ at[t] \in {"idle", "shown", "refused"}
    /\ TabGoes(t, "request")
    /\ line' = [line EXCEPT ![t] = request]
    /\ want' = [want EXCEPT ![t] = request[2]]
    /\ url' = [url EXCEPT ![t] = None]
    /\ UNCHANGED <<codes, jar, key>>

\* requireSession, with a session: the mux decides.
Serve(t) ==
    /\ at[t] = "request" /\ Opens("session", jar)
    /\ TabGoes(t, IF line[t] \in RequestLines THEN "shown" ELSE "refused")
    /\ UNCHANGED <<line, url, want, codes, jar, key>>

\* A random number that nobody holds.
Fresh(held) == CHOOSE n \in Numbers : n \notin held
Verifiers == {url[t].verifier : t \in {u \in Tabs : url[u] # None}}
Codes == {url[t].code : t \in {u \in Tabs : url[u] # None}}

\* Mutant: the URL and the state get challenges of their own.
GetAuthURLTwice(t) ==
    /\ at[t] = "request" /\ ~ Opens("session", jar)
    /\ LET verifier == Fresh(Verifiers)
           other == Fresh(Verifiers \cup {verifier})
       IN  url' = [url EXCEPT ![t] =
              [code |-> None, verifier |-> verifier,
               challenge |-> Challenge(verifier),
               state |-> Seal("oidc_state",
                              [OriginalURL |-> line[t][2], PKCEVerifier |-> other])]]
    /\ line' = [line EXCEPT ![t] = NoLine]
    /\ TabGoes(t, "provider")
    /\ UNCHANGED <<want, codes, jar, key>>

\* requireSession, without: 303 to GetAuthURL, and this request is over.
GetAuthURL(t) ==
    /\ at[t] = "request" /\ ~ Opens("session", jar)
    /\ LET verifier == Fresh(Verifiers)
       IN  url' = [url EXCEPT ![t] =
              [code |-> None, verifier |-> verifier,
               challenge |-> Challenge(verifier),
               state |-> Seal("oidc_state",
                              [OriginalURL |-> line[t][2], PKCEVerifier |-> verifier])]]
    /\ line' = [line EXCEPT ![t] = NoLine]
    /\ TabGoes(t, "provider")
    /\ UNCHANGED <<want, codes, jar, key>>

\* The provider sends the browser to the callback, with a code or an error.
\* It forgets the codes that nobody holds.
Authorize(t) ==
    /\ at[t] = "provider"
    /\ LET code == Fresh(Codes)
       IN  /\ codes' = [c \in Numbers |-> IF c = code THEN url[t].challenge
                                      ELSE IF c \in Codes THEN codes[c] ELSE None]
           /\ url' = [url EXCEPT ![t].code = code]
    /\ TabGoes(t, "callback")
    /\ UNCHANGED <<line, want, jar, key>>

Deny(t) ==
    /\ at[t] = "provider"
    /\ TabGoes(t, "callback")
    /\ UNCHANGED <<line, url, want, codes, jar, key>>

\* handleAuthCallback without code or state, or with a state that does not open.
CallbackRefused(t) ==
    /\ at[t] = "callback"
    /\ url[t].code = None \/ ~ Opens("oidc_state", url[t].state)
    /\ TabGoes(t, "refused")
    /\ UNCHANGED <<line, url, want, codes, jar, key>>

\* The token endpoint takes a code once, with the verifier of its challenge.
Exchange(t) ==
    /\ at[t] = "callback" /\ url[t].code # None /\ Opens("oidc_state", url[t].state)
    /\ LET code == url[t].code
           verifier == url[t].state.plain.PKCEVerifier
       IN  IF codes[code] = Challenge(verifier)
             THEN TabGoes(t, "token") /\ codes' = [codes EXCEPT ![code] = None]
             ELSE TabGoes(t, "refused") /\ UNCHANGED codes
    /\ UNCHANGED <<line, url, want, jar, key>>

\* The token endpoint, the user info endpoint or Provision fails.
LoginFails(t) ==
    /\ at[t] \in {"callback", "token"}
    /\ TabGoes(t, "refused")
    /\ UNCHANGED <<line, url, want, codes, jar, key>>

\* Mutant: the browser deletes the cookie when it arrives (SESSION_TTL=-1s).
IssueExpired(t) ==
    /\ at[t] = "token"
    /\ jar' = None
    /\ line' = [line EXCEPT ![t] = <<"GET", url[t].state.plain.OriginalURL>>]
    /\ TabGoes(t, "request")
    /\ UNCHANGED <<url, want, codes, key>>

\* Issue and 303 to safePath of the original URL, which is always a GET.  The
\* state was opened before: a restart in between has ended the handler.
Issue(t) ==
    /\ at[t] = "token"
    /\ jar' = Seal("session", None)
    /\ line' = [line EXCEPT ![t] = <<"GET", url[t].state.plain.OriginalURL>>]
    /\ TabGoes(t, "request")
    /\ UNCHANGED <<url, want, codes, key>>

-----------------------------------------------------------------------------
(* What else happens to browsers and servers.                               *)

\* The callback is sent again: a reload, or back and forward.
Reload(t) ==
    /\ at[t] \in {"shown", "refused"} /\ url[t] # None
    /\ TabGoes(t, "callback")
    /\ want' = [want EXCEPT ![t] = url[t].state.plain.OriginalURL]
    /\ UNCHANGED <<line, url, codes, jar, key>>

\* A tab at the provider or the callback is duplicated.
Duplicate(t, copy) ==
    /\ at[t] \in {"provider", "callback"} /\ at[copy] = "idle"
    /\ TabGoes(copy, at[t])
    /\ url' = [url EXCEPT ![copy] = url[t]]
    /\ want' = [want EXCEPT ![copy] = want[t]]
    /\ UNCHANGED <<line, codes, jar, key>>

\* A session lives longer than the redirect that follows its issue.
Expire ==
    /\ jar # None
    /\ \A t \in Tabs : at[t] # "request"
    /\ jar' = None
    /\ UNCHANGED <<at, line, url, want, codes, key>>

\* Restarted with another key; running handlers are gone.
Restart ==
    /\ \E k \in Keys : k > key /\ key' = k
    /\ at' = [t \in Tabs |-> IF at[t] = "token" THEN "refused" ELSE at[t]]
    /\ UNCHANGED <<line, url, want, codes, jar>>

Step(t) ==
    \/ Serve(t) \/ GetAuthURL(t) \/ Authorize(t) \/ Deny(t)
    \/ CallbackRefused(t) \/ Exchange(t) \/ LoginFails(t) \/ Issue(t)

LoginNext ==
    \/ \E t \in Tabs : Step(t) \/ Reload(t)
    \/ \E t \in Tabs, request \in RequestLines : Ask(t, request)
    \/ \E t, copy \in Tabs : Duplicate(t, copy)
    \/ Expire
    \/ Restart

LoginSpec == LoginInit /\ [][LoginNext]_loginVars

(* Browsers follow redirects, the provider answers, handlers end.           *)
LoginFairSpec == LoginSpec /\ \A t \in Tabs : WF_loginVars(Step(t))

-----------------------------------------------------------------------------
States == [key : Keys, label : {"oidc_state"},
           plain : [OriginalURL : Paths, PKCEVerifier : Numbers]]
Challenges == {Challenge(n) : n \in Numbers}
URLs == [code : Numbers \cup {None}, verifier : Numbers, challenge : Challenges,
         state : States]
Cookies == [key : Keys, label : {"session"}, plain : {None}]

ASSUME NoneAssumption == None \notin URLs \cup Cookies \cup Challenges

LoginTypeOK ==
    /\ at \in [Tabs -> {"idle", "request", "provider", "callback", "token", "shown", "refused"}]
    /\ line \in [Tabs -> {"GET", "POST"} \X Paths]
    /\ url \in [Tabs -> URLs \cup {None}]
    /\ want \in [Tabs -> Paths]
    /\ codes \in [Numbers -> Challenges \cup {None}]
    /\ jar \in Cookies \cup {None}
    /\ key \in Keys

(* A login ends at the page that its own tab asked for, however many tabs   *)
(* log in at the same time through the one cookie jar.                      *)
ReturnsToOwnPage ==
    \A t \in Tabs : at[t] \in {"request", "shown"} => line[t][2] = want[t]

(* Two logins at the same time do not spoil each other: a code that its     *)
(* provider still remembers is accepted with the verifier of its own URL.   *)
OwnVerifierFits ==
    \A t \in Tabs :
        url[t] # None /\ url[t].code # None /\ codes[url[t].code] # None =>
            codes[url[t].code] = Challenge(url[t].state.plain.PKCEVerifier)

(* Tabs that log in at the same time, through one cookie jar, do not mix up *)
(* what their redirects carry: where to return, and which verifier.         *)
TabsDoNotMix == ReturnsToOwnPage /\ OwnVerifierFits

(* No tab is sent back and forth between the server and the provider for    *)
(* ever.                                                                    *)
LoginEnds ==
    \A t \in Tabs : at[t] = "request" ~> at[t] \in {"shown", "refused"}

=============================================================================
