--------------------------------- MODULE OAuth ---------------------------------
(***************************************************************************)
(* Signing in with Google: googleStart puts a state into a cookie and      *)
(* sends the browser to Google, which sends it back to googleCallback with *)
(* a code and the state.  A browser has one cookie for all its tabs, and   *)
(* its user may open the address of a callback again, or elsewhere.  (What *)
(* oauthLogin does with the account is in Accounts.)                       *)
(***************************************************************************)
EXTENDS Naturals

CONSTANTS
    Browser,
    Callback,       \* callbacks in flight
    MaxStates,      \* bound on the sign-ins that are started
    NoBrowser       \* "none yet"

ASSUME OAuthAssumption == MaxStates \in Nat /\ NoBrowser \notin Browser

VARIABLES
    states,         \* states made so far
    starter,        \* the browser each was made for
    cookie,         \* oauth_state, 0 if there is none
    consented,      \* states that Google has answered with a code
    spent,          \* codes, by their states, that Google has exchanged
    cbStep,         \* the await each callback is about to perform
    cbHeld,         \* where it comes from, and with what
    signedIn        \* browsers and states of the tokens handed out

oauthVars == <<states, starter, cookie, consented, spent, cbStep, cbHeld, signedIn>>

State == 1 .. MaxStates

OAuthTypeOK ==
    /\ states \in 0 .. MaxStates
    /\ starter \in [State -> Browser \cup {NoBrowser}]
    /\ cookie \in [Browser -> 0 .. MaxStates]
    /\ consented \in SUBSET State
    /\ spent \in SUBSET State
    /\ cbStep \in [Callback -> {"idle", "exchange", "profile", "login", "failed"}]
    /\ cbHeld \in [Callback -> [browser : Browser \cup {NoBrowser}, state : 0 .. MaxStates]]
    /\ \A c \in Callback :
          /\ cbStep[c] # "idle" => cbHeld[c].browser \in Browser
          /\ cbStep[c] \in {"exchange", "profile", "login"} => cbHeld[c].state # 0
    /\ signedIn \in SUBSET (Browser \X State)

OAuthInit ==
    /\ states = 0
    /\ starter = [s \in State |-> NoBrowser]
    /\ cookie = [b \in Browser |-> 0]
    /\ consented = {} /\ spent = {}
    /\ cbStep = [c \in Callback |-> "idle"]
    /\ cbHeld = [c \in Callback |-> [browser |-> NoBrowser, state |-> 0]]
    /\ signedIn = {}

-----------------------------------------------------------------------------
(* googleStart: the cookie of a sign-in that is under way is overwritten.  *)
GoogleStart(b) ==
    /\ states < MaxStates
    /\ states' = states + 1
    /\ starter' = [starter EXCEPT ![states'] = b]
    /\ cookie' = [cookie EXCEPT ![b] = states']
    /\ UNCHANGED <<consented, spent, cbStep, cbHeld, signedIn>>

(* The cookie lives for ten minutes. *)
CookieExpires(b) ==
    /\ cookie[b] # 0
    /\ cookie' = [cookie EXCEPT ![b] = 0]
    /\ UNCHANGED <<states, starter, consented, spent, cbStep, cbHeld, signedIn>>

(* The user consents, and Google makes a code. *)
Consent(s) ==
    /\ s <= states
    /\ s \notin consented
    /\ consented' = consented \cup {s}
    /\ UNCHANGED <<states, starter, cookie, spent, cbStep, cbHeld, signedIn>>

-----------------------------------------------------------------------------
(* A mutant: a state is asked for, and not compared with the cookie. *)
BugOpens(b, s) == s # 0

(* state === cookieState. *)
Opens(b, s) == s # 0 /\ s = cookie[b]

(* googleCallback, with the code of s, or with an error or nothing at all. *)
GoogleCallback(c, b, s) ==
    /\ cbStep[c] = "idle"
    /\ s \in consented \cup {0}
    /\ cbStep' = [cbStep EXCEPT ![c] = IF Opens(b, s) THEN "exchange" ELSE "failed"]
    /\ cbHeld' = [cbHeld EXCEPT ![c] = [browser |-> b, state |-> s]]
    /\ UNCHANGED <<states, starter, cookie, consented, spent, signedIn>>

(* exchangeCode: Google takes a code once. *)
ExchangeCode(c) ==
    /\ cbStep[c] = "exchange"
    /\ LET s == cbHeld[c].state IN
       IF s \in spent
       THEN cbStep' = [cbStep EXCEPT ![c] = "failed"] /\ UNCHANGED spent
       ELSE /\ spent' = spent \cup {s}
            /\ cbStep' = [cbStep EXCEPT ![c] = "profile"]
    /\ UNCHANGED <<states, starter, cookie, consented, cbHeld, signedIn>>

FetchProfile(c) ==
    /\ cbStep[c] = "profile"
    /\ cbStep' = [cbStep EXCEPT ![c] = "login"]
    /\ UNCHANGED <<states, starter, cookie, consented, spent, cbHeld, signedIn>>

(* The response clears the cookie: it reaches the browser only now.        *)
Responds(c) ==
    /\ cookie' = [cookie EXCEPT ![cbHeld[c].browser] = 0]
    /\ cbStep' = [cbStep EXCEPT ![c] = "idle"]
    /\ cbHeld' = [cbHeld EXCEPT ![c] = [browser |-> NoBrowser, state |-> 0]]
    /\ UNCHANGED <<states, starter, consented, spent>>

(* oauthLogin has issued tokens, which the redirect hands to the browser.  *)
HandTokens(c) ==
    /\ cbStep[c] = "login"
    /\ signedIn' = signedIn \cup {<<cbHeld[c].browser, cbHeld[c].state>>}
    /\ Responds(c)

RedirectFailed(c) ==
    /\ cbStep[c] = "failed"
    /\ Responds(c)
    /\ UNCHANGED signedIn

(* Google or oauthLogin refuses: every error is caught. *)
CallbackFails(c) ==
    /\ cbStep[c] \in {"exchange", "profile", "login"}
    /\ cbStep' = [cbStep EXCEPT ![c] = "failed"]
    /\ UNCHANGED <<states, starter, cookie, consented, spent, cbHeld, signedIn>>

-----------------------------------------------------------------------------
OAuthNext ==
    \/ \E b \in Browser : GoogleStart(b) \/ CookieExpires(b)
    \/ \E s \in State : Consent(s)
    \/ \E c \in Callback, b \in Browser, s \in 0 .. MaxStates : GoogleCallback(c, b, s)
    \/ \E c \in Callback :
          \/ ExchangeCode(c) \/ FetchProfile(c) \/ HandTokens(c)
          \/ RedirectFailed(c) \/ CallbackFails(c)

OAuthSpec == OAuthInit /\ [][OAuthNext]_oauthVars

-----------------------------------------------------------------------------
(* Tokens go to the browser in which the sign-in was started, and once for *)
(* each, although a callback that is opened twice passes the comparison    *)
(* twice: the first response has not cleared the cookie yet.               *)
OAuthSignInWasStarted ==
    /\ \A e \in signedIn : e[2] <= states /\ starter[e[2]] = e[1]
    /\ \A c, d \in Callback :
          c # d /\ cbStep[c] \in {"profile", "login"} /\ cbStep[d] \in {"profile", "login"}
             => cbHeld[c].state # cbHeld[d].state
    /\ \A c \in Callback : cbStep[c] \in {"profile", "login"} =>
          \A b \in Browser : <<b, cbHeld[c].state>> \notin signedIn
=============================================================================
