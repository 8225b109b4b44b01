------------------------------- MODULE SignIn -------------------------------
(***************************************************************************)
(* Signing in to the cloud worker (index.js 149-236, 384-417, 480-492,     *)
(* 523-691) from one browser, which may have several tabs.  The worker     *)
(* keeps no session: it signs tokens that the browser returns as cookies,  *)
(* and its table auth_identities holds the Apple subjects that may sign    *)
(* in.  A subject is linked by a callback whose state cookie was made for  *)
(* a browser that was signed in.  Requests overlap at their awaits, and a  *)
(* response sets its cookies when it reaches the browser.  Expiry is an    *)
(* event that may come at any time.                                        *)
(***************************************************************************)
EXTENDS Naturals, FiniteSets

CONSTANTS
    Flows,       \* Apple sign-ins the browser starts; each is its own nonce
    Callbacks,   \* requests to the callback: one for a flow, or one repeated
    Pages,       \* pages that offer Google sign-in; each is its csrf token
    Subjects,    \* Apple IDs in use at this browser
    None

ASSUME SignInAssumption ==
    /\ None \notin Flows \cup Pages \cup Subjects \cup {"google", "link", "login"}
    /\ "google" \notin Subjects

VARIABLES
    session,     \* SESSION_COOKIE: None, "google" or an Apple subject
    stateCookie, \* APPLE_STATE_COOKIE: the flow it was made for, or None
    csrfCookie,  \* AUTH_CSRF_COOKIE: the page it was made for, or None
    linked,      \* auth_identities
    mode,        \* the mode in the state token of each flow, None before it
    wasIn,       \* the flow was started by a browser that was signed in
    begun,       \* flows whose start was answered
    subject,     \* who signed in at Apple for the flow, None before that
    codeUsed,    \* flows whose authorization code was exchanged
    callback,    \* each callback: its flow, the mode it goes by, and its step
    page         \* "new", "offered", "verifying", "replying", "done"

browser == <<session, stateCookie, csrfCookie>>
apple == <<mode, wasIn, begun, subject, codeUsed>>
signInVars == <<browser, linked, apple, callback, page>>

Idle == [flow |-> None, mode |-> None, step |-> "new"]
Steps == {"new", "exchanging", "verified", "signed", "refused", "done"}

SignInInit ==
    /\ session = None /\ stateCookie = None /\ csrfCookie = None
    /\ linked = {}
    /\ mode = [f \in Flows |-> None]
    /\ wasIn = [f \in Flows |-> FALSE]
    /\ begun = {}
    /\ subject = [f \in Flows |-> None]
    /\ codeUsed = {}
    /\ callback = [c \in Callbacks |-> Idle]
    /\ page = [p \in Pages |-> "new"]

\* identityForRequest: a session cookie, or the maintenance password.
Identified(basic) == session # None \/ basic

\* handleAppleStart: whether to link is decided by the cookies of the request.
AppleStart(f, basic) ==
    /\ mode[f] = None
    /\ mode' = [mode EXCEPT ![f] = IF Identified(basic) THEN "link" ELSE "login"]
    /\ wasIn' = [wasIn EXCEPT ![f] = Identified(basic)]
    /\ UNCHANGED <<browser, linked, begun, subject, codeUsed, callback, page>>

\* Its reply: the state that comes last is the one the browser keeps.
StartReplies(f) ==
    /\ mode[f] # None /\ f \notin begun
    /\ begun' = begun \cup {f}
    /\ stateCookie' = f
    /\ UNCHANGED <<session, csrfCookie, linked, mode, wasIn, subject, codeUsed, callback, page>>

\* At Apple, someone signs in for the flow.
AtApple(f, s) ==
    /\ f \in begun /\ subject[f] = None
    /\ subject' = [subject EXCEPT ![f] = s]
    /\ UNCHANGED <<browser, linked, mode, wasIn, begun, codeUsed, callback, page>>

Goes(c, step) == callback' = [callback EXCEPT ![c].step = step]

\* Mutant of ModeOf: whether to link is decided by who is signed in by now.
ModeByNow(f) == IF Identified(FALSE) THEN "link" ELSE "login"

ModeOf(f) == mode[f]

\* handleAppleCallback, up to its first await: the state it is given must be
\* the one in the cookie; any other, or an expired one, ends it without a
\* change (a denial by the user does, too).
AppleCallback(c, f) ==
    /\ callback[c].step = "new" /\ subject[f] # None
    /\ stateCookie = f
    /\ callback' = [callback EXCEPT ![c] =
           [flow |-> f, mode |-> ModeOf(f), step |-> "exchanging"]]
    /\ UNCHANGED <<browser, linked, apple, page>>

\* The code is exchanged, once, for an identity token, which then verifies:
\* its nonce is that of the state.
Exchanged(c) ==
    LET f == callback[c].flow IN
    /\ callback[c].step = "exchanging"
    /\ f \notin codeUsed
    /\ codeUsed' = codeUsed \cup {f}
    /\ Goes(c, "verified")
    /\ UNCHANGED <<browser, linked, mode, wasIn, begun, subject, page>>

\* Mutant of Linked: the insert is sent off and not awaited.
LinkedDetached(c) ==
    LET s == subject[callback[c].flow] IN
    /\ callback[c].step = "verified" /\ callback[c].mode = "link"
    /\ linked' \in {linked, linked \cup {s}}
    /\ Goes(c, "signed")
    /\ UNCHANGED <<browser, apple, page>>

\* In mode link the subject is inserted (or was there).
Linked(c) ==
    LET s == subject[callback[c].flow] IN
    /\ callback[c].step = "verified" /\ callback[c].mode = "link"
    /\ linked' = linked \cup {s}
    /\ Goes(c, "signed")
    /\ UNCHANGED <<browser, apple, page>>

\* In mode login it is looked for.
LookedUp(c) ==
    LET s == subject[callback[c].flow] IN
    /\ callback[c].step = "verified" /\ callback[c].mode = "login"
    /\ Goes(c, IF s \in linked THEN "signed" ELSE "refused")
    /\ UNCHANGED <<browser, linked, apple, page>>

\* Apple, its keys or the database fail, the code used or not, the insert made
\* or not.
CallbackFails(c) ==
    LET f == callback[c].flow IN
    /\ callback[c].step \in {"exchanging", "verified"}
    /\ codeUsed' \in {codeUsed, codeUsed \cup {f}}
    /\ \/ UNCHANGED linked
       \/ /\ callback[c].step = "verified" /\ callback[c].mode = "link"
          /\ linked' = linked \cup {subject[f]}
    /\ Goes(c, "refused")
    /\ UNCHANGED <<browser, mode, wasIn, begun, subject, page>>

\* The redirect reaches the browser: it clears the state cookie, also one that
\* a later start has set, and after a success it sets the session.
CallbackReplies(c) ==
    /\ callback[c].step \in {"signed", "refused"}
    /\ stateCookie' = None
    /\ session' = IF callback[c].step = "signed" THEN subject[callback[c].flow] ELSE session
    /\ Goes(c, "done")
    /\ UNCHANGED <<csrfCookie, linked, apple, page>>

\* handleAuthConfig: a page gets its csrf token, in the cookie as well.
AuthConfig(p) ==
    /\ page[p] = "new"
    /\ page' = [page EXCEPT ![p] = "offered"]
    /\ csrfCookie' = p
    /\ UNCHANGED <<session, stateCookie, linked, apple, callback>>

\* handleGoogleAuth, up to its first await: the page's token must be the
\* cookie's, else the page has to be loaded again.
GoogleAuth(p) ==
    /\ page[p] = "offered"
    /\ page' = [page EXCEPT ![p] = IF csrfCookie = p THEN "verifying" ELSE "new"]
    /\ UNCHANGED <<browser, linked, apple, callback>>

\* The credential is the allowed account's, or not.
GoogleVerified(p) ==
    /\ page[p] = "verifying"
    /\ \E step \in {"replying", "new"} : page' = [page EXCEPT ![p] = step]
    /\ UNCHANGED <<browser, linked, apple, callback>>

GoogleReplies(p) ==
    /\ page[p] = "replying"
    /\ page' = [page EXCEPT ![p] = "done"]
    /\ session' = "google"
    /\ csrfCookie' = None
    /\ UNCHANGED <<stateCookie, linked, apple, callback>>

\* handleLogout, or the end of the session's eight hours.
Logout ==
    /\ session # None
    /\ session' = None
    /\ UNCHANGED <<stateCookie, csrfCookie, linked, apple, callback, page>>

\* Ten minutes pass for the state (or for the csrf token).
CookiesExpire ==
    /\ \/ stateCookie' = None /\ UNCHANGED csrfCookie
       \/ csrfCookie' = None /\ UNCHANGED stateCookie
    /\ UNCHANGED <<session, linked, apple, callback, page>>

SignInNext ==
    \/ \E f \in Flows : \/ \E basic \in BOOLEAN : AppleStart(f, basic)
                        \/ StartReplies(f)
                        \/ \E s \in Subjects : AtApple(f, s)
    \/ \E c \in Callbacks : \/ \E f \in Flows : AppleCallback(c, f)
                            \/ Exchanged(c) \/ Linked(c) \/ LookedUp(c)
                            \/ CallbackFails(c) \/ CallbackReplies(c)
    \/ \E p \in Pages : AuthConfig(p) \/ GoogleAuth(p) \/ GoogleVerified(p) \/ GoogleReplies(p)
    \/ Logout \/ CookiesExpire

SignInSpec == SignInInit /\ [][SignInNext]_signInVars

-----------------------------------------------------------------------------
(***************************************************************************)
(* An Apple session, held or on its way, is that of a linked subject, also *)
(* after failed inserts, repeated callbacks and interleaved tabs.          *)
(***************************************************************************)
AppleSessionsAreLinked ==
    /\ session \in Subjects => session \in linked
    /\ \A c \in Callbacks : callback[c].step = "signed" => subject[callback[c].flow] \in linked

(***************************************************************************)
(* Only a browser that was signed in when it asked for it links an Apple   *)
(* ID: no sign-in that was started signed out links whoever signs in at    *)
(* Apple, whatever the other tabs do meanwhile.                            *)
(***************************************************************************)
LinksWereAsked ==
    \A s \in linked : \E f \in Flows : subject[f] = s /\ wasIn[f]
=============================================================================
