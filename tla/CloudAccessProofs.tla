------------------------- MODULE CloudAccessProofs --------------------------
(***************************************************************************)
(* Who the cloud worker lets in: who may hold an Apple session and who     *)
(* gets linked, for any number of flows, repeated callbacks, pages and     *)
(* Apple IDs in one browser; and how far its key cache may lag behind its  *)
(* provider, for any number of keys and overlapping requests and any life  *)
(* of the cache.  The two share no state.                                  *)
(***************************************************************************)
EXTENDS SignIn, KeyCache, TLAPS

Modes == {"link", "login"}

SignInTypeOK ==
    /\ session \in Subjects \cup {"google", None}
    /\ linked \subseteq Subjects
    /\ mode \in [Flows -> Modes \cup {None}]
    /\ wasIn \in [Flows -> BOOLEAN]
    /\ begun \subseteq Flows
    /\ subject \in [Flows -> Subjects \cup {None}]
    /\ callback \in [Callbacks -> [flow : Flows \cup {None}, mode : Modes \cup {None},
                                   step : Steps]]

\* A flow is for linking only if it was started signed in; its mode is settled
\* before anyone signs in at Apple for it.
FlowAt(f) ==
    /\ mode[f] = "link" => wasIn[f]
    /\ mode[f] = None => f \notin begun
    /\ f \notin begun => subject[f] = None

\* A callback under way goes by its flow's mode, and has a subject.
CallbackAt(c) ==
    callback[c].step \in {"exchanging", "verified", "signed"} =>
        /\ callback[c].flow \in Flows
        /\ callback[c].mode = mode[callback[c].flow]
        /\ subject[callback[c].flow] \in Subjects
        /\ callback[c].step = "signed" => subject[callback[c].flow] \in linked

LinkInv ==
    /\ \A f \in Flows : FlowAt(f)
    /\ \A c \in Callbacks : CallbackAt(c)
    /\ session \in Subjects => session \in linked
    /\ LinksWereAsked

SignInInv == SignInTypeOK /\ LinkInv

LEMMA SignInInvInit == SignInInit => SignInInv
BY SignInAssumption
   DEF SignInInit, SignInInv, SignInTypeOK, LinkInv, FlowAt, CallbackAt, LinksWereAsked, Idle, Steps

\* The browser and Google: no flow, callback or link changes.
LEMMA BrowserStep ==
    ASSUME SignInInv, UNCHANGED <<linked, apple, callback>>,
           session' \in {session, None, "google"}
    PROVE  SignInInv'
<1>1. SignInTypeOK'
    BY DEF SignInInv, SignInTypeOK, apple
<1>2. LinkInv'
    BY SignInAssumption DEF SignInInv, LinkInv, FlowAt, CallbackAt, LinksWereAsked, apple
<1> QED
    BY <1>1, <1>2 DEF SignInInv

\* A flow starts, is answered, or is taken to Apple.
LEMMA FlowStep ==
    ASSUME SignInInv, NEW f \in Flows,
           \/ \E basic \in BOOLEAN : AppleStart(f, basic)
           \/ StartReplies(f)
           \/ \E s \in Subjects : AtApple(f, s)
    PROVE  SignInInv'
<1> USE SignInAssumption DEF SignInInv, SignInTypeOK, browser
<1>1. SignInTypeOK'
    <2>1. ASSUME NEW basic \in BOOLEAN, AppleStart(f, basic) PROVE SignInTypeOK'
        <3>1. mode' \in [Flows -> Modes \cup {None}]
            BY <2>1 DEF AppleStart, Modes
        <3>2. Identified(basic) \in BOOLEAN
            BY DEF Identified
        <3>3. wasIn' \in [Flows -> BOOLEAN]
            BY <2>1, <3>2, Zenon DEF AppleStart
        <3> QED
            BY <2>1, <3>1, <3>3 DEF AppleStart
    <2>2. CASE StartReplies(f)
        BY <2>2 DEF StartReplies
    <2>3. CASE \E s \in Subjects : AtApple(f, s)
        BY <2>3 DEF AtApple
    <2> QED
        BY <2>1, <2>2, <2>3
<1>2. /\ linked' = linked /\ session' = session /\ callback' = callback
      /\ \A g \in Flows \ {f} : /\ mode'[g] = mode[g] /\ wasIn'[g] = wasIn[g]
                                /\ subject'[g] = subject[g] /\ (g \in begun' <=> g \in begun)
    BY DEF AppleStart, StartReplies, AtApple
<1>3. FlowAt(f)'
    BY DEF AppleStart, StartReplies, AtApple, LinkInv, FlowAt
<1>4. subject[f] # None =>
          mode'[f] = mode[f] /\ wasIn'[f] = wasIn[f] /\ subject'[f] = subject[f]
    BY DEF AppleStart, StartReplies, AtApple, LinkInv, FlowAt
<1>5. ASSUME NEW g \in Flows PROVE FlowAt(g)'
    BY <1>2, <1>3, <1>5 DEF LinkInv, FlowAt
<1>6. ASSUME NEW c \in Callbacks PROVE CallbackAt(c)'
    BY <1>2, <1>4, <1>6 DEF LinkInv, CallbackAt
<1>7. LinksWereAsked'
    BY <1>2, <1>4 DEF LinkInv, LinksWereAsked
<1> QED
    BY <1>1, <1>2, <1>5, <1>6, <1>7 DEF LinkInv

\* A callback moves; it links nobody but the subject of its own linking flow.
LEMMA CallbackStep ==
    ASSUME SignInInv, NEW c \in Callbacks,
           UNCHANGED <<mode, wasIn, begun, subject>>,
           \A d \in Callbacks \ {c} : callback'[d] = callback[d],
           SignInTypeOK', CallbackAt(c)', linked \subseteq linked',
           \A s \in linked' : \/ s \in linked
                              \/ /\ callback[c].flow \in Flows
                                 /\ s = subject[callback[c].flow]
                                 /\ mode[callback[c].flow] = "link",
           session' \in Subjects => session' \in linked'
    PROVE  SignInInv'
<1> USE DEF SignInInv, LinkInv
<1>1. \A f \in Flows : FlowAt(f)'
    BY DEF FlowAt
<1>2. ASSUME NEW d \in Callbacks PROVE CallbackAt(d)'
    BY <1>2 DEF CallbackAt
<1>3. LinksWereAsked'
    BY DEF LinksWereAsked, FlowAt
<1> QED
    BY <1>1, <1>2, <1>3

LEMMA CallbackSteps ==
    ASSUME SignInInv, NEW c \in Callbacks,
           \/ \E f \in Flows : AppleCallback(c, f)
           \/ Exchanged(c) \/ Linked(c) \/ LookedUp(c)
           \/ CallbackFails(c) \/ CallbackReplies(c)
    PROVE  SignInInv'
<1> USE SignInAssumption DEF SignInInv, SignInTypeOK, LinkInv, browser, apple, Steps, Goes, Modes
<1> DEFINE f == callback[c].flow
<1>1. ASSUME NEW g \in Flows, AppleCallback(c, g) PROVE SignInInv'
    <2>1. CallbackAt(c)' /\ SignInTypeOK'
        BY <1>1 DEF AppleCallback, ModeOf, CallbackAt
    <2> QED
        BY <1>1, <2>1, CallbackStep DEF AppleCallback
<1>2. CASE Exchanged(c)
    <2>1. CallbackAt(c)' /\ SignInTypeOK'
        BY <1>2 DEF Exchanged, CallbackAt
    <2> QED
        BY <1>2, <2>1, CallbackStep DEF Exchanged
<1>3. CASE Linked(c)
    <2>1. f \in Flows /\ mode[f] = "link" /\ subject[f] \in Subjects
        BY <1>3 DEF Linked, CallbackAt
    <2>2. CallbackAt(c)' /\ SignInTypeOK'
        BY <1>3, <2>1 DEF Linked, CallbackAt
    <2>3. linked' = linked \cup {subject[f]} /\ session' = session
        BY <1>3 DEF Linked
    <2> QED
        BY <1>3, <2>1, <2>2, <2>3, CallbackStep DEF Linked
<1>4. CASE LookedUp(c)
    <2>1. CallbackAt(c)' /\ SignInTypeOK'
        BY <1>4 DEF LookedUp, CallbackAt
    <2> QED
        BY <1>4, <2>1, CallbackStep DEF LookedUp
<1>5. CASE CallbackFails(c)
    <2>1. f \in Flows /\ subject[f] \in Subjects /\ callback[c].mode = mode[f]
        BY <1>5 DEF CallbackFails, CallbackAt
    <2>2. CallbackAt(c)' /\ SignInTypeOK'
        BY <1>5, <2>1 DEF CallbackFails, CallbackAt
    <2>3. /\ session' = session /\ linked \subseteq linked'
          /\ \A s \in linked' : s \in linked \/ (s = subject[f] /\ mode[f] = "link")
        BY <1>5, <2>1 DEF CallbackFails
    <2> QED
        BY <1>5, <2>1, <2>2, <2>3, CallbackStep DEF CallbackFails
<1>6. CASE CallbackReplies(c)
    <2>1. CallbackAt(c)' /\ SignInTypeOK'
        BY <1>6 DEF CallbackReplies, CallbackAt
    <2>2. session' \in Subjects => session' \in linked'
        BY <1>6 DEF CallbackReplies, CallbackAt
    <2> QED
        BY <1>6, <2>1, <2>2, CallbackStep DEF CallbackReplies
<1> QED
    BY <1>1, <1>2, <1>3, <1>4, <1>5, <1>6

LEMMA SignInInvStep == SignInInv /\ [SignInNext]_signInVars => SignInInv'
<1> SUFFICES ASSUME SignInInv, [SignInNext]_signInVars PROVE SignInInv'
    OBVIOUS
<1>1. CASE \/ \E p \in Pages : AuthConfig(p) \/ GoogleAuth(p) \/ GoogleVerified(p) \/ GoogleReplies(p)
           \/ Logout \/ CookiesExpire \/ UNCHANGED signInVars
    BY <1>1, BrowserStep
       DEF AuthConfig, GoogleAuth, GoogleVerified, GoogleReplies, Logout, CookiesExpire,
           signInVars, browser
<1> QED
    BY <1>1, FlowStep, CallbackSteps DEF SignInNext

(***************************************************************************)
(* The inductive invariant: a flow's mode was settled before its subject   *)
(* was known, and every callback under way still goes by it.               *)
(***************************************************************************)
THEOREM LinkInvariant == SignInSpec => []SignInInv
BY SignInInvInit, SignInInvStep, PTL DEF SignInSpec

(***************************************************************************)
(* An Apple session is a linked subject's (index.js:622-637).              *)
(***************************************************************************)
THEOREM SessionsAreLinked == SignInSpec => []AppleSessionsAreLinked
<1>1. SignInInv => AppleSessionsAreLinked
    BY DEF SignInInv, LinkInv, CallbackAt, AppleSessionsAreLinked
<1> QED
    BY <1>1, LinkInvariant, PTL

(***************************************************************************)
(* Only flows that were started signed in link (index.js:526, 622).        *)
(***************************************************************************)
THEOREM LinksAreAskedFor == SignInSpec => []LinksWereAsked
<1>1. SignInInv => LinksWereAsked
    BY DEF SignInInv, LinkInv
<1> QED
    BY <1>1, LinkInvariant, PTL

-----------------------------------------------------------------------------
KeysTypeOK ==
    /\ tick \in 0..LastTick
    /\ publishedAt \in [Keys -> Nat]
    /\ retiredAt \in [Keys -> Nat]
    /\ cache \in [keys : SUBSET Keys, expiresAt : Nat]
    /\ lookup \in [Lookups -> {"new", "fetching", "answered", "accepted", "unknown",
                               "unavailable"}]
    /\ kid \in [Lookups -> Keys]
    /\ since \in [Lookups -> Nat]
    /\ response \in [Lookups -> [keys : SUBSET Keys, maxAge : Nat]]

KeyAt(k) ==
    /\ publishedAt[k] = Never \/ publishedAt[k] <= tick
    /\ retiredAt[k] = Never \/ retiredAt[k] <= tick

\* What keys that may be used until `expires` miss of the provider's changes.
Covers(keys, expires) ==
    \A k \in Keys :
        /\ k \in keys => retiredAt[k] = Never \/ expires <= retiredAt[k] + MaxLife
        /\ k \notin keys => k \notin Published \/ expires <= publishedAt[k] + MaxLife

LookupAt(l) ==
    /\ publishedAt[kid[l]] <= tick
    /\ lookup[l] \in {"fetching", "answered"} => since[l] <= tick /\ tick <= since[l] + MaxFetch
    /\ lookup[l] = "answered" => Covers(response[l].keys, since[l] + MaxLife)

CacheInv ==
    /\ \A k \in Keys : KeyAt(k)
    /\ cache.keys # {} => Covers(cache.keys, cache.expiresAt)
    /\ cache.expiresAt <= tick + MaxLife
    /\ \A l \in Lookups : LookupAt(l)

KeysInv == KeysTypeOK /\ CacheInv

\* The life of an answer lies between the bounds, whatever it announces.
LEMMA LifeBounds ==
    ASSUME NEW age \in Nat
    PROVE  Life(age) \in Nat /\ Life(age) <= MaxLife
BY CacheAssumption DEF Life

LEMMA KeysInvInit == KeysInit => KeysInv
<1> SUFFICES ASSUME KeysInit PROVE KeysInv
    OBVIOUS
<1> USE CacheAssumption DEF KeysInit, Keys, Never
<1>1. KeysTypeOK
    BY DEF KeysTypeOK
<1>2. \A k \in Keys : KeyAt(k)
    BY DEF KeyAt
<1>3. ASSUME NEW l \in Lookups PROVE LookupAt(l)
    <2>1. kid[l] = 1 /\ 1 \in Keys /\ publishedAt[1] = 0 /\ tick = 0 /\ lookup[l] = "new"
        OBVIOUS
    <2> QED
        BY <2>1 DEF LookupAt
<1> QED
    BY <1>1, <1>2, <1>3 DEF KeysInv, CacheInv

\* A change of the provider's keys, or none, at a time when the keys may be
\* used for a cache life at most, leaves them covering it.
LEMMA CoversStep ==
    ASSUME KeysInv, NEW keys, NEW expires \in Nat, Covers(keys, expires),
           tick' \in 0..LastTick, tick <= tick',
           \/ UNCHANGED <<publishedAt, retiredAt>>
           \/ expires <= tick + MaxLife /\ tick' = tick
              /\ \E k \in Keys : \/ /\ publishedAt[k] = Never
                                    /\ publishedAt' = [publishedAt EXCEPT ![k] = tick]
                                    /\ retiredAt' = retiredAt
                                 \/ /\ retiredAt' = [retiredAt EXCEPT ![k] = tick]
                                    /\ publishedAt' = publishedAt
                                    /\ k \in Published
    PROVE  Covers(keys, expires)'
<1> SUFFICES ASSUME NEW k \in Keys
             PROVE  /\ k \in keys => retiredAt'[k] = Never \/ expires <= retiredAt'[k] + MaxLife
                    /\ k \notin keys => k \notin Published' \/ expires <= publishedAt'[k] + MaxLife
    BY DEF Covers, Never
<1> USE CacheAssumption DEF KeysInv, KeysTypeOK, CacheInv, KeyAt, Covers, Published, Never
<1>1. CASE UNCHANGED <<publishedAt, retiredAt>>
    BY <1>1
<1>2. ASSUME NEW j \in Keys, expires <= tick + MaxLife, tick' = tick,
             publishedAt[j] = Never, publishedAt' = [publishedAt EXCEPT ![j] = tick],
             retiredAt' = retiredAt
      PROVE  /\ k \in keys => retiredAt'[k] = Never \/ expires <= retiredAt'[k] + MaxLife
             /\ k \notin keys => k \notin Published' \/ expires <= publishedAt'[k] + MaxLife
    BY <1>2
<1>3. ASSUME NEW j \in Keys, expires <= tick + MaxLife, tick' = tick,
             retiredAt' = [retiredAt EXCEPT ![j] = tick], publishedAt' = publishedAt
      PROVE  /\ k \in keys => retiredAt'[k] = Never \/ expires <= retiredAt'[k] + MaxLife
             /\ k \notin keys => k \notin Published' \/ expires <= publishedAt'[k] + MaxLife
    BY <1>3
<1> QED
    BY <1>1, <1>2, <1>3

\* The provider's keys of a moment cover what is published then.
LEMMA PublishedCovers ==
    ASSUME NEW expires
    PROVE  Covers(Published, expires)
BY DEF Covers, Published

\* Steps of the requests.
LEMMA LookStep ==
    ASSUME KeysInv, NEW l \in Lookups, NEW k \in Keys, Look(l, k)
    PROVE  KeysInv'
<1> USE CacheAssumption DEF KeysInv, KeysTypeOK, CacheInv, Look, Decide
<1>1. KeysTypeOK'
    <2>1. \E step \in {"accepted", "unknown", "fetching"} :
              lookup' = [lookup EXCEPT ![l] = step]
        OBVIOUS
    <2>2. since' \in [Lookups -> Nat] /\ kid' \in [Lookups -> Keys]
        OBVIOUS
    <2> QED
        BY <2>1, <2>2
<1>2. \A j \in Keys : KeyAt(j)'
    BY DEF KeyAt, Never
<1>3. cache.keys # {} => Covers(cache.keys, cache.expiresAt)'
    BY DEF Covers, Published, Never
<1>4. ASSUME NEW m \in Lookups PROVE LookupAt(m)'
    BY <1>4 DEF LookupAt, Covers, Published, Never
<1> QED
    BY <1>1, <1>2, <1>3, <1>4

LEMMA RespondStep ==
    ASSUME KeysInv, NEW l \in Lookups, Responds(l)
    PROVE  KeysInv'
<1> USE CacheAssumption DEF KeysInv, KeysTypeOK, CacheInv, Responds
<1>1. Published \in SUBSET Keys
    BY DEF Published
<1>2. PICK age \in MaxAges :
          response' = [response EXCEPT ![l] = [keys |-> Published, maxAge |-> age]]
    OBVIOUS
<1>3. KeysTypeOK'
    BY <1>1, <1>2
<1>4. \A j \in Keys : KeyAt(j)'
    BY DEF KeyAt, Never
<1>5. cache.keys # {} => Covers(cache.keys, cache.expiresAt)'
    BY DEF Covers, Published, Never
<1>6. LookupAt(l)'
    <2>1. response'[l].keys = Published /\ since'[l] = since[l] /\ Published' = Published
        BY <1>2 DEF Published, Never
    <2>2. Covers(response[l].keys, since[l] + MaxLife)'
        BY <2>1, PublishedCovers DEF Covers, Never
    <2> QED
        BY <2>2 DEF LookupAt
<1>7. ASSUME NEW m \in Lookups \ {l} PROVE LookupAt(m)'
    BY <1>2, <1>7 DEF LookupAt, Covers, Published, Never
<1> QED
    BY <1>3, <1>4, <1>5, <1>6, <1>7

LEMMA ArriveStep ==
    ASSUME KeysInv, NEW l \in Lookups, Arrives(l)
    PROVE  KeysInv'
<1> USE CacheAssumption DEF KeysInv, KeysTypeOK, CacheInv, Arrives, Decide
<1>1. /\ ExpiresAt(l) \in Nat /\ ExpiresAt(l) <= since[l] + MaxLife
      /\ since[l] <= tick
    BY LifeBounds DEF ExpiresAt, LookupAt
<1>2. KeysTypeOK'
    BY <1>1
<1>3. \A j \in Keys : KeyAt(j)'
    BY DEF KeyAt, Never
<1>4. Covers(response[l].keys, ExpiresAt(l))
    BY <1>1 DEF LookupAt, Covers
<1>5. Covers(cache.keys, cache.expiresAt)'
    BY <1>4 DEF Covers, Published, Never
<1>6. ASSUME NEW m \in Lookups PROVE LookupAt(m)'
    BY <1>6 DEF LookupAt, Covers, Published, Never
<1> QED
    BY <1>1, <1>2, <1>3, <1>5, <1>6

LEMMA FailStep ==
    ASSUME KeysInv, NEW l \in Lookups, FetchFails(l)
    PROVE  KeysInv'
<1> USE CacheAssumption DEF KeysInv, KeysTypeOK, CacheInv, FetchFails
<1>1. KeysTypeOK'
    OBVIOUS
<1>2. \A j \in Keys : KeyAt(j)'
    BY DEF KeyAt, Never
<1>3. cache.keys # {} => Covers(cache.keys, cache.expiresAt)'
    BY DEF Covers, Published, Never
<1>4. ASSUME NEW m \in Lookups PROVE LookupAt(m)'
    BY <1>4 DEF LookupAt, Covers, Published, Never
<1> QED
    BY <1>1, <1>2, <1>3, <1>4

\* Steps of the provider and of the clock.
LEMMA ProviderStep ==
    ASSUME KeysInv, (\E k \in Keys : Publish(k) \/ Retire(k)) \/ TickPasses
    PROVE  KeysInv'
<1> USE CacheAssumption DEF KeysInv, KeysTypeOK, CacheInv, Publish, Retire, TickPasses, requestVars
<1>1. KeysTypeOK'
    OBVIOUS
<1>2. \A j \in Keys : KeyAt(j)'
    BY DEF KeyAt, Never, Published
<1>3. cache.keys # {} => Covers(cache.keys, cache.expiresAt)'
    <2>1. cache' = cache /\ cache.expiresAt \in Nat
        OBVIOUS
    <2>2. ASSUME cache.keys # {} PROVE Covers(cache.keys, cache.expiresAt)'
        BY <2>1, <2>2, CoversStep
    <2> QED
        BY <2>1, <2>2
<1>4. ASSUME NEW m \in Lookups PROVE LookupAt(m)'
    <2>1. ASSUME lookup[m] = "answered"
          PROVE  Covers(response[m].keys, since[m] + MaxLife)'
        <3>1. since[m] + MaxLife \in Nat /\ since[m] + MaxLife <= tick + MaxLife
            BY <1>4, <2>1 DEF LookupAt
        <3>2. Covers(response[m].keys, since[m] + MaxLife)
            BY <1>4, <2>1 DEF LookupAt
        <3> QED
            BY <3>1, <3>2, CoversStep
    <2>2. publishedAt'[kid[m]] <= tick'
        BY <1>4 DEF LookupAt, Never
    <2> QED
        BY <1>4, <2>1, <2>2 DEF LookupAt
<1> QED
    BY <1>1, <1>2, <1>3, <1>4

LEMMA KeysInvStep == KeysInv /\ [KeysNext]_keyVars => KeysInv'
<1> SUFFICES ASSUME KeysInv, [KeysNext]_keyVars PROVE KeysInv'
    OBVIOUS
<1>1. CASE UNCHANGED keyVars
    BY <1>1 DEF KeysInv, KeysTypeOK, CacheInv, KeyAt, Covers, LookupAt, Published, keyVars
<1> QED
    BY <1>1, LookStep, RespondStep, ArriveStep, FailStep, ProviderStep DEF KeysNext

(***************************************************************************)
(* The inductive invariant: the keys in the cache, and those on their way, *)
(* miss no change of the provider that is older than a cache life at the   *)
(* time they are last used.                                                *)
(***************************************************************************)
THEOREM CacheInvariant == KeysSpec => []KeysInv
BY KeysInvInit, KeysInvStep, PTL DEF KeysSpec

\* A credential is decided by the cached keys or by the answer it waited for.
LEMMA DecidedBy ==
    ASSUME KeysInv, [KeysNext]_keyVars, NEW l \in Lookups,
           Becomes(l, "accepted") \/ Becomes(l, "unknown")
    PROVE  \E keys \in SUBSET Keys, expires \in Nat :
               /\ Covers(keys, expires) /\ tick <= expires
               /\ kid'[l] \in Keys /\ publishedAt[kid'[l]] <= tick
               /\ lookup'[l] = IF kid'[l] \in keys THEN "accepted" ELSE "unknown"
<1> USE CacheAssumption DEF KeysInv, KeysTypeOK, CacheInv, Becomes, Decide
<1>1. ASSUME NEW m \in Lookups, NEW k \in Keys, Look(m, k)
      PROVE  /\ m = l /\ kid'[l] = k /\ publishedAt[k] <= tick
             /\ cache.expiresAt > tick /\ cache.keys # {}
             /\ lookup'[l] = IF k \in cache.keys THEN "accepted" ELSE "unknown"
    BY <1>1 DEF Look
<1>2. ASSUME NEW m \in Lookups, Arrives(m)
      PROVE  /\ m = l /\ kid' = kid /\ lookup[l] = "answered"
             /\ lookup'[l] = IF kid[l] \in response[l].keys THEN "accepted" ELSE "unknown"
    BY <1>2 DEF Arrives
<1>3. CASE \E m \in Lookups, k \in Keys : Look(m, k)
    <2>1. PICK m \in Lookups, k \in Keys : Look(m, k)
        BY <1>3
    <2>2. /\ cache.expiresAt \in Nat /\ Covers(cache.keys, cache.expiresAt)
          /\ tick <= cache.expiresAt /\ cache.keys \in SUBSET Keys
        BY <1>1, <2>1
    <2>3. /\ kid'[l] \in Keys /\ publishedAt[kid'[l]] <= tick
          /\ lookup'[l] = IF kid'[l] \in cache.keys THEN "accepted" ELSE "unknown"
        BY <1>1, <2>1
    <2> QED
        BY <2>2, <2>3
<1>4. CASE \E m \in Lookups : Arrives(m)
    <2>1. /\ kid' = kid /\ lookup[l] = "answered"
          /\ lookup'[l] = IF kid[l] \in response[l].keys THEN "accepted" ELSE "unknown"
        BY <1>2, <1>4
    <2>2. /\ Covers(response[l].keys, since[l] + MaxLife)
          /\ publishedAt[kid[l]] <= tick /\ tick <= since[l] + MaxLife
          /\ since[l] + MaxLife \in Nat /\ response[l].keys \in SUBSET Keys
        BY <2>1 DEF LookupAt
    <2>3. kid'[l] = kid[l] /\ kid[l] \in Keys
        BY <2>1
    <2> QED
        BY <2>1, <2>2, <2>3
<1>5. CASE \/ \E m \in Lookups : Responds(m) \/ FetchFails(m)
           \/ \E k \in Keys : Publish(k) \/ Retire(k)
           \/ TickPasses \/ UNCHANGED keyVars
    BY <1>5 DEF Responds, FetchFails, Publish, Retire, TickPasses, requestVars, keyVars
<1> QED
    BY <1>3, <1>4, <1>5 DEF KeysNext

(***************************************************************************)
(* A withdrawn key is accepted for at most a cache life (index.js:251).    *)
(***************************************************************************)
THEOREM WithdrawalHolds == KeysSpec => WithdrawnKeysFade
<1>1. ASSUME KeysInv, [KeysNext]_keyVars, NEW l \in Lookups, Becomes(l, "accepted")
      PROVE  kid'[l] \in Published \/ tick <= retiredAt[kid'[l]] + MaxLife
    <2>1. PICK keys \in SUBSET Keys, expires \in Nat :
              /\ Covers(keys, expires) /\ tick <= expires
              /\ kid'[l] \in Keys /\ publishedAt[kid'[l]] <= tick
              /\ kid'[l] \in keys
        BY <1>1, DecidedBy DEF Becomes
    <2>2. retiredAt[kid'[l]] \in Nat /\ tick \in Nat /\ MaxLife \in Nat
        BY <1>1, <2>1, CacheAssumption DEF KeysInv, KeysTypeOK
    <2> QED
        BY <2>1, <2>2 DEF Covers, Published
<1>2. KeysInv /\ [KeysNext]_keyVars =>
          [\A l \in Lookups : Becomes(l, "accepted") =>
               \/ kid'[l] \in Published
               \/ tick <= retiredAt[kid'[l]] + MaxLife]_keyVars
    BY <1>1
<1> QED
    BY <1>2, CacheInvariant, PTL DEF KeysSpec, WithdrawnKeysFade

(***************************************************************************)
(* A key published for more than a cache life is never unknown.            *)
(***************************************************************************)
THEOREM AnnouncementHolds == KeysSpec => AnnouncedKeysAreKnown
<1>1. ASSUME KeysInv, [KeysNext]_keyVars, NEW l \in Lookups, Becomes(l, "unknown")
      PROVE  kid'[l] \notin Published \/ tick <= publishedAt[kid'[l]] + MaxLife
    <2>1. PICK keys \in SUBSET Keys, expires \in Nat :
              /\ Covers(keys, expires) /\ tick <= expires
              /\ kid'[l] \in Keys /\ kid'[l] \notin keys
        BY <1>1, DecidedBy DEF Becomes
    <2>2. publishedAt[kid'[l]] \in Nat /\ tick \in Nat /\ MaxLife \in Nat
        BY <1>1, <2>1, CacheAssumption DEF KeysInv, KeysTypeOK
    <2> QED
        BY <2>1, <2>2 DEF Covers
<1>2. KeysInv /\ [KeysNext]_keyVars =>
          [\A l \in Lookups : Becomes(l, "unknown") =>
               \/ kid'[l] \notin Published
               \/ tick <= publishedAt[kid'[l]] + MaxLife]_keyVars
    BY <1>1
<1> QED
    BY <1>2, CacheInvariant, PTL DEF KeysSpec, AnnouncedKeysAreKnown
=============================================================================
