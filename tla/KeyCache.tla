------------------------------ MODULE KeyCache ------------------------------
(***************************************************************************)
(* The signing keys of a sign-in provider as the cloud worker sees them    *)
(* (index.js: googleJwks and appleJwks, one cache of an isolate each, and  *)
(* the lookup of a credential's key in verifyGoogleCredential and          *)
(* verifyAppleIdentityToken).  Requests overlap at the fetch: each one     *)
(* that found the cache too old fetches, and each answer overwrites it.    *)
(***************************************************************************)
EXTENDS Naturals

CONSTANTS
    Lookups,          \* credentials that come to be verified
    LastKey,          \* bound: keys the provider ever has, 1..LastKey
    MaxAges,          \* what the provider's Cache-Control may announce
    MinLife, MaxLife, \* 60 and 86400: the bounds put on it
    MaxFetch,         \* bound: how long a fetch takes, at most MaxLife
    LastTick          \* bound: the clock

ASSUME CacheAssumption ==
    /\ LastKey \in Nat \ {0} /\ LastTick \in Nat
    /\ MaxAges \subseteq Nat
    /\ MaxLife \in Nat
    /\ MinLife \in 0..MaxLife /\ MaxFetch \in 0..MaxLife

VARIABLES
    tick,        \* Date.now()
    publishedAt, \* when the provider began to publish each key
    retiredAt,   \* when it ceased to, Never for not yet
    cache,       \* [keys, expiresAt]
    lookup,      \* "new", "fetching", "answered" (by the provider), then
                 \* "accepted", "unknown" (no such key), "unavailable"
    kid,         \* the key of each credential
    since,       \* `now` of its fetch
    response     \* the provider's answer to it

keyVars == <<tick, publishedAt, retiredAt, cache, lookup, kid, since, response>>
requestVars == <<lookup, kid, since, response>>

Keys == 1..LastKey
Never == LastTick + 1
Published == {k \in Keys : publishedAt[k] <= tick /\ retiredAt[k] = Never}

KeysInit ==
    /\ tick = 0
    /\ publishedAt = [k \in Keys |-> IF k = 1 THEN 0 ELSE Never]
    /\ retiredAt = [k \in Keys |-> Never]
    /\ cache = [keys |-> {}, expiresAt |-> 0]
    /\ lookup = [l \in Lookups |-> "new"]
    /\ kid = [l \in Lookups |-> 1]
    /\ since = [l \in Lookups |-> 0]
    /\ response = [l \in Lookups |-> [keys |-> {}, maxAge |-> 0]]

Decide(l, keys) ==
    lookup' = [lookup EXCEPT ![l] = IF kid'[l] \in keys THEN "accepted" ELSE "unknown"]

\* A credential signed with a key that was published at some time: the cached
\* keys answer for it, or a fetch is sent.
Look(l, k) ==
    /\ lookup[l] = "new" /\ publishedAt[k] <= tick
    /\ kid' = [kid EXCEPT ![l] = k]
    /\ IF cache.expiresAt > tick /\ cache.keys # {}
       THEN Decide(l, cache.keys) /\ UNCHANGED since
       ELSE /\ lookup' = [lookup EXCEPT ![l] = "fetching"]
            /\ since' = [since EXCEPT ![l] = tick]
    /\ UNCHANGED <<tick, publishedAt, retiredAt, cache, response>>

\* The provider answers with the keys it publishes at that moment.
Responds(l) ==
    /\ lookup[l] = "fetching"
    /\ \E age \in MaxAges :
           response' = [response EXCEPT ![l] = [keys |-> Published, maxAge |-> age]]
    /\ lookup' = [lookup EXCEPT ![l] = "answered"]
    /\ UNCHANGED <<tick, publishedAt, retiredAt, cache, kid, since>>

\* Mutant of Life: what the provider announces is taken as it is.
LifeUncapped(age) == IF age < MinLife THEN MinLife ELSE age

Life(age) ==
    IF age < MinLife THEN MinLife ELSE IF age > MaxLife THEN MaxLife ELSE age

\* Mutant of ExpiresAt: the life of the keys counts from the answer.
ExpiresFromAnswer(l) == tick + Life(response[l].maxAge)

ExpiresAt(l) == since[l] + Life(response[l].maxAge)

\* The answer arrives: it becomes the cache, and decides its own request.
Arrives(l) ==
    /\ lookup[l] = "answered" /\ response[l].keys # {}
    /\ cache' = [keys |-> response[l].keys, expiresAt |-> ExpiresAt(l)]
    /\ kid' = kid
    /\ Decide(l, response[l].keys)
    /\ response' = [response EXCEPT ![l] = [keys |-> {}, maxAge |-> 0]]
    /\ UNCHANGED <<tick, publishedAt, retiredAt, since>>

\* No answer, not ok, or no keys in it.
FetchFails(l) ==
    /\ lookup[l] \in {"fetching", "answered"}
    /\ lookup' = [lookup EXCEPT ![l] = "unavailable"]
    /\ response' = [response EXCEPT ![l] = [keys |-> {}, maxAge |-> 0]]
    /\ UNCHANGED <<tick, publishedAt, retiredAt, cache, kid, since>>

\* The provider rotates its keys.
Publish(k) ==
    /\ publishedAt[k] = Never /\ k > 1 /\ publishedAt[k - 1] # Never
    /\ publishedAt' = [publishedAt EXCEPT ![k] = tick]
    /\ UNCHANGED <<tick, retiredAt, cache, requestVars>>

Retire(k) ==
    /\ k \in Published
    /\ retiredAt' = [retiredAt EXCEPT ![k] = tick]
    /\ UNCHANGED <<tick, publishedAt, cache, requestVars>>

TickPasses ==
    /\ tick < LastTick
    /\ \A l \in Lookups : lookup[l] \in {"fetching", "answered"} => tick < since[l] + MaxFetch
    /\ tick' = tick + 1
    /\ UNCHANGED <<publishedAt, retiredAt, cache, requestVars>>

KeysNext ==
    \/ \E l \in Lookups : \/ \E k \in Keys : Look(l, k)
                          \/ Responds(l) \/ Arrives(l) \/ FetchFails(l)
    \/ \E k \in Keys : Publish(k) \/ Retire(k)
    \/ TickPasses

KeysSpec == KeysInit /\ [][KeysNext]_keyVars

-----------------------------------------------------------------------------
Becomes(l, answer) == lookup[l] # answer /\ lookup'[l] = answer

(***************************************************************************)
(* A key the provider withdrew is honoured no longer than the longest      *)
(* cache life, although slow answers with old keys may overwrite newer     *)
(* ones.                                                                   *)
(***************************************************************************)
WithdrawnKeysFade ==
    [][\A l \in Lookups : Becomes(l, "accepted") =>
           \/ kid'[l] \in Published
           \/ tick <= retiredAt[kid'[l]] + MaxLife]_keyVars

(***************************************************************************)
(* A key that has been published for longer than a cache life is never     *)
(* unknown: a provider that announces its keys that much ahead of their    *)
(* use loses no sign-in to the cache, which is not refreshed for a key it  *)
(* lacks.                                                                  *)
(***************************************************************************)
AnnouncedKeysAreKnown ==
    [][\A l \in Lookups : Becomes(l, "unknown") =>
           \/ kid'[l] \notin Published
           \/ tick <= publishedAt[kid'[l]] + MaxLife]_keyVars
=============================================================================
