--------------------------- MODULE MCCloudWorker ----------------------------
(***************************************************************************)
(* The cloud worker for TLC: who may use it (sign-in and key caches), how  *)
(* often (rate limiter) and for how much (budget).  The four parts share   *)
(* no state, so in a behaviour one of them takes steps and the others      *)
(* rest.  Paid requests are interchangeable: every constant and every      *)
(* property treats them alike, and no liveness is checked.                 *)
(***************************************************************************)
EXTENDS RateLimiter, KeyCache, SignIn, CloudBudget, TLC

Symmetry == Permutations(Requests)
MCClientOf == [r \in Arrivals |-> IF r = "other" THEN "b" ELSE "a"]

MCInit == LimiterInit /\ KeysInit /\ SignInInit /\ Init

MCNext ==
    \/ /\ KeysInit /\ SignInInit /\ Init
       /\ LimiterNext /\ UNCHANGED <<keyVars, signInVars, vars>>
    \/ /\ LimiterInit /\ SignInInit /\ Init
       /\ KeysNext /\ UNCHANGED <<limiterVars, signInVars, vars>>
    \/ /\ LimiterInit /\ KeysInit /\ Init
       /\ SignInNext /\ UNCHANGED <<limiterVars, keyVars, vars>>
    \/ /\ LimiterInit /\ KeysInit /\ SignInInit
       /\ Next /\ UNCHANGED <<limiterVars, keyVars, signInVars>>

MCSpec == MCInit /\ [][MCNext]_<<limiterVars, keyVars, signInVars, vars>>
=============================================================================
