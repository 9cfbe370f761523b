-------------------------------- MODULE Routing --------------------------------
(***************************************************************************)
(* The `route` command and the cache it fills: route_cache holds what a    *)
(* router has answered about pairs of places, for every journey that has   *)
(* such a gap and for every user.  Several batches may run at once: the    *)
(* command takes no lock.                                                  *)
(*                                                                         *)
(* A batch collects the keys of the unknown gaps in its scope, looks each  *)
(* of them up, asks the router about those the cache does not answer (all  *)
(* of them with -refresh), saves every answer as it comes and records the  *)
(* run at the end.  The order of its questions is left open.               *)
(*                                                                         *)
(* An answer is a road or NoRoute; an operational failure is no answer.    *)
(***************************************************************************)
EXTENDS Naturals, FiniteSets

CONSTANTS
    Batches,        \* invocations of the command, each used once
    Refreshing,     \* those with -refresh
    NullRouted,     \* those with -router none
    Keys,           \* pairs of places
    Roads,          \* the answers that are roads
    NoRoute,        \* the answer that there is none
    NoRow,          \* no row in the cache
    MaxFaults,      \* bound: refused statements and killed batches
    MaxFailures     \* bound: operational failures of the router

Answers == Roads \union {NoRoute}

ASSUME RoutingAssumption ==
    /\ Refreshing \subseteq Batches /\ NullRouted \subseteq Batches
    /\ NoRoute \notin Roads /\ NoRow \notin Answers
    /\ MaxFaults \in Nat /\ MaxFailures \in Nat

VARIABLES
    cache,          \* route_cache: key |-> its answer, or NoRow
    phase,          \* batch |-> how far it is
    keys,           \* batch |-> the keys of its scope
    unread,         \* batch |-> those it has not looked up yet
    hits,           \* batch |-> those the cache answered
    toAsk,          \* batch |-> those it still has to ask
    inHand,         \* batch |-> the answer it got and has not saved, with its key
    routed,         \* batch |-> counts.Routed, as the keys it counts
    unroutable,     \* batch |-> counts.NoRoute
    failed,         \* batch |-> counts.Failures
    met,            \* pairs of batches that were under way at once
    faults, failures

batchVars == <<phase, keys, unread, hits, toAsk, inHand, routed, unroutable, failed, met>>
vars == <<cache, batchVars, faults, failures>>

Phases == {"idle", "looking", "asking", "saving", "recorded", "aborted"}
Nothing == [key |-> NoRow, answer |-> NoRow]
InHand == [key : Keys, answer : Answers] \union {Nothing}

TypeOK ==
    /\ cache \in [Keys -> Answers \union {NoRow}]
    /\ phase \in [Batches -> Phases]
    /\ keys \in [Batches -> SUBSET Keys] /\ unread \in [Batches -> SUBSET Keys]
    /\ hits \in [Batches -> SUBSET Keys] /\ toAsk \in [Batches -> SUBSET Keys]
    /\ routed \in [Batches -> SUBSET Keys] /\ unroutable \in [Batches -> SUBSET Keys]
    /\ failed \in [Batches -> SUBSET Keys]
    /\ inHand \in [Batches -> InHand]
    /\ met \subseteq SUBSET Batches
    /\ faults \in 0 .. MaxFaults /\ failures \in 0 .. MaxFailures

Init ==
    /\ cache = [k \in Keys |-> NoRow]
    /\ phase = [b \in Batches |-> "idle"]
    /\ keys = [b \in Batches |-> {}] /\ unread = [b \in Batches |-> {}]
    /\ hits = [b \in Batches |-> {}] /\ toAsk = [b \in Batches |-> {}]
    /\ inHand = [b \in Batches |-> Nothing]
    /\ routed = [b \in Batches |-> {}] /\ unroutable = [b \in Batches |-> {}]
    /\ failed = [b \in Batches |-> {}]
    /\ met = {} /\ faults = 0 /\ failures = 0

Enter(b, p) == phase' = [phase EXCEPT ![b] = p]

UnderWay == {b \in Batches : phase[b] \in {"looking", "asking", "saving"}}

-----------------------------------------------------------------------------

\* The journeys of the scope are assembled and their unknown gaps collected.
Collect(b, scope) ==
    /\ phase[b] = "idle"
    /\ keys' = [keys EXCEPT ![b] = scope]
    /\ unread' = [unread EXCEPT ![b] = scope]
    /\ met' = met \union {{b, c} : c \in UnderWay}
    /\ Enter(b, "looking")
    /\ UNCHANGED <<cache, hits, toAsk, inHand, routed, unroutable, failed, faults, failures>>

\* Mutation: the absence of a road is not remembered.
MutIsHit(b, k) == cache[k] \in Roads /\ b \notin Refreshing

\* The row counts as an answer, whatever it says.
IsHit(b, k) == cache[k] # NoRow /\ b \notin Refreshing

\* LookupRoutes: one query per key.
LookUp(b, k) ==
    /\ phase[b] = "looking" /\ k \in unread[b]
    /\ unread' = [unread EXCEPT ![b] = @ \ {k}]
    /\ IF IsHit(b, k)
       THEN hits' = [hits EXCEPT ![b] = @ \union {k}] /\ UNCHANGED toAsk
       ELSE toAsk' = [toAsk EXCEPT ![b] = @ \union {k}] /\ UNCHANGED hits
    /\ UNCHANGED <<cache, phase, keys, inHand, routed, unroutable, failed, faults, failures, met>>

LookedUp(b) ==
    /\ phase[b] = "looking" /\ unread[b] = {}
    /\ Enter(b, "asking")
    /\ UNCHANGED <<cache, keys, unread, hits, toAsk, inHand, routed, unroutable, failed,
                   faults, failures, met>>

\* The null router is asked nothing.
MayAsk(b, k) == phase[b] = "asking" /\ k \in toAsk[b] /\ b \notin NullRouted

\* The router answers: a road, or that there is none.
RouterAnswers(b, k, a) ==
    /\ MayAsk(b, k)
    /\ toAsk' = [toAsk EXCEPT ![b] = @ \ {k}]
    /\ inHand' = [inHand EXCEPT ![b] = [key |-> k, answer |-> a]]
    /\ Enter(b, "saving")
    /\ UNCHANGED <<cache, keys, unread, hits, routed, unroutable, failed, faults, failures, met>>

\* Mutation: a failure is remembered as the absence of a road.
MutRemembered(k) == [cache EXCEPT ![k] = NoRoute]

\* What a failure leaves in the cache: nothing.
Remembered(k) == cache

\* It does not: timeout, refusal, or a reply that is no answer.
RouterFails(b, k) ==
    /\ MayAsk(b, k) /\ failures < MaxFailures
    /\ toAsk' = [toAsk EXCEPT ![b] = @ \ {k}]
    /\ failed' = [failed EXCEPT ![b] = @ \union {k}]
    /\ cache' = Remembered(k)
    /\ failures' = failures + 1
    /\ UNCHANGED <<phase, keys, unread, hits, inHand, routed, unroutable, faults, met>>

\* INSERT ... ON CONFLICT DO UPDATE: the answer replaces whatever is there.
Upserted(k, a) == [cache EXCEPT ![k] = a]

SaveRoute(b) ==
    /\ phase[b] = "saving"
    /\ LET k == inHand[b].key
           a == inHand[b].answer IN
        /\ cache' = Upserted(k, a)
        /\ IF a \in Roads
           THEN routed' = [routed EXCEPT ![b] = @ \union {k}] /\ UNCHANGED unroutable
           ELSE unroutable' = [unroutable EXCEPT ![b] = @ \union {k}] /\ UNCHANGED routed
    /\ inHand' = [inHand EXCEPT ![b] = Nothing]
    /\ Enter(b, "asking")
    /\ UNCHANGED <<keys, unread, hits, toAsk, failed, faults, failures, met>>

\* Mutation: the run is recorded before all has been asked.
MutRecord(b) ==
    /\ phase[b] = "asking" /\ Enter(b, "recorded")
    /\ UNCHANGED <<cache, keys, unread, hits, toAsk, inHand, routed, unroutable, failed,
                   faults, failures, met>>

\* InsertRouteRun: the counts, once everything has been asked.
Record(b) ==
    /\ phase[b] = "asking" /\ (toAsk[b] = {} \/ b \in NullRouted)
    /\ Enter(b, "recorded")
    /\ UNCHANGED <<cache, keys, unread, hits, toAsk, inHand, routed, unroutable, failed,
                   faults, failures, met>>

\* A refused statement ends the batch, and so does the operator: what it has
\* saved stays, its run is not recorded.
Abort(b) ==
    /\ phase[b] \in {"looking", "asking", "saving"}
    /\ faults < MaxFaults /\ faults' = faults + 1
    /\ Enter(b, "aborted")
    /\ UNCHANGED <<cache, keys, unread, hits, toAsk, inHand, routed, unroutable, failed, failures, met>>

Batch(b) ==
    \/ \E k \in Keys : LookUp(b, k) \/ RouterFails(b, k)
    \/ \E k \in Keys, a \in Answers : RouterAnswers(b, k, a)
    \/ LookedUp(b) \/ SaveRoute(b) \/ Record(b) \/ Abort(b)

Next == \E b \in Batches : Batch(b) \/ \E scope \in SUBSET Keys : Collect(b, scope)

Spec == Init /\ [][Next]_vars

-----------------------------------------------------------------------------
(* Properties. *)

\* The keys b has had answered by the router.
Answered(b) == routed[b] \union unroutable[b]

\* No key is counted twice.
CountedOnce(b) ==
    /\ hits[b] \intersect (Answered(b) \union failed[b] \union toAsk[b]) = {}
    /\ routed[b] \intersect (unroutable[b] \union failed[b] \union toAsk[b]) = {}
    /\ unroutable[b] \intersect (failed[b] \union toAsk[b]) = {}
    /\ failed[b] \intersect toAsk[b] = {}

\* A recorded run is true: every key of its scope was answered from the cache,
\* by a road, by the absence of one, or not at all, and is counted once; and
\* every key it counts as answered still has a row, since nothing deletes one
\* and no failure takes one away.  (store/routes.go:100, RouteRunCounts)
RecordedIsTrue ==
    \A b \in Batches : phase[b] = "recorded" =>
        /\ keys[b] = hits[b] \union Answered(b) \union failed[b] \union toAsk[b]
        /\ CountedOnce(b)
        /\ toAsk[b] # {} => b \in NullRouted
        /\ \A k \in hits[b] \union Answered(b) : cache[k] # NoRow

\* Re-runs don't re-ask, not even what had no route (route/route.go:20-22): two
\* batches without -refresh have both asked one key only if they were under
\* way at the same time.
AskedOnce ==
    \A b, c \in Batches \ Refreshing :
        b # c /\ Answered(b) \intersect Answered(c) # {} => {b, c} \in met

\* A road leaves the cache only for an answer of the router about these very
\* places, never for a failure of it, and only with -refresh, or when the batch
\* was already under way beside the one that saved the road: its answer is the
\* older one, and wins.
RoadsGoOnlyByAnswers ==
    [][\A k \in Keys :
        cache[k] \in Roads /\ cache'[k] # cache[k] =>
            \E b \in Batches :
                /\ inHand[b] = [key |-> k, answer |-> cache'[k]]
                /\ \/ b \in Refreshing
                   \/ \E c \in Batches \ {b} : {b, c} \in met /\ k \in Answered(c)
      ]_vars
=============================================================================
