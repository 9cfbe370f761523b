-------------------------------- MODULE Triage --------------------------------
(***************************************************************************)
(* One person's triage: candidates come from the latest detection run, and *)
(* are kept or dismissed one at a time or in bulk; kept ones take photos   *)
(* and share links.  Every handler reads the latest run, then the          *)
(* decisions, computes Match, and only then writes: each of these is one   *)
(* action, and detections and other handlers run between them.             *)
(*                                                                         *)
(* The two queries of LatestRun are one step: the candidates of a run are  *)
(* never changed, so the second adds nothing to the first.                 *)
(***************************************************************************)
EXTENDS Matching

CONSTANTS
    Singles,        \* POST /candidates/{id}/decision
    Bulks,          \* POST /candidates/decisions
    Attaches,       \* POST /candidates/{id}/photos
    Mints,          \* POST /candidates/{id}/shares
    Detections,     \* the sets of spans a detection may find
    MaxRuns,        \* bound: detection runs
    MaxActive       \* bound: handlers under way at a time

Requests == Singles \union Bulks \union Attaches \union Mints
Actions == {"confirmed", "dismissed"}

ASSUME TriageRequestsAssumption ==
    /\ Singles \cap (Bulks \union Attaches \union Mints) = {}
    /\ Bulks \cap (Attaches \union Mints) = {}
    /\ Attaches \cap Mints = {}

\* What a detection finds: trips of some length, one after the other, each to a
\* place that is near itself.
AreTrips(spans) ==
    /\ IsFiniteSet(spans) /\ Disjoint(spans)
    /\ \A s \in spans :
        /\ s.start \in Int /\ s.end \in Int /\ s.start < s.end
        /\ s.dest \in Nat /\ Near(s.dest, s.dest)

ASSUME TriageBoundsAssumption ==
    /\ MaxRuns \in Nat /\ MaxActive \in Nat
    /\ \A spans \in Detections : AreTrips(spans)

VARIABLES
    run,            \* id of the latest detection run, 0 before there is one
    found,          \* the candidates of the latest run
    decisions,      \* rows of decisions
    photoOn,        \* ids of the decisions that photos are attached to
    sharedOn,       \* ids of the decisions that share links name
    pc,             \* how far each request is
    chosen,         \* request |-> the candidates it names, and the actions
    runSeen,        \* request |-> the candidates it read as the latest run's
    target,         \* request |-> which decisions its candidates matched
    \* History, for the properties only.
    overtaken,      \* the handlers under way when a run was saved, or when
                    \* one that was then wrote a decision
    crossed         \* the handlers under way when another one wrote a decision

tables == <<run, found, decisions, photoOn, sharedOn>>
history == <<overtaken, crossed>>
vars == <<tables, pc, chosen, runSeen, target, history>>

Phases == {"idle", "resolved", "listed", "matched", "done", "conflict"}

\* Run number n with the spans that were found: ids ascend over the runs.
CandidatesOf(n, spans) ==
    {[id |-> 10 * n + s.start, start |-> s.start, end |-> s.end, dest |-> s.dest] :
        s \in spans}

Active == {r \in Requests : pc[r] \in {"resolved", "listed", "matched"}}

Init ==
    /\ run = 0 /\ found = {}
    /\ decisions = {} /\ photoOn = {} /\ sharedOn = {}
    /\ pc = [r \in Requests |-> "idle"]
    /\ chosen = [r \in Requests |-> {}]
    /\ runSeen = [r \in Requests |-> {}]
    /\ target = [r \in Requests |-> {}]
    /\ overtaken = {} /\ crossed = {}

Goto(r, phase) == pc' = [pc EXCEPT ![r] = phase]

\* The handler returns: what it had read is gone with it.
Answer(r, phase) ==
    /\ Goto(r, phase)
    /\ chosen' = [chosen EXCEPT ![r] = {}]
    /\ runSeen' = [runSeen EXCEPT ![r] = {}]
    /\ target' = [target EXCEPT ![r] = {}]

\* History: it wrote no decision; or it did, while others were under way.
Leaves(r) ==
    /\ overtaken' = overtaken \ {r}
    /\ crossed' = crossed \ {r}
Crosses(r) ==
    /\ overtaken' = (IF r \in overtaken THEN Active ELSE overtaken) \ {r}
    /\ crossed' = Active \ {r}

-----------------------------------------------------------------------------

\* SaveRun, one transaction: from now on its candidates are the latest.
SaveRun(spans) ==
    /\ run < MaxRuns
    /\ run' = run + 1
    /\ found' = CandidatesOf(run + 1, spans)
    /\ overtaken' = overtaken \union Active
    /\ UNCHANGED <<decisions, photoOn, sharedOn, pc, chosen, runSeen, target, crossed>>

\* LatestCandidate's WHERE clause: an older run's candidate answers 404.
Latest(c) == c \in found

\* The person names a candidate, of this run or from a page loaded earlier.
Resolve(r, c, action) ==
    /\ r \in Requests \ Bulks /\ pc[r] = "idle"
    /\ Cardinality(Active) < MaxActive
    /\ Latest(c)
    /\ chosen' = [chosen EXCEPT ![r] = {[cand |-> c, action |-> action]}]
    /\ Goto(r, "resolved")
    /\ UNCHANGED <<tables, runSeen, target, history>>

\* LatestRun, the first half of matchedState.
ReadRun(r) ==
    /\ r \in Requests \ Bulks /\ pc[r] = "resolved"
    /\ runSeen' = [runSeen EXCEPT ![r] = found]
    /\ Goto(r, "listed")
    /\ UNCHANGED <<tables, chosen, target, history>>

\* A bulk names its candidates against that list, each once; one that is not
\* in it answers 404 for the whole batch.
ReadRunForBulk(r, items) ==
    /\ r \in Bulks /\ pc[r] = "idle"
    /\ Cardinality(Active) < MaxActive
    /\ items # {} /\ \A i \in items : i.cand \in found
    /\ \A i, j \in items : i # j => i.cand # j.cand
    /\ runSeen' = [runSeen EXCEPT ![r] = found]
    /\ chosen' = [chosen EXCEPT ![r] = items]
    /\ Goto(r, "listed")
    /\ UNCHANGED <<tables, target, history>>

Named(r) == {i.cand : i \in chosen[r]}

\* Mutation: only the candidates that are being decided are matched.
MutMatched(r) == Match(Named(r), decisions)

Matched(r) == Match(runSeen[r], decisions)

\* Mutation: what is dismissed takes photos and links too.
MutMayCarry(d) == TRUE

\* confirmedDecisionFor: photos and links go on confirmed decisions only.
MayCarry(d) == d.action = "confirmed"

\* ListDecisions and Match, the second half of matchedState.  What cannot
\* carry a photo or a link answers 409.
ReadDecisions(r) ==
    LET pairs == {p \in Matched(r) : p.cand \in Named(r)} IN
    /\ pc[r] = "listed"
    /\ \/ /\ r \in Singles \union Bulks \/ \E p \in pairs : MayCarry(p.dec)
          /\ target' = [target EXCEPT ![r] = {[cand |-> p.cand, id |-> p.dec.id] : p \in pairs}]
          /\ Goto(r, "matched")
          /\ UNCHANGED <<chosen, runSeen, history>>
       \/ /\ r \in Attaches \union Mints /\ ~\E p \in pairs : MayCarry(p.dec)
          /\ Leaves(r)
          /\ Answer(r, "done")
    /\ UNCHANGED tables

\* How many of the batch's inserts come before i's.
Rank(r, i) ==
    Cardinality({j \in chosen[r] : /\ j.cand.start < i.cand.start
                                   /\ \A t \in target[r] : t.cand # j.cand})

NextId == 1 + Cardinality(decisions)

Row(id, created, i) ==
    [id |-> id, created |-> created, action |-> i.action,
     start |-> i.cand.start, end |-> i.cand.end, dest |-> i.cand.dest]

\* InsertDecision for what matched nothing; the rows of one transaction are
\* created at one instant.
Insertions(r) ==
    LET fresh == {i \in chosen[r] : \A t \in target[r] : t.cand # i.cand} IN
    {Row(NextId + Rank(r, i), NextId, i) : i \in fresh}

\* Mutation: the anchor stays where the decision was first made.
MutRefreshed(d, i) == [d EXCEPT !.action = i.action]

\* Mutation: a decision is made anew instead.
MutReplaced(d, i) == Row(NextId, NextId, i)

Refreshed(d, i) == Row(d.id, d.created, i)

\* UpdateDecision: re-decided in place, the anchor refreshed.
Updates(r) ==
    LET Over(i) == {d \in decisions : [cand |-> i.cand, id |-> d.id] \in target[r]} IN
    UNION {{Refreshed(d, i) : d \in Over(i)} : i \in chosen[r]}

AfterWrite(r) ==
    {d \in decisions : \A t \in target[r] : t.id # d.id} \union Updates(r) \union Insertions(r)

\* decisions_anchor_unique.
AnchorsDistinct(D) == \A d, e \in D : d # e => ~Anchored(d, e)

\* The write lands whole, or the index refuses it and nothing changes.  The
\* index looks after every statement, but the candidates of a run are disjoint:
\* what one statement collides with is not moved by another of the same batch.
Decide(r) ==
    /\ r \in Singles \union Bulks /\ pc[r] = "matched"
    /\ IF AnchorsDistinct(AfterWrite(r))
       THEN /\ decisions' = AfterWrite(r)
            /\ Crosses(r)
            /\ Answer(r, "done")
       ELSE /\ UNCHANGED decisions
            /\ Leaves(r)
            /\ Answer(r, "conflict")
    /\ UNCHANGED <<run, found, photoOn, sharedOn>>

TargetIds(r) == {t.id : t \in target[r]}

\* The body has been read, which may take long, and its photos are stored.
AttachPhotos(r) ==
    /\ r \in Attaches /\ pc[r] = "matched"
    /\ photoOn' = photoOn \union TargetIds(r)
    /\ Leaves(r)
    /\ Answer(r, "done")
    /\ UNCHANGED <<run, found, decisions, sharedOn>>

\* store.CreateShareLink, for a decision that is the caller's.
CreateShareLink(r) ==
    /\ r \in Mints /\ pc[r] = "matched"
    /\ sharedOn' = sharedOn \union TargetIds(r)
    /\ Leaves(r)
    /\ Answer(r, "done")
    /\ UNCHANGED <<run, found, decisions, photoOn>>

\* Every candidate there ever was so far: what a page may still show.
EverFound == UNION {CandidatesOf(n, spans) : n \in 1 .. run, spans \in Detections}

Items(cands) == [cand : cands, action : Actions]

\* Photos and links come without an action of their own.
ActionsOf(r) == IF r \in Singles THEN Actions ELSE {"confirmed"}

Next ==
    \/ \E spans \in Detections : SaveRun(spans)
    \/ \E r \in Requests :
        \/ \E c \in EverFound, action \in ActionsOf(r) : Resolve(r, c, action)
        \/ \E items \in SUBSET Items(found) : ReadRunForBulk(r, items)
        \/ ReadRun(r) \/ ReadDecisions(r)
        \/ Decide(r) \/ AttachPhotos(r) \/ CreateShareLink(r)

Spec == Init /\ [][Next]_vars

-----------------------------------------------------------------------------
(* Properties. *)

DecisionRow ==
    [id : Nat \ {0}, created : Nat, action : Actions, start : Int, end : Int, dest : Nat]

\* Beside its type: decisions are told apart by their ids, and every id a
\* handler carries from one query to the next still names a decision.
TypeOK ==
    /\ run \in 0 .. MaxRuns
    /\ pc \in [Requests -> Phases]
    /\ decisions \subseteq DecisionRow
    /\ \A d, e \in decisions : d.id = e.id => d = e
    /\ photoOn \union sharedOn \union UNION {TargetIds(r) : r \in Requests}
            \subseteq {d.id : d \in decisions}
    /\ overtaken \union crossed \subseteq Active

ShownOn(c) == {[id |-> d.id, action |-> d.action] : d \in DecisionsOn(c, found, decisions)}

Lands(r) == r \in Singles \union Bulks /\ pc[r] = "matched" /\ pc'[r] = "done"

\* Deciding is local: what was decided is shown on the candidates it was
\* decided on, and no other candidate of the list changes its decision, even
\* though every association is computed anew from the whole lists, and whatever
\* other handlers write meanwhile.
DecideIsLocal ==
    [][\A r \in Requests : Lands(r) /\ r \notin overtaken =>
        /\ \A i \in chosen[r] : \E d \in ShownOn(i.cand)' : d.action = i.action
        /\ \A c \in found \ Named(r) : ShownOn(c)' = ShownOn(c)]_vars

Puts(r) == r \in Attaches \union Mints /\ pc[r] = "matched" /\ pc'[r] = "done"

\* What is put on a trip lands on the trip: the decision is looked up before the
\* body is read, and whatever is decided meanwhile, of this trip or of another,
\* the photos and links are then on the decision the trip shows, and on no other.
\* Only somebody who wrote meanwhile can have dismissed it.  (photos.go:44-52,
\* server.go:357-372, decisions.go:60-76)
CarriedByItsTrip ==
    [][\A r \in Requests : Puts(r) /\ r \notin overtaken =>
        \A i \in chosen[r] :
            /\ \E d \in ShownOn(i.cand)' :
                /\ d.id \in (IF r \in Attaches THEN photoOn' ELSE sharedOn')
                /\ d.action = "confirmed" \/ r \in crossed
            /\ (photoOn' \ photoOn) \union (sharedOn' \ sharedOn)
                    \subseteq {d.id : d \in ShownOn(i.cand)'}]_vars

\* What one single decision would leave of the table, its candidate matched
\* against a fresh snapshot; ids apart.
AfterOne(D, i) ==
    LET mine == DecisionsOn(i.cand, found, D) IN
    (D \ mine) \union
        (IF mine = {} THEN {Row(Cardinality(D) + 1, Cardinality(D) + 1, i)}
         ELSE {Row(d.id, d.created, i) : d \in mine})

Contents(D) == {[action |-> d.action, start |-> d.start, end |-> d.end, dest |-> d.dest] : d \in D}

\* "The batch adds nothing but the transaction": a bulk write leaves what its
\* decisions, made one after the other in either order, would have left.
BulkAddsNothing ==
    \A r \in Bulks : pc[r] = "matched" /\ r \notin overtaken \union crossed =>
        \A i, j \in chosen[r] : chosen[r] = {i, j} /\ i # j =>
            Contents(AfterWrite(r)) = Contents(AfterOne(AfterOne(decisions, i), j))
=============================================================================
