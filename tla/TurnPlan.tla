------------------------------ MODULE TurnPlan ------------------------------
(***************************************************************************)
(* One turn: the deterministic assessment of a request, the coordination   *)
(* plan that is made for it, and the plan being carried out.  Facts are    *)
(* the sets of those that are true.  The last part is the host's (the      *)
(* repository ships no scheduler): it carries out a contract when every    *)
(* contract the plan orders before it is done and its gates are open.      *)
(***************************************************************************)
EXTENDS Naturals, FiniteSets, FiniteSetsExt

CONSTANTS
    Responses, Actions,     \* the contracts the plan coordinates
    MaxEdges,               \* bound: ordering edges of a plan
    None

ASSUME ContractsAssumption ==
    /\ IsFiniteSet(Responses) /\ IsFiniteSet(Actions)
    /\ Responses # {} /\ Actions # {}
    /\ Responses \cap Actions = {}

\* The bound leaves room for an edge to every Action.
ASSUME BoundAssumption == MaxEdges \in Nat /\ Cardinality(Actions) <= MaxEdges

VARIABLES
    assessment,     \* what assess returned, with the impact it was about
    plan,           \* the plan that was proposed
    accepted,       \* TurnCoordinationPlanV1::validate accepted it
    granted,        \* gates that are open
    done            \* contracts carried out

vars == <<assessment, plan, accepted, granted, done>>

Contracts == Responses \cup Actions

Impacts == {"Low", "Medium", "High", "Critical"}
HighImpacts == {"High", "Critical"}

Modes == {"RespondOnly", "ActThenRespond", "RespondThenAct", "RespondThenConfirmThenAct",
          "Parallel", "AcknowledgeThenRun", "StreamProgressThenFinal"}

Postures == {"None", "Blocked", "Planned", "WaitingAuthorization"}
RunStates == {"Running", "WaitingAuthorization", "Rejected"}

Assessments == [impact : Impacts, fast : {"AllowFastPath", "Unknown", "Block"},
                mode : Modes, posture : Postures, run : RunStates]

Edges == [before : Contracts, after : Contracts]
Gates == [kind : {"UserAuthorization", "Dependency"}, before : Contracts]

\* Every variable has its type: assess answers with a mode, a posture and a Run
\* state of the code.
TypeOK ==
    /\ assessment \in Assessments \cup {None}
    /\ plan = None \/ (/\ plan.mode \in Modes
                       /\ plan.edges \subseteq Edges
                       /\ plan.gates \subseteq Gates
                       /\ plan.actions \subseteq Actions)
    /\ accepted \in BOOLEAN
    /\ granted \subseteq Gates
    /\ done \subseteq Contracts

Init ==
    /\ assessment = None /\ plan = None /\ accepted = FALSE
    /\ granted = {} /\ done = {}

-----------------------------------------------------------------------------
(* Assessing the request *)

FastPathFacts == {"authority", "policy", "match", "parameters", "ambiguous", "reversible", "human_model"}

EvaluateIntentFastPath(facts, impact) ==
    IF ~({"authority", "policy"} \subseteq facts) THEN "Block"
    ELSE IF /\ {"match", "parameters", "reversible"} \subseteq facts
            /\ {"ambiguous", "human_model"} \cap facts = {}
            /\ impact = "Low"
         THEN "AllowFastPath" ELSE "Unknown"

\* The facts that call for a Decision, and the ones that tell none is needed.
DecisionReasons == {"options", "tradeoffs", "conflict", "irreversible", "long_term", "interests"}
NoDecisionReasons == {"lookup", "unique", "chosen"}

EvaluateDecisionNecessity(facts, impact) ==
    IF DecisionReasons \cap facts # {} \/ impact \in HighImpacts THEN "Required"
    ELSE IF NoDecisionReasons \cap facts # {} THEN "NotRequired" ELSE "Unknown"

CoordinationFacts == {"response", "action", "confirm", "authorization", "read_only",
                      "long_running", "stream", "parallel"}

\* Callers have response_planned: without it there is no mode.
SelectTurnCoordinationMode(facts) ==
    CASE "action" \notin facts -> "RespondOnly"
      [] "action" \in facts /\ {"confirm", "authorization"} \cap facts # {} -> "RespondThenConfirmThenAct"
      [] "action" \in facts /\ {"confirm", "authorization"} \cap facts = {} ->
            IF "stream" \in facts THEN "StreamProgressThenFinal"
            ELSE IF "long_running" \in facts THEN "AcknowledgeThenRun"
            ELSE IF {"read_only", "parallel"} \subseteq facts THEN "Parallel"
            ELSE "RespondThenAct"

\* Mutant: a high impact does not call for authorization.
AssessmentFactsHighUnchecked(facts, impact) ==
    /\ "response" \in facts
    /\ {"authorization", "confirm", "stream"} \cap facts # {} => "action" \in facts
    /\ "parallel" \in facts => "read_only" \in facts

ValidateAssessmentFacts(facts, impact) ==
    /\ "response" \in facts
    /\ {"authorization", "confirm", "stream"} \cap facts # {} => "action" \in facts
    /\ "action" \in facts /\ impact \in HighImpacts => "authorization" \in facts
    /\ "parallel" \in facts => "read_only" \in facts

\* InteractionRuntimeKernelV1::assess.  A fast path that would skip a Decision
\* that is called for is an error.
Assess ==
    /\ assessment = None
    /\ \E impact \in Impacts, facts \in SUBSET CoordinationFacts :
        /\ ValidateAssessmentFacts(facts, impact)
        /\ \E fast \in {EvaluateIntentFastPath(f, impact) : f \in SUBSET FastPathFacts},
              decision \in {EvaluateDecisionNecessity(f, impact) :
                                f \in SUBSET (DecisionReasons \cup NoDecisionReasons)} :
            /\ fast = "AllowFastPath" => decision = "NotRequired"
            /\ LET mode == IF fast = "Block" THEN "RespondOnly" ELSE SelectTurnCoordinationMode(facts) IN
               assessment' =
                [impact |-> impact, fast |-> fast, mode |-> mode,
                 posture |-> CASE fast = "Block" -> "Blocked"
                               [] fast # "Block" /\ mode = "RespondOnly" -> "None"
                               [] mode = "RespondThenConfirmThenAct" -> "WaitingAuthorization"
                               [] OTHER -> "Planned",
                 run |-> CASE fast = "Block" -> "Rejected"
                           [] mode = "RespondThenConfirmThenAct" -> "WaitingAuthorization"
                           [] OTHER -> "Running"]
    /\ UNCHANGED <<plan, accepted, granted, done>>

-----------------------------------------------------------------------------
(* The plan *)

KnownRefs(p) == Responses \cup p.actions

\* Mutant: a contract is taken when one of the contracts before it is gone.
AcyclicWhenAnyGone(nodes, edges) ==
    LET Removed[n \in 0..Cardinality(nodes)] ==
            IF n = 0 THEN {}
            ELSE {x \in nodes :
                    \/ \A e \in edges : e.after # x
                    \/ \E e \in edges : e.after = x /\ e.before \in Removed[n - 1]}
    IN Removed[Cardinality(nodes)] = nodes

\* The nodes are taken as their last incoming edge goes: all that are ready at
\* once, round by round.
DependencyGraphIsAcyclic(nodes, edges) ==
    LET Removed[n \in 0..Cardinality(nodes)] ==
            IF n = 0 THEN {}
            ELSE {x \in nodes : \A e \in edges : e.after = x => e.before \in Removed[n - 1]}
    IN Removed[Cardinality(nodes)] = nodes

\* Mutant: the edges are followed backwards.
DependencyPathBackwards(start, target, edges) ==
    LET Reached[n \in 0..Cardinality(Contracts)] ==
            IF n = 0 THEN {start}
            ELSE Reached[n - 1] \cup {e.before : e \in {f \in edges : f.after \in Reached[n - 1]}}
    IN \E e \in edges : e.before = target /\ e.after \in Reached[Cardinality(Contracts)]

\* Breadth first from start.
DependencyPathExists(start, target, edges) ==
    LET Reached[n \in 0..Cardinality(Contracts)] ==
            IF n = 0 THEN {start}
            ELSE Reached[n - 1] \cup {e.after : e \in {f \in edges : f.before \in Reached[n - 1]}}
    IN \E e \in edges : e.after = target /\ e.before \in Reached[Cardinality(Contracts)]

ResponseBeforeAction == {"RespondThenAct", "RespondThenConfirmThenAct", "AcknowledgeThenRun"}

\* Mutant: the edges may go round in a circle.
PlanCyclesAllowed(p) ==
    LET authorized == {g.before : g \in {h \in p.gates : h.kind = "UserAuthorization"}}
        confirms == p.mode = "RespondThenConfirmThenAct"
    IN /\ Responses # {}
       /\ (p.mode # "RespondOnly") = (p.actions # {})
       /\ confirms = (authorized # {})
       /\ \A e \in p.edges : e.before # e.after /\ {e.before, e.after} \subseteq KnownRefs(p)
       /\ \A g \in p.gates : g.before \in KnownRefs(p)
       /\ authorized \subseteq Actions
       /\ confirms => p.actions \subseteq authorized
       /\ p.mode \in ResponseBeforeAction =>
            \A a \in p.actions : \E r \in Responses : DependencyPathExists(r, a, p.edges)
       /\ p.mode = "ActThenRespond" =>
            \A r \in Responses : \E a \in p.actions : DependencyPathExists(a, r, p.edges)

\* TurnCoordinationPlanV1::validate.
PlanValid(p) ==
    LET authorized == {g.before : g \in {h \in p.gates : h.kind = "UserAuthorization"}}
        confirms == p.mode = "RespondThenConfirmThenAct"
    IN /\ Responses # {}
       /\ (p.mode # "RespondOnly") = (p.actions # {})
       /\ confirms = (authorized # {})
       /\ \A e \in p.edges : e.before # e.after /\ {e.before, e.after} \subseteq KnownRefs(p)
       /\ DependencyGraphIsAcyclic(KnownRefs(p), p.edges)
       /\ \A g \in p.gates : g.before \in KnownRefs(p)
       /\ authorized \subseteq Actions
       /\ confirms => p.actions \subseteq authorized
       /\ p.mode \in ResponseBeforeAction =>
            \A a \in p.actions : \E r \in Responses : DependencyPathExists(r, a, p.edges)
       /\ p.mode = "ActThenRespond" =>
            \A r \in Responses : \E a \in p.actions : DependencyPathExists(a, r, p.edges)

Proposals ==
    [mode : Modes, actions : {{}, Actions},
     edges : UNION {kSubset(n, {e \in Edges : e.before # e.after}) : n \in 0..MaxEdges},
     gates : SUBSET ([kind : {"UserAuthorization"}, before : Contracts]
                     \cup [kind : {"Dependency"}, before : {CHOOSE a \in Actions : TRUE}])]

ASSUME NoneAssumption == None \notin Proposals

\* The host plans in the mode that was assessed; select_turn_coordination_mode
\* never yields ActThenRespond, which is the host's choice where an Action may run.
Propose ==
    /\ assessment # None /\ plan = None
    /\ plan' \in Proposals
    /\ \/ plan'.mode = assessment.mode
       \/ assessment.posture = "Planned" /\ plan'.mode = "ActThenRespond"
    /\ accepted' = PlanValid(plan')
    /\ UNCHANGED <<assessment, granted, done>>

-----------------------------------------------------------------------------
(* Carrying it out *)

Startable(x) == \A e \in plan.edges : e.after = x => e.before \in done

\* The user authorizes, or what the gate waits for has come.
OpenGate(g) ==
    /\ accepted /\ g \in plan.gates \ granted
    /\ granted' = granted \cup {g}
    /\ UNCHANGED <<assessment, plan, accepted, done>>

CarryOut(x) ==
    /\ accepted /\ x \in KnownRefs(plan) \ done
    /\ Startable(x)
    /\ \A g \in plan.gates : g.before = x => g \in granted
    /\ done' = done \cup {x}
    /\ UNCHANGED <<assessment, plan, accepted, granted>>

Next ==
    \/ Assess
    \/ Propose
    \/ \E g \in Gates : OpenGate(g)
    \/ \E x \in Contracts : CarryOut(x)

Spec == Init /\ [][Next]_vars

-----------------------------------------------------------------------------
(* What the assessment and the plan are for *)

\* Kahn's algorithm accepts a graph exactly when its contracts can be put in an
\* order that no edge goes against.
AcyclicIffOrdered ==
    plan # None /\ done = {} /\ granted = {} =>
        LET known == KnownRefs(plan)
            inside == {e \in plan.edges : {e.before, e.after} \subseteq known}
        IN DependencyGraphIsAcyclic(known, inside) =
            \E rank \in [known -> 1..Cardinality(known)] :
                \A e \in inside : rank[e.before] < rank[e.after]

\* A plan that validates can be carried out to its end: there is always a
\* contract left that waits for nothing but its own gates.
AcceptedPlanFinishes ==
    accepted => KnownRefs(plan) \subseteq done \/ \E x \in KnownRefs(plan) \ done : Startable(x)

\* Nothing of high impact happens before the user authorized that very
\* Action: it takes the facts, the mode and the gates to see to it.
HighImpactIsConfirmed ==
    accepted /\ assessment.impact \in HighImpacts =>
        \A a \in done \cap Actions : [kind |-> "UserAuthorization", before |-> a] \in granted

\* In a mode that says what comes first, whatever order the host takes, nothing
\* of the second kind happens before something of the first has.
OrderFollowsMode ==
    accepted =>
        /\ plan.mode \in ResponseBeforeAction /\ done \cap Actions # {} => done \cap Responses # {}
        /\ plan.mode = "ActThenRespond" /\ done \cap Responses # {} => done \cap Actions # {}

\* A request that the fast path blocked never leads to an Action, and one that
\* takes it never has more than a low impact.
BlockedNeverActs ==
    accepted =>
        /\ assessment.run = "Rejected" => done \cap Actions = {}
        /\ assessment.fast = "AllowFastPath" => assessment.impact = "Low"

\* No assessment is a dead end: whatever mode it selected, some plan with that
\* mode validates.
AssessmentHasPlan ==
    assessment # None /\ plan = None =>
        \E p \in Proposals : p.mode = assessment.mode /\ PlanValid(p)

\* From the facts to the last Action, nothing happens that the assessment
\* blocked or that nobody authorized.
ActsAsAssessed == TypeOK /\ HighImpactIsConfirmed /\ BlockedNeverActs

\* Neither an assessment nor a plan that validates is a dead end.
NoDeadEnd == AssessmentHasPlan /\ AcceptedPlanFinishes
=============================================================================
