----------------------------- MODULE Continuations -----------------------------
(***************************************************************************)
(* The continuation store (feedback.py): snapshots of a producer's working *)
(* state, branches taken from them, and the invalidation of a producer.  A *)
(* state names its parent, if it has one, by digest; here it holds it.     *)
(* What a state's references hold, and its splices, are left out.          *)
(***************************************************************************)
EXTENDS Naturals, FiniteSets

CONSTANTS
    Producers,
    Branches,
    MaxStates           \* bound on the states put or forked

ASSUME ContinuationAssumption == MaxStates \in Nat

VARIABLES
    states,         \* the continuations held
    invalid,        \* those invalidated
    forked          \* those that fork has returned

continuationVars == <<states, invalid, forked>>

ContinuationInit ==
    /\ states = {}
    /\ invalid = {}
    /\ forked = {}

\* A snapshot of a producer; parents is the one it names, or none.
Continuation(producer, version, epoch, branch, parents) ==
    [producer |-> producer, version |-> version, epoch |-> epoch, branch |-> branch,
     parents |-> parents]

Holds(state) ==
    /\ states' = states \cup {state}
    /\ Cardinality(states') <= MaxStates

\* put: whatever the caller made, its parent and its branch unexamined.
PutState(producer, version, epoch, branch, parents) ==
    /\ Holds(Continuation(producer, version, epoch, branch, parents))
    /\ UNCHANGED <<invalid, forked>>

\* get: the exact producer, version and epoch, unless invalidated.
Gets(state, producer, version, epoch) ==
    /\ state \in states \ invalid
    /\ <<state.producer, state.version, state.epoch>> = <<producer, version, epoch>>

\* fork: the same snapshot on a branch, with the state branched from as its parent.
Forked(state, branch) ==
    Continuation(state.producer, state.version, state.epoch, branch, {state})

\* Mutant of Fork: an invalidated state may be branched from.
ForkInvalid(state, branch) ==
    /\ state \in states
    /\ Holds(Forked(state, branch))
    /\ forked' = forked \cup {Forked(state, branch)}
    /\ UNCHANGED invalid
Fork(state, branch) ==
    /\ state \in states \ invalid
    /\ Holds(Forked(state, branch))
    /\ forked' = forked \cup {Forked(state, branch)}
    /\ UNCHANGED invalid

InvalidateProducer(producer) ==
    /\ invalid' = invalid \cup {s \in states : s.producer = producer}
    /\ UNCHANGED <<states, forked>>

\* Two snapshots of a producer, of different version and epoch.  Callers put them with
\* any state for a parent, in the store or not, invalid or not, or with none.
Roots == {Continuation(p, n, n, b, {}) : p \in Producers, n \in {0, 1}, b \in Branches}
ContinuationNext ==
    \/ \E p \in Producers, n \in {0, 1}, b \in Branches,
          parents \in {{}} \cup {{s} : s \in Roots \cup states} : PutState(p, n, n, b, parents)
    \/ \E state \in states, branch \in Branches : Fork(state, branch)
    \/ \E p \in Producers : InvalidateProducer(p)
ContinuationSpec == ContinuationInit /\ [][ContinuationNext]_continuationVars

\* A branch that the store took is as good as what it was taken from: it is readable
\* only while its parent is, under the binding its parent has, also when callers have
\* put the same state, or its parent, before or after.
BranchesFollowParents ==
    \A s \in forked \ invalid :
        \A parent \in s.parents : Gets(parent, s.producer, s.version, s.epoch)
=============================================================================
