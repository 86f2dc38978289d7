------------------------------ MODULE Heartbeat ------------------------------
(***************************************************************************)
(* The steering heartbeat (heartbeat.py): a durable boundary for every     *)
(* material change of the state observed, a disposable view after it, and  *)
(* a view without a boundary for fresh liveness.  Its owner keeps the      *)
(* boundaries, may lose the heartbeat at any time and restores it from the *)
(* last of them.  A value is one of two; the view shows the number of      *)
(* residuals only, left out here.  record_steering_change keeps no state.  *)
(***************************************************************************)
EXTENDS Integers, Sequences, SequencesExt

CONSTANTS
    HeartbeatRuns,  \* run identities
    Changing,       \* the material fields that vary in this instance
    Snapshots,      \* budget snapshots within one band
    MaxBoundaries,  \* bound on boundaries
    MaxProgress     \* bound on progress ordinals

MaterialFields == {"phase", "latest_checkpoint_ref", "active_gate", "budget_band",
                   "steering_aperture", "risk_band", "residual_refs", "terminal_state"}

ASSUME HeartbeatAssumption ==
    /\ Changing \subseteq MaterialFields
    /\ MaxBoundaries \in Nat \ {0} /\ MaxProgress \in Nat

VARIABLES
    steering,       \* the state last observed, or Undisplayed
    boundaries,     \* the durable witnesses, by sequence
    lastView,       \* the view last rendered, or Undisplayed
    progress        \* the last liveness ordinal, -1 before any

heartbeatVars == <<steering, boundaries, lastView, progress>>

Undisplayed == [run |-> "", boundary |-> 0]
HeartbeatState(run, material, snapshot) ==
    [run |-> run, material |-> material, snapshot |-> snapshot]
MaterialStates ==
    {m \in [MaterialFields -> BOOLEAN] : \A f \in MaterialFields \ Changing : ~m[f]}

\* _render: bound to a boundary by its place in the chain.
Render(state, boundary, alive) ==
    [run |-> state.run, snapshot |-> state.snapshot, boundary |-> boundary, alive |-> alive,
     shown |-> [f \in MaterialFields \ {"residual_refs"} |-> state.material[f]]]

\* Mutant of MaterialReasons: the end of the run is not compared.
MaterialReasonsButTerminal(before, after) ==
    {f \in MaterialFields \ {"terminal_state"} : before.material[f] # after.material[f]}

MaterialReasons(before, after) ==
    {f \in MaterialFields : before.material[f] # after.material[f]}

HeartbeatInit ==
    /\ steering = Undisplayed
    /\ boundaries = <<>>
    /\ lastView = Undisplayed
    /\ progress = -1

-----------------------------------------------------------------------------
\* A boundary of the state, for these reasons, and its view.
Emit(state, reasons) ==
    /\ Len(boundaries) < MaxBoundaries
    /\ boundaries' = Append(boundaries, [state |-> state, reasons |-> reasons])
    /\ lastView' = Render(state, Len(boundaries) + 1, FALSE)
    /\ steering' = state
    /\ UNCHANGED progress

ObserveFirst(state) ==
    /\ steering = Undisplayed
    /\ Emit(state, {"initial"})

ObserveChange(state) ==
    /\ steering # Undisplayed /\ state.run = steering.run
    /\ MaterialReasons(steering, state) # {}
    /\ Emit(state, MaterialReasons(steering, state))

\* Nothing material: the exact budget snapshot is kept for a later view.
ObserveQuiet(state) ==
    /\ steering # Undisplayed /\ state.run = steering.run
    /\ MaterialReasons(steering, state) = {}
    /\ steering' = state
    /\ UNCHANGED <<boundaries, lastView, progress>>

ShowLiveness(run, ordinal) ==
    /\ steering # Undisplayed /\ run = steering.run
    /\ ordinal > progress
    /\ progress' = ordinal
    /\ lastView' = Render(steering, Len(boundaries), TRUE)
    /\ UNCHANGED <<steering, boundaries>>

\* The heartbeat is lost and restored from its last boundary: the snapshot and
\* the liveness ordinal go back with it.
RestoreHeartbeat ==
    /\ boundaries # <<>>
    /\ steering' = Last(boundaries).state
    /\ lastView' = Render(Last(boundaries).state, Len(boundaries), FALSE)
    /\ progress' = -1
    /\ UNCHANGED boundaries

HeartbeatNext ==
    \/ \E run \in HeartbeatRuns, material \in MaterialStates, snapshot \in Snapshots :
          LET state == HeartbeatState(run, material, snapshot) IN
          ObserveFirst(state) \/ ObserveChange(state) \/ ObserveQuiet(state)
    \/ \E run \in HeartbeatRuns, ordinal \in 0..MaxProgress : ShowLiveness(run, ordinal)
    \/ RestoreHeartbeat

HeartbeatSpec == HeartbeatInit /\ [][HeartbeatNext]_heartbeatVars

-----------------------------------------------------------------------------
\* Silence means no material change: the boundary last written and the view
\* last rendered agree with the state on every field either shows, through
\* quiet observations, liveness views and restores; and the chain tells, for
\* one run, exactly what changed between a boundary and the next.
HeartbeatShowsState ==
    steering # Undisplayed =>
        /\ Last(boundaries).state.material = steering.material
        /\ \A f \in DOMAIN lastView.shown : lastView.shown[f] = steering.material[f]
        /\ lastView.boundary = Len(boundaries)
        /\ \A i \in 2..Len(boundaries) :
              LET before == boundaries[i - 1]
                  after == boundaries[i] IN
              /\ after.state.run = before.state.run
              /\ after.reasons # {}
              /\ after.reasons = {f \in MaterialFields :
                                    after.state.material[f] # before.state.material[f]}
=============================================================================
