---------------------------- MODULE MCEventQueue ----------------------------
(* Values for TLC: small programs, each a function from its triggers to      *)
(* their fields.                                                             *)
EXTENDS EventQueue, TLC

CONSTANTS a, b, tm

Trig(kind, offset, period, policy, payload) ==
  [kind |-> kind, offset |-> offset, period |-> period, policy |-> policy, payload |-> payload]

Action(policy) == Trig("logical", 0, -1, policy, TRUE)

MCPrograms ==
  { (a :> Action("defer")) @@ (tm :> Trig("timer", 0, 1, "defer", FALSE)),
    (tm :> Trig("timer", 1, 0, "defer", FALSE)) @@ (b :> Trig("physical", 0, -1, "defer", FALSE)),
    (a :> Trig("logical", 0, 1, "replace", TRUE)),
    (a :> Trig("logical", 0, 1, "drop", TRUE)),
    (a :> Trig("logical", 0, 0, "drop", TRUE)),
    (a :> Trig("logical", 1, 1, "defer", TRUE)) }

NetworkPrograms ==
  { (a :> Trig("network", 0, -1, "defer", TRUE)),
    (a :> Trig("network", 0, -1, "replace", TRUE)),
    (a :> Trig("network", 0, -1, "drop", TRUE)) @@ (tm :> Trig("timer", 1, 0, "defer", FALSE)) }

AllPrograms == MCPrograms \cup NetworkPrograms

(* A minimum spacing of zero with the default policy. *)
DeferProgram == {(a :> Trig("logical", 0, 0, "defer", TRUE))}

MCStopTags == {TagOf(6, 0), TagOf(5, 1)}
MCDelays == 0..1

Symmetry == Permutations(Events)
=============================================================================
