-------------------------- MODULE LogicalExecution --------------------------
(***************************************************************************)
(* What the runtime promises about logical time: tags strictly increase,   *)
(* none is later than the stop tag; the stop tag only moves earlier and    *)
(* never to a tag that has begun; the shutdown reactions are triggered     *)
(* once, at the stop tag, and execution ends there and nowhere else.       *)
(***************************************************************************)
EXTENDS Tags

VARIABLES
  tag,        \* the tag being executed
  stop,       \* the last tag to execute
  shutdown,   \* the shutdown reactions have been triggered
  ended       \* no further tag will be executed

vars == <<tag, stop, shutdown, ended>>

Init ==
  /\ tag = TagOf(0, 0)
  /\ stop \in Tag
  /\ shutdown = FALSE
  /\ ended = FALSE

(* A request to stop, or starvation. *)
StopEarlier ==
  /\ TagLess(tag, stop') /\ TagLess(stop', stop)
  /\ UNCHANGED <<tag, shutdown, ended>>

Advance ==
  /\ TagLess(tag, tag') /\ TagLeq(tag', stop)
  /\ shutdown' = (tag' = stop)
  /\ UNCHANGED <<stop, ended>>

(* With a timeout of zero the start tag is the stop tag. *)
ShutdownAtStart ==
  /\ tag = stop /\ ~shutdown
  /\ shutdown' = TRUE
  /\ UNCHANGED <<tag, stop, ended>>

End ==
  /\ tag = stop /\ shutdown
  /\ ended' = TRUE
  /\ UNCHANGED <<tag, stop, shutdown>>

Next == StopEarlier \/ Advance \/ ShutdownAtStart \/ End

Spec == Init /\ [][Next]_vars
=============================================================================
