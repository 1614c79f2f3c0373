---------------------------- MODULE EventCalendar ----------------------------
(***************************************************************************)
(* What the event queue promises: a calendar of entries, each a trigger,   *)
(* the tag at which it fires and the token it hands over.  A trigger has   *)
(* at most one entry for a tag.  An entry leaves the calendar only by      *)
(* firing, exactly at its tag; its token may be replaced before.  The tag  *)
(* moves forward, and only once everything due has fired.                  *)
(***************************************************************************)
EXTENDS Tags

VARIABLES
  tag,      \* the current tag
  entries   \* a set of [trigger, tag, token] records

vars == <<tag, entries>>

(* The first firings of the timers. *)
Init == \A e \in entries : TagLess(tag, e.tag)

(* A new entry in the future. *)
Schedule ==
  /\ UNCHANGED tag
  /\ \E e \in entries' :
       /\ entries' = entries \cup {e}
       /\ TagLess(tag, e.tag)
       /\ \A o \in entries : ~(o.trigger = e.trigger /\ o.tag = e.tag)

(* A trigger with the policy drop or replace is scheduled again. *)
Replace ==
  /\ UNCHANGED tag
  /\ \E e \in entries, f \in entries' :
       /\ entries' = (entries \ {e}) \cup {f}
       /\ f.trigger = e.trigger /\ f.tag = e.tag
       /\ TagLess(tag, e.tag)

(* An entry fires; a periodic timer enters its next firing. *)
Fire ==
  /\ UNCHANGED tag
  /\ \E e \in entries :
       /\ e.tag = tag
       /\ \/ entries' = entries \ {e}
          \/ \E f \in entries' :
               /\ f.trigger = e.trigger /\ TagLess(tag, f.tag)
               /\ entries' = (entries \ {e}) \cup {f}

Advance ==
  /\ TagLess(tag, tag')
  /\ \A e \in entries : TagLeq(tag', e.tag)
  /\ \A e \in entries : TagLess(tag, e.tag)
  /\ UNCHANGED entries

Next == Schedule \/ Replace \/ Fire \/ Advance

Spec == Init /\ [][Next]_vars
=============================================================================
