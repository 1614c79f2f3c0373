--------------------------- MODULE MCTagExecution ---------------------------
(* Values for TLC.  ra, with a timer, writes an array for rb and rc and the  *)
(* plain port q for rd alone; rb and rc write the two channels that rf       *)
(* reads; rd writes u for re.  rb has a timer too; rd has a deadline with a  *)
(* handler, re one without.                                                  *)
EXTENDS TagExecution, TLC

CONSTANTS ra, rb, rc, rd, re, rf, arr, q, s0, s1, u

MCReactions == {ra, rb, rc, rd, re, rf}
MCPorts == {arr, q, s0, s1, u}
MCLevel == (ra :> 0) @@ (rb :> 1) @@ (rc :> 1) @@ (rd :> 1) @@ (re :> 2) @@ (rf :> 2)
MCOutputs == [r \in MCReactions |->
  CASE r = ra -> {q, arr} [] r = rb -> {s0} [] r = rc -> {s1} [] r = rd -> {u} [] OTHER -> {}]
MCReaders == (arr :> {rb, rc}) @@ (q :> {rd}) @@ (s0 :> {rf}) @@ (s1 :> {rf}) @@ (u :> {re})
MCVisits == [r \in MCReactions |->
  CASE r = ra -> <<<<q, rd>>, <<arr, rb>>, <<arr, rc>>>> [] r = rb -> <<<<s0, rf>>>>
    [] r = rc -> <<<<s1, rf>>>> [] r = rd -> <<<<u, re>>>> [] OTHER -> <<>>]
MCLastEnabling == [r \in MCReactions |-> IF r = rd THEN ra ELSE IF r = re THEN rd ELSE NULL]
MCBefore == (ra :> {}) @@ (rb :> {ra}) @@ (rc :> {ra}) @@ (rd :> {ra}) @@ (re :> {rd})
            @@ (rf :> {rb, rc})
MCChannel == [x \in MCPorts |-> IF x = s0 THEN 0 ELSE IF x = s1 THEN 1 ELSE -1]
MCDestinations == [x \in MCPorts |-> IF x = arr THEN 2 ELSE 0]
MCMaxWrites == [x \in MCPorts |-> IF x = u THEN 2 ELSE 1]
OneMutable == [r \in MCReactions |-> IF r = rb THEN arr ELSE NULL]
TwoMutable == [r \in MCReactions |-> IF r \in {rb, rc} THEN arr ELSE NULL]

Symmetry == Permutations(Workers)
=============================================================================
