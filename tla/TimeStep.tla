------------------------------ MODULE TimeStep ------------------------------
(***************************************************************************)
(* The ports during a time step: what a reaction does to write one         *)
(* (_lf_set_present, with or without a token), the writable copy a mutable *)
(* input makes, and _lf_start_time_step, which resets them all.  Reactions *)
(* run in several workers without the mutex: every access to a variable    *)
(* they share is a step.  The atomics of lf_xmos_support.c make one access *)
(* of a fetch-and-add.                                                     *)
(*                                                                         *)
(* The macros that write a port and the code around a mutable input are    *)
(* generated (external); a token port is written once in a time step.      *)
(***************************************************************************)
EXTENDS Tokens, SequencesExt

CONSTANTS
  Workers,
  Ports,         \* the outputs of the program; one present field each
  Channel,       \* Channel[p]: destination_channel of p in the one sparse
                 \* record, or -1
  Capacity,      \* the length of its present_channels
  Destinations   \* Destinations[p]: the inputs p's token goes to, 0 for a
                 \* port without a token

ASSUME PortsAssumption ==
  /\ NULL \notin Ports \cup Workers /\ IsFiniteSet(Ports)
  /\ Channel \in [Ports -> Nat \cup {-1}]
  /\ Capacity \in Nat /\ Destinations \in [Ports -> Nat]

VARIABLES
  is_present,        \* the ports whose is_present is true
  abbreviated,       \* _lf_is_present_fields_abbreviated
  abbreviated_size,
  record_size,       \* sparse_record->size
  channels,          \* sparse_record->present_channels
  port_token,        \* port_token[p]: p's token
  more_tokens,       \* _lf_more_tokens_with_ref_count, head first
  store,             \* the tokens
  at,                \* at[w]: where worker w is
  port, index,       \* the port w writes, and the index it got for it
  tally,             \* tally[w]: the number of allocations, as w read it
  head,              \* head[w]: the head of the bin, as w read it
  copy               \* copy[w]: the writable token of w's reaction

presence == <<is_present, abbreviated, abbreviated_size>>
record == <<record_size, channels>>
tokenVars == <<port_token, more_tokens, store>>
copyVars == <<tally, head, copy>>
locals == <<port, index, copyVars>>
portVars == <<presence, record, tokenVars, locals>>

FieldsSize == Cardinality(Ports)   \* _lf_is_present_fields_size
TokenPorts == {p \in Ports : Destinations[p] > 0}

PresenceTypeOK ==
  /\ is_present \subseteq Ports
  /\ abbreviated \in [0 .. FieldsSize - 1 -> Ports \cup {NULL}]
  /\ abbreviated_size \in Nat
  /\ record_size \in Nat \cup {-1}
  /\ channels \in [0 .. Capacity - 1 -> Nat \cup {NULL}]
  /\ port \in [Workers -> Ports \cup {NULL}] /\ index \in [Workers -> Int]

TokensTypeOK ==
  /\ port_token \in [TokenPorts -> Tokens]
  /\ more_tokens \in Seq(Tokens)
  /\ store \in Store /\ tally \in [Workers -> Int]
  /\ head \in [Workers -> Tokens \cup {NULL}] /\ copy \in [Workers -> Tokens \cup {NULL}]

(* Each token port has a template of its own. *)
PortsInit ==
  /\ is_present = {} /\ abbreviated_size = 0
  /\ abbreviated = [i \in 0 .. FieldsSize - 1 |-> NULL]
  /\ record_size = 0 /\ channels = [i \in 0 .. Capacity - 1 |-> NULL]
  /\ port_token = CHOOSE f \in [TokenPorts -> Tokens] :
                    \A p, q \in TokenPorts : f[p] = f[q] => p = q
  /\ more_tokens = <<>>
  /\ store = [token |-> [t \in Tokens |-> Blank],
              allocated |-> {port_token[p] : p \in TokenPorts},
              bin |-> <<>>, count |-> 0]
  /\ port = [w \in Workers |-> NULL] /\ index = [w \in Workers |-> 0]
  /\ tally = [w \in Workers |-> 0]
  /\ head = [w \in Workers |-> NULL] /\ copy = [w \in Workers |-> NULL]

Goto(w, from, to) == at[w] = from /\ at' = [at EXCEPT ![w] = to]

-----------------------------------------------------------------------------
(* Writing the port p *)

(* Faulty variant: reading and adding are two accesses, and another worker   *)
(* comes between them.                                                       *)
CountPresentTorn(w, p) ==
  /\ Goto(w, "body", "mark")
  /\ \E i \in {abbreviated_size} \cup
              {abbreviated_size - 1 : v \in {u \in Workers \ {w} : at[u] = "mark"}} :
       index' = [index EXCEPT ![w] = i] /\ abbreviated_size' = i + 1
  /\ port' = [port EXCEPT ![w] = p]
  /\ UNCHANGED <<is_present, abbreviated, record, tokenVars, copyVars>>

(* lf_atomic_fetch_add on the number of present fields. *)
CountPresent(w, p) ==
  /\ Goto(w, "body", "mark")
  /\ index' = [index EXCEPT ![w] = abbreviated_size]
  /\ abbreviated_size' = abbreviated_size + 1
  /\ port' = [port EXCEPT ![w] = p]
  /\ UNCHANGED <<is_present, abbreviated, record, tokenVars, copyVars>>

(* The slot is this worker's alone, and so is the port. *)
Mark(w) ==
  /\ Goto(w, "mark", IF Channel[port[w]] >= 0 /\ record_size >= 0 THEN "sparse" ELSE "written")
  /\ abbreviated' = IF index[w] < FieldsSize THEN [abbreviated EXCEPT ![index[w]] = port[w]]
                    ELSE abbreviated
  /\ is_present' = is_present \cup {port[w]}
  /\ UNCHANGED <<abbreviated_size, record, tokenVars, locals>>

CountChannel(w) ==
  /\ Goto(w, "sparse", "channel")
  /\ index' = [index EXCEPT ![w] = record_size]
  /\ record_size' = record_size + 1
  /\ UNCHANGED <<presence, channels, tokenVars, port, copyVars>>

(* -1 makes the readers look at every channel.  An index below 0 writes      *)
(* before the array.                                                         *)
StoreChannel(w) ==
  /\ Goto(w, "channel", "written")
  /\ IF index[w] >= Capacity THEN record_size' = -1 /\ UNCHANGED channels
     ELSE /\ UNCHANGED record_size
          /\ channels' = IF index[w] >= 0 THEN [channels EXCEPT ![index[w]] = Channel[port[w]]]
                         ELSE channels
  /\ UNCHANGED <<presence, tokenVars, locals>>

(* _lf_set_new_array_impl, on a template that nobody uses any more. *)
SetToken(w) ==
  /\ Goto(w, "written", "body")
  /\ LET p == port[w]
     IN IF p \notin TokenPorts THEN UNCHANGED tokenVars
        ELSE \E s \in InitializeToken(store, port_token[p]) :
               /\ store' = [s[1] EXCEPT !.token[s[2]].ref_count = Destinations[p]]
               /\ port_token' = [port_token EXCEPT ![p] = s[2]]
               /\ UNCHANGED more_tokens
  /\ port' = [port EXCEPT ![w] = NULL] /\ index' = [index EXCEPT ![w] = 0]
  /\ UNCHANGED <<presence, record, copyVars>>

-----------------------------------------------------------------------------
(* writable_copy, for a mutable input that gets the token of p *)

(* Faulty variant: the token of two destinations is taken for a private one. *)
TestCopyShared(w, p) ==
  /\ Goto(w, "copy", "body")
  /\ copy' = [copy EXCEPT ![w] = port_token[p]]
  /\ UNCHANGED <<presence, record, tokenVars, port, index, tally, head>>

(* With one reference the token itself is writable.  Otherwise an empty      *)
(* payload gives nothing to write, and any other is copied: create_token     *)
(* counts the allocation, which is a read and a write.                       *)
TestCopy(w, p) ==
  /\ at[w] = "copy"
  /\ IF store.token[port_token[p]].ref_count = 1
     THEN /\ Goto(w, "copy", "body")
          /\ copy' = [copy EXCEPT ![w] = port_token[p]]
          /\ UNCHANGED tally
     ELSE \/ Goto(w, "copy", "body") /\ UNCHANGED <<copy, tally>>
          \/ /\ Goto(w, "copy", "count")
             /\ tally' = [tally EXCEPT ![w] = store.count]
             /\ UNCHANGED copy
  /\ UNCHANGED <<presence, record, tokenVars, port, index, head>>

CountCopy(w) ==
  /\ Goto(w, "count", "peek")
  /\ store' = [store EXCEPT !.count = tally[w] + 1]
  /\ tally' = [tally EXCEPT ![w] = 0]
  /\ UNCHANGED <<presence, record, port_token, more_tokens, port, index, head, copy>>

(* _lf_create_token reads the head of the bin, *)
PeekBin(w) ==
  /\ Goto(w, "peek", "pop")
  /\ head' = [head EXCEPT ![w] = IF store.bin = <<>> THEN NULL ELSE Head(store.bin)]
  /\ UNCHANGED <<presence, record, tokenVars, port, index, tally, copy>>

(* The bin after its head h is unlinked: what follows h, unless another pop  *)
(* has taken h meanwhile and perhaps cleared its next_free.                  *)
Unlinked(bin, h) ==
  IF bin # <<>> /\ Head(bin) = h THEN {Tail(bin)} ELSE {bin, <<>>}

(* and takes it, or a struct from malloc.  The generated code puts the copy  *)
(* on the list of the time step.                                             *)
PopCopy(w) ==
  /\ Goto(w, "pop", "body")
  /\ \E t \in IF head[w] # NULL THEN {head[w]} ELSE Tokens \ store.allocated :
       /\ head[w] = NULL => t = CHOOSE u \in Tokens \ store.allocated : TRUE
       /\ \E b \in IF head[w] # NULL THEN Unlinked(store.bin, t) ELSE {store.bin} :
            store' = [store EXCEPT !.bin = b, !.allocated = @ \cup {t},
                        !.token[t] = [ref_count |-> 1, value |-> TRUE, ok_to_free |-> TRUE]]
       /\ more_tokens' = <<t>> \o more_tokens
       /\ copy' = [copy EXCEPT ![w] = t]
  /\ head' = [head EXCEPT ![w] = NULL]
  /\ UNCHANGED <<presence, record, port_token, port, index, tally>>

-----------------------------------------------------------------------------
(* _lf_start_time_step *)

(* Each input that p's token went to is done with it: an entry of            *)
(* _lf_tokens_with_ref_count.                                                *)
PortDone(p, s) == FoldLeft(DoneUsing, s, [i \in 1 .. Destinations[p] |-> port_token[p]])

(* Faulty variant: the copies of mutable inputs are forgotten. *)
CopiesForgotten(s) == s

CopiesDone(s) == FoldLeft(DoneUsing, s, more_tokens)

(* The ports whose fields are cleared: the list, or all if it overflowed.    *)
Cleared ==
  IF abbreviated_size > FieldsSize THEN Ports
  ELSE {abbreviated[i] : i \in 0 .. abbreviated_size - 1}

StartTimeStep ==
  /\ store' = CopiesDone(FoldSet(PortDone, store, is_present \cap TokenPorts))
  /\ is_present' = is_present \ Cleared
  /\ abbreviated_size' = 0 /\ record_size' = 0
  /\ more_tokens' = <<>>
  /\ UNCHANGED <<abbreviated, channels, port_token, locals>>
=============================================================================
