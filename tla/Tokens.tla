------------------------------- MODULE Tokens -------------------------------
(***************************************************************************)
(* The tokens that carry payloads (reactor_common.c): their reference      *)
(* counts, the recycling bin, and the counter from which termination()     *)
(* warns of leaked tokens.  A token is the template of a trigger while the *)
(* trigger's `token' field points to it; a template is marked not ok to    *)
(* free.  The functions are operators from a store to a store, so that a   *)
(* caller can chain them as the code does.                                 *)
(***************************************************************************)
EXTENDS Integers, Sequences

CONSTANTS
  Tokens,    \* the memory for lf_token_t structs
  NULL,
  BinLimit   \* _LF_TOKEN_RECYCLING_BIN_SIZE_LIMIT

ASSUME TokensAssumption == NULL \notin Tokens /\ BinLimit \in Nat

(* value: the token has a payload. *)
TokenState == [ref_count : Nat, value : BOOLEAN, ok_to_free : BOOLEAN]

Store == [token     : [Tokens -> TokenState],
          allocated : SUBSET Tokens,   \* structs obtained from malloc
          bin       : Seq(Tokens),     \* the recycling bin, head first
          count     : Int]             \* _lf_count_token_allocations

Blank == [ref_count |-> 0, value |-> FALSE, ok_to_free |-> FALSE]

InBin(s, t) == \E i \in DOMAIN s.bin : s.bin[i] = t

(* _lf_free_token: the payload, and the struct unless it is a template. *)
FreeToken(s, t) ==
  LET v == [s EXCEPT !.token[t].value = FALSE]
      w == [v EXCEPT !.count = @ - 1]
  IN IF ~s.token[t].ok_to_free THEN v
     ELSE IF Len(s.bin) < BinLimit THEN [w EXCEPT !.bin = <<t>> \o @]
     ELSE [w EXCEPT !.allocated = @ \ {t}, !.token[t] = Blank]

(* _lf_done_using *)
DoneUsing(s, t) ==
  IF t = NULL \/ s.token[t].ref_count = 0 THEN s
  ELSE LET d == [s EXCEPT !.token[t].ref_count = @ - 1]
       IN IF d.token[t].ref_count = 0 THEN FreeToken(d, t) ELSE d

(* Faulty variant: the holder is not counted. *)
AddReferenceNone(s, t) == s

AddReference(s, t) == IF t = NULL THEN s ELSE [s EXCEPT !.token[t].ref_count = @ + 1]

(* The struct that _lf_create_token gets: the head of the bin, or malloc's   *)
(* (none when the model's memory is used up).  Which one malloc returns does *)
(* not matter.                                                               *)
NewTokens(s) ==
  IF s.bin # <<>> THEN {s.bin[1]}
  ELSE {t \in Tokens \ s.allocated : t = CHOOSE u \in Tokens \ s.allocated : TRUE}

(* create_token, with a struct of NewTokens(s). *)
CreateToken(s, t) ==
  [s EXCEPT !.bin = IF @ # <<>> THEN Tail(@) ELSE @,
            !.allocated = @ \cup {t},
            !.token[t] = [Blank EXCEPT !.ok_to_free = TRUE],
            !.count = @ + 1]

(* _lf_initialize_token: the template if it is unused, or a new token, with  *)
(* a payload; as pairs of the store and the token.                           *)
InitializeToken(s, template) ==
  {<<[u[1] EXCEPT !.token[u[2]].value = TRUE], u[2]>> :
     u \in IF s.token[template].ref_count = 0 THEN {<<s, template>>}
           ELSE {<<CreateToken(s, t), t>> : t \in NewTokens(s)}}

(* A token becomes the template of a trigger in place of an older one, which *)
(* is freed unless it is still used.                                         *)
ReplaceTemplate(s, old, new) ==
  LET freed == IF old \in {new, NULL} THEN s
               ELSE DoneUsing(AddReference([s EXCEPT !.token[old].ok_to_free = TRUE], old), old)
  IN IF new = NULL THEN freed ELSE [freed EXCEPT !.token[new].ok_to_free = FALSE]
=============================================================================
