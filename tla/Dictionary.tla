----------------------------- MODULE Dictionary -----------------------------
(***************************************************************************)
(* What a hashmap promises to its callers: a partial function from keys to *)
(* values, and the answer of every call.  The update modes are those of    *)
(* rm_hashmap_update_mode; HashMap implements this specification.          *)
(***************************************************************************)
CONSTANTS Keys, Values, Merge(_, _)
VARIABLES dict,    \* the key-value pairs
          answer   \* of the last call: was the key there, and with what value

vars == <<dict, answer>>

Modes == {"Replace", "Insert", "Set", "Merge", "InsertOrMerge"}
NotFound == [found |-> FALSE]
Found(v) == [found |-> TRUE, value |-> v]

(* What an update leaves at a key that is there. *)
Updated(old, new, mode) ==
  CASE mode \in {"Replace", "Set"} -> new
    [] mode \in {"Merge", "InsertOrMerge"} -> Merge(old, new)
    [] mode = "Insert" -> old

Inserts(mode) == mode \notin {"Replace", "Merge"}

AnswerTo(k) == IF k \in DOMAIN dict THEN Found(dict[k]) ELSE NotFound

Init == dict = << >> /\ answer = NotFound

Update(k, v, mode) ==
  dict' = IF k \in DOMAIN dict
          THEN [dict EXCEPT ![k] = Updated(@, v, mode)]
          ELSE IF Inserts(mode)
          THEN [j \in DOMAIN dict \cup {k} |-> IF j = k THEN v ELSE dict[j]]
          ELSE dict

Remove(k) == dict' = [j \in DOMAIN dict \ {k} |-> dict[j]]

Clear == dict' = << >> /\ UNCHANGED answer

Next ==
  \/ \E k \in Keys :
       \/ /\ answer' = AnswerTo(k)
          /\ \/ UNCHANGED dict        \* a lookup
             \/ \E v \in Values, mode \in Modes : Update(k, v, mode)
       \/ answer' = [found |-> k \in DOMAIN dict] /\ Remove(k)
  \/ Clear

Spec == Init /\ [][Next]_vars
=============================================================================
