------------------------------- MODULE Arrays -------------------------------
(***************************************************************************)
(* What a vector promises: it is a sequence that grows and shrinks at its  *)
(* end.  Copies do not share anything.  Vec implements this specification. *)
(***************************************************************************)
EXTENDS Integers, Sequences

CONSTANTS
  Vectors, Elements,
  Absent    \* a vector that is not initialized

VARIABLE contents   \* the sequence that each vector holds

IsLive(v) == contents[v] # Absent
Becomes(v, s) == contents' = [contents EXCEPT ![v] = s]

Init == contents = [v \in Vectors |-> Absent]

Create(v) == ~IsLive(v) /\ Becomes(v, <<>>)
Drop(v) == IsLive(v) /\ Becomes(v, Absent)
Copy(v, w) == IsLive(v) /\ ~IsLive(w) /\ Becomes(w, contents[v])

\* One element or several, at the end: whatever is pushed (VecProps!PushesAppend
\* says that it is this), what was there stays.
Extend(v) ==
  /\ IsLive(v) /\ IsLive(v)'
  /\ contents'[v] \in Seq(Elements) /\ Len(contents[v]) <= Len(contents'[v])
  /\ \A i \in DOMAIN contents[v] : contents'[v][i] = contents[v][i]
  /\ Becomes(v, contents'[v])

RemoveLast(v) ==
  /\ IsLive(v) /\ contents[v] # <<>>
  /\ Becomes(v, SubSeq(contents[v], 1, Len(contents[v]) - 1))

Replace(v) ==
  /\ IsLive(v)
  /\ \E i \in DOMAIN contents[v], e \in Elements :
       contents' = [contents EXCEPT ![v][i] = e]

Empty(v) == IsLive(v) /\ Becomes(v, <<>>)

Next ==
  \E v \in Vectors :
    \/ Create(v) \/ Drop(v) \/ Extend(v) \/ RemoveLast(v) \/ Replace(v) \/ Empty(v)
    \/ \E w \in Vectors : Copy(v, w)

Spec == Init /\ [][Next]_contents
=============================================================================
