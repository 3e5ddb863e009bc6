----------------------------- MODULE MCVerifier -----------------------------
(***************************************************************************)
(* Small lists and sets of strips for model-checking the verifier.         *)
(***************************************************************************)
EXTENDS VerifierInv, SequencesExt

\* One triangle in every order of its vertices, its neighbours, a degenerated
\* one; lists with repetitions, and of four triangles.
Windings == {<<0,1,2>>, <<0,2,1>>, <<1,0,2>>, <<1,2,0>>, <<2,0,1>>, <<2,1,0>>}
Triples == Windings \cup {<<3,2,1>>, <<0,2,3>>, <<2,3,2>>}
MCLists == {<<t>> : t \in Triples} \cup (Windings \X Triples) \cup
           {<<>>, <<<<0,1,2>>, <<2,1,0>>, <<2,1,3>>>>,
            <<<<0,1,2>>, <<2,1,3>>, <<1,2,3>>, <<1,1,3>>>>,
            <<<<0,1,2>>, <<1,3,2>>, <<2,3,0>>, <<1,0,2>>>>}

\* Strips with the triangles of the lists, with more and with less, with a swap
\* and with a repeated triangle, and some too short for a triangle.
MCStrips == {<<0,1>>, <<1,0,2>>, <<2,1,3>>, <<2,3,0>>, <<0,1,2,3>>, <<0,1,2,0>>,
             <<0,1,2,1,3>>, <<0,1,2,0,1>>, <<0,1,2,3,0>>, <<0,0,1,2,3>>}
MCStripSets == SeqOf(MCStrips, 2) \cup {<<s, <<2,1,3>>, <<1,2,0>>>> : s \in MCStrips}
=============================================================================
