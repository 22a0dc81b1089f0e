---------------------------- MODULE MCReviewQueue ----------------------------
(***************************************************************************)
(* Small instances of ReviewQueue: two files that compete for one torrent. *)
(***************************************************************************)
EXTENDS ReviewQueue, TLC

AnySettings == [verify: BOOLEAN, auto: BOOLEAN]
Manual == [verify: BOOLEAN, auto: {FALSE}]
VerifiedAutomatic == [verify: {TRUE}, auto: {TRUE}]

\* Bounds.  Without verification there are two reviews, with the searches that
\* insert them and the decisions, and two threads are at work at once; with it one
\* review, with everything that checks and runs it, and three threads.
Small ==
    /\ settings.verify => Cardinality({r \in Reviews : Known(r)}) <= 1
    /\ Cardinality({m \in Matchers : picked[m] # Nothing})
           + Cardinality({a \in Actors : ~IsIdle(a)}) <= IF settings.verify THEN 3 ELSE 2

Symmetry == Permutations(Reviews) \union Permutations(Files)
            \union Permutations(Matchers) \union Permutations(Clicks)
=============================================================================
