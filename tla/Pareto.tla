------------------------------- MODULE Pareto -------------------------------
(***************************************************************************)
(* The order and the update of the Pareto front of the closed-loop search  *)
(* (src/schemaevo/optimizers/pareto.py).  A result is a point: a           *)
(* confidence interval for the score, lo to hi, and what it uses of each   *)
(* resource, of which less is better.  Points are compared as intervals:   *)
(* one point beats another on score when its whole interval is above, or   *)
(* when the two intervals touch.                                           *)
(***************************************************************************)
EXTENDS Integers

CONSTANT Resources  \* cost, tokens, invalid outputs and latency

Points == [lo: Int, hi: Int, use: [Resources -> Int]]

(* Scores are bounded by their confidence interval.                        *)
IsPoint(p) == p \in Points /\ p.lo <= p.hi

(* _dominates.  Its last conjunct, "score_separated or                     *)
(* strictly_better_non_score", follows from the first and says nothing:    *)
(* two equal points whose intervals have no width dominate each other.     *)
Dominates(p, q) ==
  /\ p.lo >= q.hi
  /\ \A r \in Resources : p.use[r] <= q.use[r]

(* ParetoFront.update: the loop over the front drops what the newcomer     *)
(* dominates and returns, changing nothing, at the first record that       *)
(* dominates the newcomer and is not dominated by it.                      *)
Rejects(F, c) ==
  \E e \in F : Dominates(e.point, c.point) /\ ~Dominates(c.point, e.point)

(* An update that keeps what the newcomer dominates.                       *)
UpdateAppends(F, c) == IF Rejects(F, c) THEN F ELSE F \cup {c}

(* An update in which two records that tie remove each other.              *)
UpdateDropsTies(F, c) ==
  {e \in F : ~Dominates(c.point, e.point)}
    \cup (IF \E e \in F : Dominates(e.point, c.point) THEN {} ELSE {c})

Update(F, c) ==
  IF Rejects(F, c)
  THEN F
  ELSE {e \in F : ~Dominates(c.point, e.point)} \cup {c}
=============================================================================
