---------------------------- MODULE ParetoFront ----------------------------
(***************************************************************************)
(* A ParetoFront object and the records it has been given, in any order    *)
(* and number (src/schemaevo/optimizers/pareto.py).                        *)
(***************************************************************************)
EXTENDS Pareto

CONSTANT Candidates  \* records that may be given to the front

ASSUME CandidatesAssumption == \A c \in Candidates : IsPoint(c.point)

VARIABLES
  seen,   \* every record given to update
  front   \* _records

fvars == <<seen, front>>

FrontInit ==
  /\ seen = {}
  /\ front = {}

Offer(c) ==
  /\ seen' = seen \cup {c}
  /\ front' = Update(front, c)

FrontNext == \E c \in Candidates : Offer(c)

FrontSpec == FrontInit /\ [][FrontNext]_fvars

-----------------------------------------------------------------------------
FrontTypeOK ==
  /\ seen \subseteq Candidates
  /\ front \subseteq seen

(* No record of the front dominates another one, although update looks at  *)
(* the newcomer only.                                                      *)
Antichain ==
  \A c, d \in front : c # d => ~Dominates(c.point, d.point)

(* Nothing good is lost: every record ever given to the front is in it or  *)
(* dominated by a record that is, however long ago it was dropped.         *)
Covers ==
  \A c \in seen : c \in front \/ \E d \in front : Dominates(d.point, c.point)

(* So the front does not depend on the order of arrival: it holds every    *)
(* record that nothing else dominates, and a record of it is dominated     *)
(* only by records it ties with.                                           *)
HoldsTheBest ==
  /\ \A c \in seen :
       (\A d \in seen \ {c} : ~Dominates(d.point, c.point)) => c \in front
  /\ \A c \in front, d \in seen :
       Dominates(d.point, c.point) => Dominates(c.point, d.point)
=============================================================================
