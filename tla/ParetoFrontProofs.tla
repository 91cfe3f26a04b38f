------------------------- MODULE ParetoFrontProofs -------------------------
(***************************************************************************)
(* The front of the closed-loop search is an antichain that covers every   *)
(* record it was given, for any set of records and resources.              *)
(***************************************************************************)
EXTENDS ParetoFront, TLAPS

LEMMA DominanceIsTransitive ==
  ASSUME NEW p, NEW q, NEW r, IsPoint(p), IsPoint(q), IsPoint(r),
         Dominates(p, q), Dominates(q, r)
  PROVE  Dominates(p, r)
<1>1. /\ p.lo \in Int /\ q.lo \in Int /\ q.hi \in Int /\ r.hi \in Int
      /\ q.lo <= q.hi
  BY DEF IsPoint, Points
<1>2. p.lo >= r.hi
  BY <1>1 DEF Dominates
<1>3. ASSUME NEW x \in Resources PROVE p.use[x] <= r.use[x]
  <2>1. p.use[x] \in Int /\ q.use[x] \in Int /\ r.use[x] \in Int
    BY DEF IsPoint, Points
  <2> QED BY <2>1 DEF Dominates
<1> QED BY <1>2, <1>3 DEF Dominates

FrontInv == FrontTypeOK /\ Antichain /\ Covers

LEMMA FrontInvInit == FrontInit => FrontInv
  BY DEF FrontInit, FrontInv, FrontTypeOK, Antichain, Covers

LEMMA FrontInvNext == FrontInv /\ [FrontNext]_fvars => FrontInv'
<1> SUFFICES ASSUME FrontInv, [FrontNext]_fvars PROVE FrontInv'
  OBVIOUS
<1>1. CASE UNCHANGED fvars
  BY <1>1 DEF fvars, FrontInv, FrontTypeOK, Antichain, Covers
<1>2. ASSUME NEW c \in Candidates, Offer(c) PROVE FrontInv'
  <2>1. FrontTypeOK'
    BY <1>2 DEF Offer, Update, FrontInv, FrontTypeOK
  <2>2. CASE Rejects(front, c)
    <3>1. front' = front
      BY <1>2, <2>2 DEF Offer, Update
    <3>2. Antichain'
      BY <3>1 DEF FrontInv, Antichain
    <3>3. Covers'
      BY <1>2, <2>2, <3>1 DEF Offer, Rejects, FrontInv, Covers
    <3> QED BY <2>1, <3>2, <3>3 DEF FrontInv
  <2>3. CASE ~Rejects(front, c)
    <3>1. front' = {e \in front : ~Dominates(c.point, e.point)} \cup {c}
      BY <1>2, <2>3 DEF Offer, Update
    <3>2. ASSUME NEW e \in front, ~Dominates(c.point, e.point)
          PROVE  ~Dominates(e.point, c.point)
      BY <2>3, <3>2 DEF Rejects
    <3>3. Antichain'
      BY <3>1, <3>2 DEF FrontInv, Antichain
    <3>4. ASSUME NEW d \in seen'
          PROVE  d \in front' \/ \E e \in front' : Dominates(e.point, d.point)
      <4>1. CASE d = c
        BY <3>1, <4>1
      <4>2. CASE d \in front
        BY <3>1, <4>2
      <4>3. CASE d \in seen /\ d \notin front
        <5>1. PICK e \in front : Dominates(e.point, d.point)
          BY <4>3 DEF FrontInv, Covers
        <5>2. CASE e \in front'
          BY <5>1, <5>2
        <5>3. CASE e \notin front'
          <6>1. Dominates(c.point, e.point)
            BY <3>1, <5>3
          <6>2. IsPoint(c.point) /\ IsPoint(e.point) /\ IsPoint(d.point)
            BY <4>3, CandidatesAssumption DEF FrontInv, FrontTypeOK
          <6>3. Dominates(c.point, d.point)
            BY <5>1, <6>1, <6>2, DominanceIsTransitive
          <6> QED BY <3>1, <6>3
        <5> QED BY <5>2, <5>3
      <4> QED BY <1>2, <4>1, <4>2, <4>3 DEF Offer
    <3>5. Covers'
      BY <3>4 DEF Covers
    <3> QED BY <2>1, <3>3, <3>5 DEF FrontInv
  <2> QED BY <2>2, <2>3
<1> QED BY <1>1, <1>2 DEF FrontNext

(* Whatever is offered in whatever order, the records of a ParetoFront     *)
(* never dominate one another (update).                                    *)
THEOREM FrontIsAntichain == FrontSpec => []Antichain
<1>1. FrontSpec => []FrontInv
  BY FrontInvInit, FrontInvNext, PTL DEF FrontSpec
<1>2. FrontInv => Antichain
  BY DEF FrontInv
<1> QED BY <1>1, <1>2, PTL

(* A record that update dropped or turned away stays dominated by one that *)
(* the front holds.                                                        *)
THEOREM FrontCovers == FrontSpec => []Covers
<1>1. FrontSpec => []FrontInv
  BY FrontInvInit, FrontInvNext, PTL DEF FrontSpec
<1>2. FrontInv => Covers
  BY DEF FrontInv
<1> QED BY <1>1, <1>2, PTL

(* The front does not depend on the order of arrival, but for ties: it     *)
(* holds whatever nothing else dominates, and only that.                   *)
THEOREM FrontHoldsTheBest == FrontSpec => []HoldsTheBest
<1>1. FrontSpec => []FrontInv
  BY FrontInvInit, FrontInvNext, PTL DEF FrontSpec
<1>2. ASSUME FrontInv PROVE HoldsTheBest
  <2>1. ASSUME NEW c \in seen,
               \A d \in seen \ {c} : ~Dominates(d.point, c.point)
        PROVE  c \in front
    BY <1>2, <2>1 DEF FrontInv, FrontTypeOK, Covers
  <2>2. ASSUME NEW c \in front, NEW d \in seen, Dominates(d.point, c.point)
        PROVE  Dominates(c.point, d.point)
    <3>1. CASE d \in front
      BY <1>2, <2>2, <3>1 DEF FrontInv, Antichain
    <3>2. CASE d \notin front
      <4>1. PICK e \in front : Dominates(e.point, d.point)
        BY <1>2, <3>2 DEF FrontInv, Covers
      <4>2. IsPoint(c.point) /\ IsPoint(d.point) /\ IsPoint(e.point)
        BY <1>2, CandidatesAssumption DEF FrontInv, FrontTypeOK
      <4>3. Dominates(e.point, c.point)
        BY <2>2, <4>1, <4>2, DominanceIsTransitive
      <4>4. e = c
        BY <1>2, <4>3 DEF FrontInv, Antichain
      <4> QED BY <4>1, <4>4
    <3> QED BY <3>1, <3>2
  <2> QED BY <2>1, <2>2 DEF HoldsTheBest
<1> QED BY <1>1, <1>2, PTL
=============================================================================
