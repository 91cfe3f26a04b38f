-------------------------- MODULE ClosedLoopProofs --------------------------
(***************************************************************************)
(* The closed-loop search pays for a schema once and stays within its      *)
(* rollouts, passes its call cap at the baseline only, promotes in the     *)
(* order of its ranking, and offers both fronts every record it makes, for *)
(* all schemas, populations, budgets and promotion fractions.              *)
(***************************************************************************)
EXTENDS ClosedLoop, FiniteSetTheorems, TLAPS

-----------------------------------------------------------------------------
(* What is evaluated *)

(* The limits of the search are within those of the run.                   *)
LEMMA LimitsNested ==
  /\ SearchLimit \in Nat \ {0} /\ SearchLimit <= MaxRollouts
  /\ MutationLimit \in Nat /\ MutationLimit <= SearchLimit
<1>1. MaxRollouts \in Nat /\ MaxRollouts >= 1
  BY ConfigAssumption
<1>2. Fraction(MaxRollouts) \in Int /\ Fraction(MaxRollouts) >= 1
  <2>1. (MaxRollouts * PromoteNum) \div PromoteDen \in Int
    BY ConfigAssumption
  <2> QED BY <2>1 DEF Fraction, AtLeastOne
<1>3. SearchLimit \in Nat \ {0} /\ SearchLimit <= MaxRollouts
  BY <1>1, <1>2 DEF SearchLimit, AtLeastOne
<1>4. MutationLimit \in Nat /\ MutationLimit <= SearchLimit
  BY <1>3 DEF MutationLimit, AtLeastOne
<1> QED BY <1>3, <1>4

Stages == {"baseline", "initial", "mutate", "merge", "promotion", "promote"}
            \cup Final

(* The stages before the promotion.                                        *)
Searching == {"baseline", "initial", "mutate", "merge", "promotion"}

(* Records of one schema are one record.                                   *)
OneEach(S) == \A r, q \in S : r.schema = q.schema => r = q

(* One rollout for every record.                                           *)
RolloutsBalance ==
  /\ IsFiniteSet(evaluated) /\ IsFiniteSet(promoted)
  /\ rollouts = Cardinality(evaluated) + Cardinality(promoted)
  /\ rollouts <= MaxRollouts
  /\ Cardinality(evaluated) <= SearchLimit

(* The population is read from its beginning: what is searched so far is   *)
(* behind its position.                                                    *)
PopulationBehind ==
  /\ next \in Nat \ {0}
  /\ stage \in {"baseline", "initial"} =>
       \A r \in evaluated :
         \E i \in 1 .. Len(Population) : i < next /\ r.schema = Population[i]

(* The promotion takes records of the search out of its queue, and never   *)
(* gets back to a schema it has promoted.                                  *)
QueueFresh ==
  /\ stage \in Searching => queue = {} /\ promoted = {}
  /\ queue \subseteq evaluated
  /\ \A r \in promoted : r.schema \in Searched
  /\ \A r \in queue, p \in promoted : r.schema # p.schema

Paid ==
  /\ stage \in Stages
  /\ OneEach(evaluated)
  /\ OneEach(promoted)
  /\ RolloutsBalance
  /\ PopulationBehind
  /\ QueueFresh

(* A record of a schema that has none yet.                                 *)
LEMMA NewRecord ==
  ASSUME NEW S, NEW r, IsFiniteSet(S), OneEach(S),
         \A q \in S : q.schema # r.schema
  PROVE  /\ IsFiniteSet(S \cup {r}) /\ OneEach(S \cup {r})
         /\ Cardinality(S \cup {r}) = Cardinality(S) + 1
<1>1. r \notin S
  OBVIOUS
<1> QED BY <1>1, FS_AddElement DEF OneEach

(* What an evaluation of the search does to the accounts, while there are  *)
(* rollouts left and the schema is new.                                    *)
LEMMA PaidConsider ==
  ASSUME Paid, stage \in Searching, rollouts < SearchLimit,
         NEW s, s \notin Searched, NEW x, Consider(s, x),
         UNCHANGED promoted
  PROVE  /\ OneEach(evaluated') /\ OneEach(promoted')
         /\ RolloutsBalance'
         /\ \/ evaluated' = evaluated
            \/ \E o \in Scores : evaluated' = evaluated \cup {Record(s, x, o)}
<1>0. SearchLimit' = SearchLimit /\ MaxRollouts' = MaxRollouts
  OBVIOUS
<1>1. CASE UNCHANGED <<evaluated, rollouts>>
  BY <1>1, <1>0 DEF Paid, RolloutsBalance, OneEach
<1>2. CASE \E o \in Scores : /\ evaluated' = evaluated \cup {Record(s, x, o)}
                             /\ rollouts' = rollouts + 1
  <2>1. PICK o \in Scores : /\ evaluated' = evaluated \cup {Record(s, x, o)}
                            /\ rollouts' = rollouts + 1
    BY <1>2
  <2>2. \A q \in evaluated : q.schema # Record(s, x, o).schema
    BY DEF Record, Searched
  <2>3. /\ IsFiniteSet(evaluated') /\ OneEach(evaluated')
        /\ Cardinality(evaluated') = Cardinality(evaluated) + 1
    BY <2>1, <2>2, NewRecord DEF Paid, RolloutsBalance
  <2>4. promoted = {} /\ Cardinality(promoted) = 0
    BY FS_EmptySet DEF Paid, QueueFresh
  <2>5. Cardinality(evaluated) \in Nat
    BY FS_CardinalityType DEF Paid, RolloutsBalance
  <2>6. RolloutsBalance'
    BY <1>0, <2>1, <2>3, <2>4, <2>5, LimitsNested, ConfigAssumption
       DEF Paid, RolloutsBalance
  <2> QED BY <2>1, <2>3, <2>4, <2>6 DEF OneEach
<1>3. QED BY <1>1, <1>2 DEF Consider

LEMMA PaidInit == Init => Paid
<1> SUFFICES ASSUME Init PROVE Paid
  OBVIOUS
<1>1. Cardinality({}) = 0 /\ IsFiniteSet({})
  BY FS_EmptySet
<1>2. RolloutsBalance
  BY <1>1, LimitsNested, ConfigAssumption DEF Init, RolloutsBalance
<1> QED BY <1>2 DEF Init, Paid, Stages, Searching, OneEach, PopulationBehind,
                    QueueFresh

(* The population has no schema twice.                                     *)
LEMMA PaidConsiderInitial == Paid /\ ConsiderInitial => Paid'
<1> SUFFICES ASSUME Paid, ConsiderInitial PROVE Paid'
  OBVIOUS
<1> DEFINE s == Population[next]
<1>1. /\ stage = "initial" /\ stage' = "initial" /\ stage \in Searching
      /\ next \in 1 .. Len(Population) /\ next' = next + 1
      /\ rollouts < SearchLimit /\ UNCHANGED <<queue, promoted>>
      /\ Consider(s, "stage")
  BY SchemasAssumption
     DEF ConsiderInitial, InitialOpen, promotion, Paid, PopulationBehind, Searching
<1>2. s \notin Searched
  <2>1. \A i \in 1 .. Len(Population) : i < next => Population[i] # s
    BY <1>1, SchemasAssumption
  <2> QED BY <1>1, <2>1 DEF Paid, PopulationBehind, Searched
<1>3. /\ OneEach(evaluated') /\ OneEach(promoted') /\ RolloutsBalance'
      /\ \/ evaluated' = evaluated
         \/ \E o \in Scores : evaluated' = evaluated \cup {Record(s, "stage", o)}
  BY <1>1, <1>2, PaidConsider
<1>4. PopulationBehind'
  <2>1. \A r \in evaluated' : r \in evaluated \/ r.schema = s
    BY <1>3 DEF Record
  <2>2. ASSUME NEW r \in evaluated'
        PROVE  \E i \in 1 .. Len(Population) :
                 i < next' /\ r.schema = Population[i]
    <3>1. CASE r \in evaluated
      BY <1>1, <3>1 DEF Paid, PopulationBehind
    <3>2. CASE r.schema = s
      BY <1>1, <3>2
    <3> QED BY <2>1, <3>1, <3>2
  <2> QED BY <1>1, <2>2 DEF PopulationBehind
<1>5. QueueFresh'
  BY <1>1 DEF Paid, QueueFresh, Searching
<1> QED BY <1>1, <1>3, <1>4, <1>5 DEF Paid, Stages

(* A child that was evaluated is a duplicate.                              *)
LEMMA PaidMutate == Paid /\ Mutate => Paid'
<1> SUFFICES ASSUME Paid, Mutate PROVE Paid'
  OBVIOUS
<1>1. /\ stage = "mutate" /\ stage' = "mutate" /\ stage \in Searching
      /\ rollouts < SearchLimit /\ UNCHANGED <<next, queue, promoted>>
  <2>1. rollouts < MutationLimit /\ rollouts \in Nat
    BY FS_CardinalityType DEF Mutate, MutationOpen, Paid, RolloutsBalance
  <2> QED BY <2>1, LimitsNested DEF Mutate, promotion, Searching
<1>2. OneEach(evaluated') /\ OneEach(promoted') /\ RolloutsBalance'
  <2>1. CASE UNCHANGED <<used, evaluated, front, rollouts>>
    BY <1>1, <2>1 DEF Paid, RolloutsBalance, OneEach
  <2>2. CASE \E parent \in evaluated :
               \E child \in Mutants[parent.schema] \ Searched :
                 Consider(child, MutationBatch)
    BY <1>1, <2>2, PaidConsider
  <2> QED BY <2>1, <2>2 DEF Mutate
<1>3. PopulationBehind' /\ QueueFresh'
  BY <1>1 DEF Paid, PopulationBehind, QueueFresh, Searching
<1> QED BY <1>1, <1>2, <1>3 DEF Paid, Stages

(* A merge that is known is not evaluated.                                 *)
LEMMA PaidMerge == Paid /\ Merge => Paid'
<1> SUFFICES ASSUME Paid, Merge PROVE Paid'
  OBVIOUS
<1>1. /\ stage = "merge" /\ stage' = "promotion" /\ stage \in Searching
      /\ UNCHANGED <<next, queue, promoted>>
  BY DEF Merge, promotion, Searching
<1>2. OneEach(evaluated') /\ OneEach(promoted') /\ RolloutsBalance'
  <2>1. CASE UNCHANGED <<used, evaluated, front, rollouts>>
    BY <1>1, <2>1 DEF Paid, RolloutsBalance, OneEach
  <2>2. CASE rollouts < SearchLimit
             /\ \E m \in Merges : m \notin Searched /\ Consider(m, "stage")
    BY <1>1, <2>2, PaidConsider
  <2> QED BY <2>1, <2>2 DEF Merge
<1>3. PopulationBehind' /\ QueueFresh'
  BY <1>1 DEF Paid, PopulationBehind, QueueFresh, Searching
<1> QED BY <1>1, <1>2, <1>3 DEF Paid, Stages

(* What is chosen for the promotion are records of the search.             *)
LEMMA PaidStartPromotion == Paid /\ StartPromotion => Paid'
<1> SUFFICES ASSUME Paid, StartPromotion PROVE Paid'
  OBVIOUS
<1>1. /\ stage = "promotion" /\ stage' = "promote"
      /\ UNCHANGED <<next, rollouts, evaluated, promoted>>
      /\ promoted = {} /\ queue = {}
  BY DEF StartPromotion, search, Paid, QueueFresh, Searching
<1>2. queue' \subseteq evaluated
  <2>1. Promotions \subseteq evaluated
    BY DEF Promotions, First
  <2> QED BY <1>1, <2>1 DEF StartPromotion
<1>3. QueueFresh'
  BY <1>1, <1>2 DEF QueueFresh, Searching
<1> QED BY <1>1, <1>3 DEF Paid, Stages, OneEach, RolloutsBalance, PopulationBehind

(* One record leaves the queue, and is the only one of its schema there.   *)
LEMMA PaidPromote == Paid /\ Promote => Paid'
<1> SUFFICES ASSUME Paid, Promote PROVE Paid'
  OBVIOUS
<1>1. /\ stage = "promote" /\ stage' = "promote"
      /\ rollouts < MaxRollouts /\ UNCHANGED <<next, evaluated>>
  BY DEF Promote, PromotionOpen, search
<1>2. PICK r \in queue :
        /\ queue' = queue \ {r}
        /\ \/ UNCHANGED <<promoted, rollouts>>
           \/ \E o \in Scores :
                /\ promoted' = promoted \cup {Record(r.schema, "full", o)}
                /\ rollouts' = rollouts + 1
  BY DEF Promote
<1>3. PopulationBehind' /\ OneEach(evaluated')
  BY <1>1 DEF Paid, PopulationBehind, OneEach
<1>4. CASE UNCHANGED <<promoted, rollouts>>
  BY <1>1, <1>2, <1>3, <1>4
     DEF Paid, Stages, OneEach, RolloutsBalance, QueueFresh, Searching, Searched
<1>5. CASE \E o \in Scores :
             /\ promoted' = promoted \cup {Record(r.schema, "full", o)}
             /\ rollouts' = rollouts + 1
  <2>1. PICK o \in Scores :
          /\ promoted' = promoted \cup {Record(r.schema, "full", o)}
          /\ rollouts' = rollouts + 1
    BY <1>5
  <2> DEFINE new == Record(r.schema, "full", o)
  <2>2. new.schema = r.schema
    BY DEF Record
  <2> HIDE DEF new
  <2>3. \A q \in promoted : q.schema # new.schema
    BY <2>2 DEF Paid, QueueFresh
  <2>4. /\ IsFiniteSet(promoted') /\ OneEach(promoted')
        /\ Cardinality(promoted') = Cardinality(promoted) + 1
    BY <2>1, <2>3, NewRecord DEF Paid, RolloutsBalance, new
  <2>5. Cardinality(promoted) \in Nat /\ Cardinality(evaluated) \in Nat
    BY FS_CardinalityType DEF Paid, RolloutsBalance
  <2>6. RolloutsBalance'
    BY <1>1, <2>1, <2>4, <2>5, ConfigAssumption DEF Paid, RolloutsBalance
  <2>7. QueueFresh'
    <3>1. r \in evaluated /\ queue' \subseteq evaluated'
      BY <1>1, <1>2 DEF Paid, QueueFresh
    <3>2. \A q \in queue' : q.schema # r.schema
      BY <1>2, <3>1 DEF Paid, QueueFresh, OneEach
    <3>3. \A p \in promoted' : p \in promoted \/ p.schema = r.schema
      BY <2>1, <2>2 DEF new
    <3>4. \A p \in promoted' : p.schema \in Searched'
      BY <1>1, <3>1, <3>3 DEF Paid, QueueFresh, Searched
    <3>5. \A q \in queue', p \in promoted' : q.schema # p.schema
      BY <1>2, <3>2, <3>3 DEF Paid, QueueFresh
    <3> QED BY <1>1, <3>1, <3>4, <3>5 DEF QueueFresh, Searching
  <2> QED BY <1>1, <1>3, <2>4, <2>6, <2>7 DEF Paid, Stages
<1> QED BY <1>2, <1>4, <1>5

(* Every step; those not treated above pay for nothing.                    *)
LEMMA PaidNext == Paid /\ [Next]_vars => Paid'
<1> SUFFICES ASSUME Paid, [Next]_vars PROVE Paid'
  OBVIOUS
<1> USE DEF Paid, Stages, Searching, Final, OneEach, RolloutsBalance,
            PopulationBehind, QueueFresh, Searched
<1>1. CASE Baseline BY <1>1 DEF Baseline, search, promotion
<1>2. CASE ConsiderInitial BY <1>2, PaidConsiderInitial
<1>3. CASE InitialEnd BY <1>3 DEF InitialEnd, search, promotion
<1>4. CASE Mutate BY <1>4, PaidMutate
<1>5. CASE MutateEnd BY <1>5 DEF MutateEnd, search, promotion
<1>6. CASE Merge BY <1>6, PaidMerge
<1>7. CASE StartPromotion BY <1>7, PaidStartPromotion
<1>8. CASE Promote BY <1>8, PaidPromote
<1>9. CASE Finish BY <1>9 DEF Finish, search, promotion
<1>10. CASE Raise BY <1>10 DEF Raise, search, promotion
<1>11. CASE UNCHANGED vars BY <1>11 DEF vars
<1>12. QED BY <1>1, <1>2, <1>3, <1>4, <1>5, <1>6, <1>7, <1>8, <1>9, <1>10,
              <1>11 DEF Next, Step, Returned

(* No schema is paid for twice by the search or by the promotion, there is *)
(* a rollout for every record, and max_program_rollouts is never passed.   *)
THEOREM SchemasPaidOnce == Spec => []NeverPaidTwice
<1>1. Paid => NeverPaidTwice
  BY DEF Paid, NeverPaidTwice, OneEach, RolloutsBalance, QueueFresh
<1>2. QED BY <1>1, PaidInit, PaidNext, PTL DEF Spec

-----------------------------------------------------------------------------
(* Which records there are *)

SearchRecords == Records("stage") \cup Records("sample")

(* The search has records of the batches it evaluates on, the promotion    *)
(* those of the full batch.                                                *)
Recorded ==
  /\ next \in Nat \ {0}
  /\ evaluated \subseteq SearchRecords
  /\ queue \subseteq evaluated
  /\ promoted \subseteq Records("full")

(* An evaluation of the search offers its front the record it keeps.       *)
LEMMA RecordedConsider ==
  ASSUME Recorded, NEW s \in Schemas, NEW x \in {"stage", "sample"},
         Consider(s, x), UNCHANGED <<queue, promoted>>, next' \in Nat \ {0}
  PROVE  Recorded' /\ [SearchFront!FrontNext]_SearchFront!fvars
<1>1. CASE UNCHANGED <<evaluated, front>>
  BY <1>1 DEF Recorded, SearchFront!fvars, SearchRecords
<1>2. CASE \E o \in Scores :
             /\ evaluated' = evaluated \cup {Record(s, x, o)}
             /\ front' = Update(front, Record(s, x, o))
  <2>1. PICK o \in Scores :
          /\ evaluated' = evaluated \cup {Record(s, x, o)}
          /\ front' = Update(front, Record(s, x, o))
    BY <1>2
  <2>2. Record(s, x, o) \in SearchRecords
    BY DEF SearchRecords, Records
  <2>3. SearchFront!FrontNext
    BY <2>1, <2>2
       DEF SearchFront!FrontNext, SearchFront!Offer, SearchFront!Update,
           SearchFront!Rejects, SearchFront!Dominates, Update, Rejects,
           Dominates, SearchRecords
  <2> QED BY <2>1, <2>2, <2>3 DEF Recorded
<1> QED BY <1>1, <1>2 DEF Consider

(* What a step does to the records and to the budget: an evaluation of the *)
(* search, or nothing.                                                     *)
SearchEvaluation ==
  /\ \E s \in Schemas, x \in {"stage", "sample"} :
       Consider(s, x) /\ (SharedBatch => x = "stage")
  /\ UNCHANGED <<limits, queue, promoted, promotedFront>>
  /\ next' \in Nat \ {0}
  /\ stage \in Searching /\ stage' # "baseline"

NoEvaluation ==
  /\ UNCHANGED <<limits, used, evaluated, front, queue, promoted, promotedFront>>
  /\ next' \in Nat \ {0}
  /\ stage' = "baseline" => stage = "baseline"

LEMMA KindOfStep ==
  Recorded /\ [Next]_vars =>
    SearchEvaluation \/ NoEvaluation \/ Baseline \/ StartPromotion \/ Promote
<1> SUFFICES ASSUME Recorded, [Next]_vars,
                    ~Baseline, ~StartPromotion, ~Promote
             PROVE  SearchEvaluation \/ NoEvaluation
  OBVIOUS
<1> USE DEF promotion, Searching
<1>0. next \in Nat \ {0} /\ next + 1 \in Nat \ {0}
  BY DEF Recorded
<1>1. ASSUME ConsiderInitial PROVE SearchEvaluation
  <2>1. Population[next] \in Schemas
    BY <1>0, <1>1, SchemasAssumption DEF ConsiderInitial, InitialOpen
  <2> QED BY <1>0, <1>1, <2>1 DEF ConsiderInitial, SearchEvaluation
<1>2. ASSUME Mutate PROVE SearchEvaluation \/ NoEvaluation
  <2>1. CASE UNCHANGED <<used, evaluated, front, rollouts>>
    BY <1>0, <1>2, <2>1 DEF Mutate, NoEvaluation
  <2>2. CASE \E parent \in evaluated :
               \E child \in Mutants[parent.schema] \ Searched :
                 Consider(child, MutationBatch)
    <3>1. PICK parent \in evaluated :
                 \E child \in Mutants[parent.schema] \ Searched :
                   Consider(child, MutationBatch)
      BY <2>2
    <3>2. parent.schema \in Schemas
      BY DEF Recorded, SearchRecords, Records, Record
    <3>3. Mutants[parent.schema] \subseteq Schemas
      BY <3>2, SchemasAssumption
    <3>4. /\ MutationBatch \in {"stage", "sample"}
          /\ SharedBatch => MutationBatch = "stage"
      BY DEF MutationBatch
    <3>5. \E s \in Schemas, x \in {"stage", "sample"} :
            Consider(s, x) /\ (SharedBatch => x = "stage")
      BY <3>1, <3>3, <3>4
    <3> QED BY <1>0, <1>2, <3>5 DEF Mutate, SearchEvaluation
  <2> QED BY <1>2, <2>1, <2>2 DEF Mutate
<1>3. ASSUME Merge PROVE SearchEvaluation \/ NoEvaluation
  <2>1. CASE UNCHANGED <<used, evaluated, front, rollouts>>
    BY <1>0, <1>3, <2>1 DEF Merge, NoEvaluation
  <2>2. CASE \E m \in Merges : Consider(m, "stage")
    BY <1>0, <1>3, <2>2, SchemasAssumption DEF Merge, SearchEvaluation
  <2> QED BY <1>3, <2>1, <2>2 DEF Merge
<1>4. ASSUME InitialEnd \/ MutateEnd \/ Finish \/ Raise
      PROVE  NoEvaluation
  BY <1>0, <1>4 DEF InitialEnd, MutateEnd, Finish, Raise, Final, search,
                    NoEvaluation
<1>5. ASSUME UNCHANGED vars PROVE NoEvaluation
  BY <1>0, <1>5 DEF vars, NoEvaluation
<1> QED BY <1>1, <1>2, <1>3, <1>4, <1>5 DEF Next, Step, Returned

(* A promotion offers its front the record it keeps.                       *)
LEMMA RecordedPromote ==
  Recorded /\ Promote =>
    Recorded' /\ [PromotionFront!FrontNext]_PromotionFront!fvars
<1> SUFFICES ASSUME Recorded, Promote
             PROVE  Recorded' /\ [PromotionFront!FrontNext]_PromotionFront!fvars
  OBVIOUS
<1>1. PICK r \in queue :
        /\ queue' = queue \ {r}
        /\ \/ UNCHANGED <<promoted, promotedFront>>
           \/ \E o \in Scores :
                /\ promoted' = promoted \cup {Record(r.schema, "full", o)}
                /\ promotedFront' =
                     Update(promotedFront, Record(r.schema, "full", o))
  BY DEF Promote
<1>2. UNCHANGED <<next, evaluated>>
  BY DEF Promote, search
<1>3. CASE UNCHANGED <<promoted, promotedFront>>
  BY <1>1, <1>2, <1>3 DEF Recorded, PromotionFront!fvars, SearchRecords
<1>4. CASE \E o \in Scores :
             /\ promoted' = promoted \cup {Record(r.schema, "full", o)}
             /\ promotedFront' =
                  Update(promotedFront, Record(r.schema, "full", o))
  <2>1. PICK o \in Scores :
          /\ promoted' = promoted \cup {Record(r.schema, "full", o)}
          /\ promotedFront' =
               Update(promotedFront, Record(r.schema, "full", o))
    BY <1>4
  <2>2. r.schema \in Schemas
    BY DEF Recorded, SearchRecords, Records, Record
  <2>3. Record(r.schema, "full", o) \in Records("full")
    BY <2>2 DEF Records
  <2>4. PromotionFront!FrontNext
    BY <2>1, <2>3
       DEF PromotionFront!FrontNext, PromotionFront!Offer,
           PromotionFront!Update, PromotionFront!Rejects,
           PromotionFront!Dominates, Update, Rejects, Dominates
  <2>5. Recorded'
    BY <1>1, <1>2, <2>1, <2>3 DEF Recorded, SearchRecords, Records
  <2> QED BY <2>4, <2>5
<1> QED BY <1>1, <1>3, <1>4

LEMMA RecordedInit == Init => Recorded
  BY DEF Init, Recorded

(* Every step is a step of each front, or leaves it as it was.             *)
LEMMA RecordedNext ==
  Recorded /\ [Next]_vars =>
    /\ Recorded'
    /\ [SearchFront!FrontNext]_SearchFront!fvars
    /\ [PromotionFront!FrontNext]_PromotionFront!fvars
<1> SUFFICES ASSUME Recorded, [Next]_vars
             PROVE  /\ Recorded'
                    /\ [SearchFront!FrontNext]_SearchFront!fvars
                    /\ [PromotionFront!FrontNext]_PromotionFront!fvars
  OBVIOUS
<1> USE DEF SearchFront!fvars, PromotionFront!fvars
<1>1. CASE SearchEvaluation
  BY <1>1, RecordedConsider DEF SearchEvaluation
<1>2. CASE NoEvaluation
  BY <1>2 DEF NoEvaluation, Recorded, SearchRecords, Records
<1>3. CASE Baseline
  BY <1>3 DEF Baseline, search, promotion, Recorded, SearchRecords, Records
<1>4. CASE StartPromotion
  <2>1. UNCHANGED <<next, evaluated, front, promoted, promotedFront>>
    BY <1>4 DEF StartPromotion, search
  <2>2. queue' \subseteq evaluated
    BY <1>4 DEF StartPromotion, Promotions, First, Recorded
  <2> QED BY <2>1, <2>2 DEF Recorded, SearchRecords, Records
<1>5. CASE Promote
  <2>1. UNCHANGED <<evaluated, front>>
    BY <1>5 DEF Promote, search
  <2> QED BY <1>5, <2>1, RecordedPromote
<1> QED BY <1>1, <1>2, <1>3, <1>4, <1>5, KindOfStep

(* Both fronts are fronts in the sense of ParetoFront: what is proved of   *)
(* it holds for the records of the search and for those of the promotion.  *)
THEOREM FrontsImplemented == Spec => ImplementsFronts
<1>1. Init => SearchFront!FrontInit /\ PromotionFront!FrontInit
  BY DEF Init, SearchFront!FrontInit, PromotionFront!FrontInit
<1>2. QED BY <1>1, RecordedInit, RecordedNext, PTL
          DEF Spec, ImplementsFronts, SearchFront!FrontSpec,
              PromotionFront!FrontSpec

-----------------------------------------------------------------------------
(* The call cap *)

(* The calls counted are whole, and over the cap only by a baseline that   *)
(* nothing has followed.                                                   *)
CallsCounted ==
  /\ limits \in LimitChoices
  /\ used.calls \in Nat
  /\ stage = "baseline" => used.calls = 0
  /\ OvershootOnlyByBaseline

(* An evaluation of x costs Calls[x] calls.                                *)
LEMMA ChargeCalls ==
  ASSUME NEW x \in Batches, NEW cost \in Actual[x], Charge(cost)
  PROVE  used'.calls = used.calls + Calls[x] /\ Calls[x] \in Nat
<1>1. cost.calls = Calls[x] /\ Calls[x] \in Nat
  BY CostAssumption
<1> QED BY <1>1 DEF Charge, Plus

(* What was found to fit is within the cap when it is paid.                *)
LEMMA CallsFit ==
  ASSUME CallsCounted, NEW x \in Batches, NEW s \in Programs,
         CanStart(used, limits, Need(s, x)),
         NEW cost \in Actual[x], Charge(cost), UNCHANGED limits,
         stage' # "baseline"
  PROVE  CallsCounted'
<1>1. used'.calls = used.calls + Calls[x] /\ Calls[x] \in Nat
  BY ChargeCalls
<1>2. Need(s, x).calls = Calls[x]
  BY CostAssumption DEF Need, Amount
<1>3. limits.calls # NoLimit => used.calls + Calls[x] <= limits.calls
  BY <1>2 DEF CanStart, Plus, Fits
<1> QED BY <1>1, <1>3 DEF CallsCounted, OvershootOnlyByBaseline

LEMMA CallsInit == Init => CallsCounted
  BY ConfigAssumption
     DEF Init, CallsCounted, Nothing, OvershootOnlyByBaseline, BudgetLimits,
         Cap

LEMMA CallsNext == CallsCounted /\ Recorded /\ [Next]_vars => CallsCounted'
<1> SUFFICES ASSUME CallsCounted, Recorded, [Next]_vars PROVE CallsCounted'
  OBVIOUS
<1> USE DEF CallsCounted, OvershootOnlyByBaseline
<1>1. CASE SearchEvaluation
  <2>1. PICK s \in Schemas, x \in {"stage", "sample"} : Consider(s, x)
    BY <1>1 DEF SearchEvaluation
  <2>2. x \in Batches /\ s \in Programs
    BY DEF Batches, Programs
  <2>3. CASE UNCHANGED used
    BY <1>1, <2>3 DEF SearchEvaluation
  <2>4. CASE CanStart(used, limits, Need(s, x))
             /\ \E cost \in Actual[x] : Charge(cost)
    BY <1>1, <2>2, <2>4, CallsFit DEF SearchEvaluation
  <2> QED BY <2>1, <2>3, <2>4 DEF Consider, Accepts
<1>2. CASE NoEvaluation
  BY <1>2 DEF NoEvaluation
<1>3. CASE Baseline
  <2>1. PICK cost \in Actual["stage"] : Charge(cost)
    BY <1>3 DEF Baseline
  <2>2. used'.calls = used.calls + Calls["stage"] /\ Calls["stage"] \in Nat
    BY <2>1, ChargeCalls DEF Batches
  <2> QED BY <1>3, <2>2 DEF Baseline
<1>4. CASE StartPromotion
  <2>1. UNCHANGED limits /\ stage' # "baseline"
    BY <1>4 DEF StartPromotion
  <2>2. CASE UNCHANGED used
    BY <2>1, <2>2
  <2>3. CASE CanStart(used, limits, Need(Base, "full"))
             /\ \E cost \in Actual["full"] : Charge(cost)
    BY <2>1, <2>3, CallsFit DEF Batches, Programs
  <2> QED BY <1>4, <2>2, <2>3 DEF StartPromotion
<1>5. CASE Promote
  <2>1. UNCHANGED limits /\ stage' # "baseline"
    BY <1>5 DEF Promote
  <2>2. CASE UNCHANGED used
    BY <2>1, <2>2
  <2>3. ASSUME NEW r \in queue, CanStart(used, limits, Need(r.schema, "full")),
               NEW cost \in Actual["full"], Charge(cost)
        PROVE  CallsCounted'
    <3>1. r.schema \in Programs
      BY DEF Recorded, SearchRecords, Records, Record, Programs
    <3> QED BY <2>1, <2>3, <3>1, CallsFit DEF Batches
  <2> QED BY <1>5, <2>2, <2>3 DEF Promote, Accepts
<1> QED BY <1>1, <1>2, <1>3, <1>4, <1>5, KindOfStep

(* Whatever the batches, the estimates and the schemas, the call cap is    *)
(* passed by the baseline or not at all.                                   *)
THEOREM OnlyBaselineOvershoots == Spec => []OvershootOnlyByBaseline
<1>1. CallsCounted => OvershootOnlyByBaseline BY DEF CallsCounted
<1>2. QED BY <1>1, CallsInit, CallsNext, RecordedInit, RecordedNext, PTL
          DEF Spec

-----------------------------------------------------------------------------
(* The order of the promotion *)

IsPromoted(s) == \E p \in promoted : p.schema = s

(* No evaluation on the full batch fits under the call cap any more.       *)
NoCallsLeft ==
  limits.calls # NoLimit /\ used.calls + Calls["full"] > limits.calls

(* The queue is taken from the best on.  Whoever is above a record of it   *)
(* is in it too, or was promoted, or was turned down, and then no other    *)
(* will be accepted.                                                       *)
InOrder ==
  /\ \A r \in evaluated : r.schema \in GrammarOK
  /\ OnlyCallsCapped(limits) =>
       \A r \in queue, q \in evaluated :
         Above(q, r) => q \in queue \/ IsPromoted(q.schema) \/ NoCallsLeft
  /\ PromotesTheBest

IsRecord(r) == r.key \in Int /\ r.schema \in Nat

LEMMA RecordsAreRecords == Recorded => \A r \in evaluated : IsRecord(r)
  BY SchemasAssumption, ScoresAssumption
     DEF Recorded, SearchRecords, Records, Record, IsRecord

LEMMA AboveIsOrder ==
  ASSUME NEW p, NEW q, NEW r, IsRecord(p), IsRecord(q), IsRecord(r)
  PROVE  /\ Above(p, q) /\ Above(q, r) => Above(p, r)
         /\ ~(Above(p, q) /\ Above(q, p))
  BY DEF IsRecord, Above

(* Whoever is above a record chosen for the promotion is chosen.           *)
LEMMA ChosenFromTheTop ==
  ASSUME Paid, Recorded, NEW r \in Promotions, NEW q \in evaluated, Above(q, r)
  PROVE  q \in Promotions
<1> DEFINE wanted == Fraction(Cardinality(evaluated))
           left   == MaxRollouts - rollouts
           k      == IF left < wanted THEN left ELSE wanted
           AllAbove(x) == {p \in evaluated : Above(p, x)}
<1>1. r \in evaluated /\ Cardinality(AllAbove(r)) < k
  BY DEF Promotions, First
<1>2. k \in Int
  <2>1. Cardinality(evaluated) \in Nat /\ Cardinality(promoted) \in Nat
    BY FS_CardinalityType DEF Paid, RolloutsBalance
  <2>2. (Cardinality(evaluated) * PromoteNum) \div PromoteDen \in Int
    BY <2>1, ConfigAssumption
  <2>3. wanted \in Int
    BY <2>2 DEF Fraction, AtLeastOne
  <2>4. left \in Int
    BY <2>1, ConfigAssumption DEF Paid, RolloutsBalance
  <2> QED BY <2>3, <2>4
<1>3. AllAbove(q) \subseteq AllAbove(r)
  BY <1>1, RecordsAreRecords, AboveIsOrder
<1>4. IsFiniteSet(AllAbove(r))
  BY FS_Subset DEF Paid, RolloutsBalance
<1>5. /\ Cardinality(AllAbove(q)) <= Cardinality(AllAbove(r))
      /\ Cardinality(AllAbove(q)) \in Nat /\ Cardinality(AllAbove(r)) \in Nat
  BY <1>3, <1>4, FS_Subset, FS_CardinalityType
<1>6. Cardinality(AllAbove(q)) < k
  BY <1>1, <1>2, <1>5
<1> QED BY <1>6 DEF Promotions, First

(* The calls only grow, so that a call cap that is used up remains so.     *)
LEMMA NoCallsLeftRemains ==
  ASSUME CallsCounted, NoCallsLeft, UNCHANGED limits,
         UNCHANGED used \/ \E x \in Batches : \E cost \in Actual[x] : Charge(cost)
  PROVE  NoCallsLeft'
<1>1. limits.calls # NoLimit => limits.calls \in Nat
  BY ConfigAssumption DEF CallsCounted, BudgetLimits, Cap
<1>2. Calls["full"] \in Nat
  BY CostAssumption DEF Batches
<1>3. CASE UNCHANGED used
  BY <1>3 DEF NoCallsLeft
<1>4. CASE \E x \in Batches : \E cost \in Actual[x] : Charge(cost)
  <2>1. used'.calls \in Nat /\ used'.calls >= used.calls
    BY <1>4, ChargeCalls DEF CallsCounted
  <2> QED BY <1>1, <1>2, <2>1 DEF NoCallsLeft, CallsCounted
<1> QED BY <1>3, <1>4

(* Only calls capped, an evaluation that does not fit finds no calls left. *)
LEMMA TurnedDown ==
  ASSUME OnlyCallsCapped(limits), CallsCounted, NEW s \in Programs,
         ~CanStart(used, limits, Need(s, "full"))
  PROVE  NoCallsLeft
<1>1. Need(s, "full").calls = Calls["full"] /\ Calls["full"] \in Nat
  BY CostAssumption DEF Need, Amount, Batches
<1>2. limits.calls # NoLimit => limits.calls \in Nat
  BY ConfigAssumption DEF CallsCounted, BudgetLimits, Cap
<1> QED BY <1>1, <1>2
        DEF CanStart, Plus, Fits, OnlyCallsCapped, NoCallsLeft, CallsCounted

LEMMA InOrderInit == Init => InOrder
  BY DEF Init, InOrder, PromotesTheBest

(* Until the promotion starts there is nothing to order.                   *)
LEMMA InOrderSearch ==
  ASSUME InOrder, Paid, SearchEvaluation
  PROVE  InOrder'
<1>1. PICK s \in Schemas, x \in {"stage", "sample"} : Consider(s, x)
  BY DEF SearchEvaluation
<1>2. \/ evaluated' = evaluated
      \/ s \in GrammarOK
         /\ \E o \in Scores : evaluated' = evaluated \cup {Record(s, x, o)}
  BY <1>1 DEF Consider, Accepts
<1>3. \A r \in evaluated' : r.schema \in GrammarOK
  BY <1>2 DEF InOrder, Record
<1>4. queue' = {} /\ promoted' = {}
  BY DEF SearchEvaluation, Paid, QueueFresh
<1> QED BY <1>3, <1>4 DEF InOrder, PromotesTheBest

LEMMA InOrderStartPromotion ==
  ASSUME InOrder, Paid, Recorded, StartPromotion
  PROVE  InOrder'
<1>1. /\ UNCHANGED <<limits, evaluated, promoted>>
      /\ promoted = {} /\ queue = {}
      /\ queue' = queue \/ queue' = Promotions
  BY DEF StartPromotion, search, Paid, QueueFresh, Searching
<1>2. \A r \in queue', q \in evaluated' : Above(q, r) => q \in queue'
  BY <1>1, ChosenFromTheTop
<1> QED BY <1>1, <1>2 DEF InOrder, PromotesTheBest

LEMMA InOrderPromote ==
  ASSUME InOrder, Paid, Recorded, CallsCounted, Promote
  PROVE  InOrder'
<1>1. UNCHANGED <<limits, evaluated>>
  BY DEF Promote, search
<1>2. PICK r \in queue :
        /\ \A q \in queue \ {r} : Above(r, q)
        /\ queue' = queue \ {r}
        /\ IF Accepts(r.schema, "full")
           THEN \E cost \in Actual["full"], o \in Scores :
                  /\ Charge(cost)
                  /\ promoted' = promoted \cup {Record(r.schema, "full", o)}
           ELSE UNCHANGED <<used, promoted>>
  BY DEF Promote
<1>3. r \in evaluated /\ r.schema \in GrammarOK /\ r.schema \in Programs
  BY DEF Recorded, InOrder, SearchRecords, Records, Record, Programs
<1>4. \A q \in evaluated : IsRecord(q)
  BY RecordsAreRecords
<1>5. \A q \in queue : ~Above(q, r)
  <2>1. ~Above(r, r)
    BY <1>3, <1>4 DEF Above, IsRecord
  <2> QED BY <1>2, <1>3, <1>4, <2>1, AboveIsOrder DEF Recorded
<1>6. \A s : IsPromoted(s) => IsPromoted(s)'
  BY <1>2 DEF IsPromoted
<1>7. ASSUME OnlyCallsCapped(limits), Accepts(r.schema, "full")
      PROVE  /\ IsPromoted(r.schema)'
             /\ \A q \in evaluated : Above(q, r) => IsPromoted(q.schema)
             /\ \A s : IsPromoted(s)' => IsPromoted(s) \/ s = r.schema
  <2>1. PICK o \in Scores :
          promoted' = promoted \cup {Record(r.schema, "full", o)}
    BY <1>2, <1>7
  <2>2. /\ IsPromoted(r.schema)'
        /\ \A s : IsPromoted(s)' => IsPromoted(s) \/ s = r.schema
    <3> DEFINE new == Record(r.schema, "full", o)
    <3>1. new.schema = r.schema
      BY DEF Record
    <3> HIDE DEF new
    <3>2. promoted' = promoted \cup {new}
      BY <2>1 DEF new
    <3>3. new \in promoted' /\ IsPromoted(r.schema)'
      BY <3>1, <3>2 DEF IsPromoted
    <3>4. ASSUME NEW s, IsPromoted(s)' PROVE IsPromoted(s) \/ s = r.schema
      BY <3>1, <3>2, <3>4 DEF IsPromoted
    <3> QED BY <3>3, <3>4
  <2>3. ~NoCallsLeft
    <3>1. Need(r.schema, "full").calls = Calls["full"] /\ Calls["full"] \in Nat
      BY <1>3, CostAssumption DEF Need, Amount, Batches
    <3>2. limits.calls # NoLimit => used.calls + Calls["full"] <= limits.calls
      BY <1>7, <3>1 DEF Accepts, CanStart, Plus, Fits
    <3>3. limits.calls # NoLimit => limits.calls \in Nat
      BY ConfigAssumption DEF CallsCounted, BudgetLimits, Cap
    <3> QED BY <3>1, <3>2, <3>3 DEF NoCallsLeft, CallsCounted
  <2>4. \A q \in evaluated : Above(q, r) => IsPromoted(q.schema)
    BY <1>5, <1>7, <2>3 DEF InOrder
  <2> QED BY <2>2, <2>4
<1>8. ASSUME OnlyCallsCapped(limits), ~Accepts(r.schema, "full")
      PROVE  NoCallsLeft /\ \A s : IsPromoted(s)' <=> IsPromoted(s)
  BY <1>2, <1>3, <1>8, TurnedDown DEF Accepts, IsPromoted
<1>9. ASSUME NoCallsLeft PROVE NoCallsLeft'
  <2>1. UNCHANGED used \/ \E cost \in Actual["full"] : Charge(cost)
    BY <1>2
  <2> QED BY <1>1, <1>9, <2>1, NoCallsLeftRemains DEF Batches
<1>10. ASSUME OnlyCallsCapped(limits), NEW p \in queue', NEW q \in evaluated,
              Above(q, p)
       PROVE  q \in queue' \/ IsPromoted(q.schema)' \/ NoCallsLeft'
  <2>1. CASE q = r
    BY <1>7, <1>8, <1>9, <1>10, <2>1
  <2>2. CASE q # r
    BY <1>2, <1>6, <1>9, <1>10, <2>2 DEF InOrder
  <2> QED BY <2>1, <2>2
<1>11. ASSUME OnlyCallsCapped(limits), NEW p \in evaluated, NEW q \in evaluated,
              Above(q, p), IsPromoted(p.schema)'
       PROVE  IsPromoted(q.schema)'
  <2>1. CASE IsPromoted(p.schema)
    BY <1>6, <1>11, <2>1 DEF InOrder, PromotesTheBest, IsPromoted
  <2>2. CASE p.schema = r.schema /\ Accepts(r.schema, "full")
    <3>1. p = r
      BY <1>3, <2>2 DEF Paid, OneEach
    <3> QED BY <1>6, <1>7, <1>11, <2>2, <3>1
  <2> QED BY <1>7, <1>8, <1>11, <2>1, <2>2
<1> QED BY <1>1, <1>10, <1>11 DEF InOrder, PromotesTheBest, IsPromoted

LEMMA InOrderNext ==
  InOrder /\ Paid /\ Recorded /\ CallsCounted /\ [Next]_vars => InOrder'
<1> SUFFICES ASSUME InOrder, Paid, Recorded, CallsCounted, [Next]_vars
             PROVE  InOrder'
  OBVIOUS
<1>1. CASE SearchEvaluation BY <1>1, InOrderSearch
<1>2. CASE NoEvaluation
  BY <1>2 DEF NoEvaluation, InOrder, PromotesTheBest, IsPromoted, NoCallsLeft
<1>3. CASE Baseline
  BY <1>3 DEF Baseline, search, promotion, InOrder, PromotesTheBest, Paid,
              QueueFresh, Searching
<1>4. CASE StartPromotion BY <1>4, InOrderStartPromotion
<1>5. CASE Promote BY <1>5, InOrderPromote
<1> QED BY <1>1, <1>2, <1>3, <1>4, <1>5, KindOfStep

(* With only calls capped, whatever fraction is promoted, whoever was      *)
(* ranked above a promoted schema was promoted too.                        *)
THEOREM PromotionInOrder == Spec => []PromotesTheBest
<1>1. InOrder => PromotesTheBest BY DEF InOrder
<1>2. QED BY <1>1, PaidInit, PaidNext, RecordedInit, RecordedNext, CallsInit,
             CallsNext, InOrderInit, InOrderNext, PTL DEF Spec

-----------------------------------------------------------------------------
(* What the final records are compared on *)

(* The naturals are well founded.                                          *)
LEMMA NatWellFounded == IsWellFoundedOn({q \in Nat \X Nat : q[1] < q[2]}, Nat)
  BY NatLessThanWellFounded, Zenon DEF OpToRel

(* Every set of naturals that is not empty has a least element.            *)
LEMMA LeastNumber ==
  ASSUME NEW T, T \subseteq Nat, T # {}
  PROVE  \E m \in T : \A n \in T : m <= n
<1> DEFINE R == {q \in Nat \X Nat : q[1] < q[2]}
<1>1. PICK m \in T : \A n \in T : <<n, m>> \notin R
  BY NatWellFounded, WFMin
<1>2. \A n \in T : ~(n < m)
  BY <1>1
<1> QED BY <1>2

IsRanked(r) == IsRecord(r) /\ r.point.use["dollars"] \in Int

(* The ranking of ParetoFront.top is a strict order.                       *)
LEMMA RankingIsOrder ==
  ASSUME NEW p, NEW q, NEW r, IsRanked(p), IsRanked(q), IsRanked(r)
  PROVE  /\ AboveOnFront(p, q) /\ AboveOnFront(q, r) => AboveOnFront(p, r)
         /\ ~AboveOnFront(p, p)
<1> DEFINE d(x) == x.point.use["dollars"]
<1>1. /\ p.key \in Int /\ q.key \in Int /\ r.key \in Int
      /\ p.schema \in Nat /\ q.schema \in Nat /\ r.schema \in Nat
      /\ d(p) \in Int /\ d(q) \in Int /\ d(r) \in Int
  BY DEF IsRanked, IsRecord
<1>2. \A x, y : AboveOnFront(x, y) <=>
        \/ x.key > y.key
        \/ x.key = y.key /\ d(x) < d(y)
        \/ x.key = y.key /\ d(x) = d(y) /\ x.schema > y.schema
  BY DEF AboveOnFront
<1> HIDE DEF d
<1>3. AboveOnFront(p, q) /\ AboveOnFront(q, r) => AboveOnFront(p, r)
  BY <1>1, <1>2
<1>4. ~AboveOnFront(p, p)
  BY <1>1, <1>2
<1> QED BY <1>3, <1>4

(* A finite set of records that is not empty has a first one: among those  *)
(* with the fewest above them none has any.                                *)
LEMMA TopIsNotEmpty ==
  ASSUME NEW F, IsFiniteSet(F), F # {}, \A r \in F : IsRanked(r),
         NEW k \in Nat \ {0}
  PROVE  Top(F, k) # {}
<1> DEFINE AllAbove(r) == {q \in F : AboveOnFront(q, r)}
           Counts == {Cardinality(AllAbove(r)) : r \in F}
<1>1. \A r \in F : IsFiniteSet(AllAbove(r)) /\ Cardinality(AllAbove(r)) \in Nat
  <2>1. \A r \in F : AllAbove(r) \in SUBSET F
    OBVIOUS
  <2> QED BY <2>1, FS_Subset, FS_CardinalityType
<1>2. Counts \subseteq Nat /\ Counts # {}
  BY <1>1
<1>3. PICK n \in Counts : \A m \in Counts : n <= m
  BY <1>2, LeastNumber
<1>4. PICK r \in F : n = Cardinality(AllAbove(r))
  BY <1>3
<1>5. AllAbove(r) = {}
  <2> SUFFICES ASSUME NEW q \in F, AboveOnFront(q, r) PROVE FALSE
    OBVIOUS
  <2>1. AllAbove(q) \subseteq AllAbove(r) /\ q \in AllAbove(r)
        /\ q \notin AllAbove(q)
    BY RankingIsOrder
  <2>2. Cardinality(AllAbove(q)) <= Cardinality(AllAbove(r))
        /\ AllAbove(q) # AllAbove(r)
    BY <1>1, <2>1, FS_Subset
  <2>3. Cardinality(AllAbove(q)) # Cardinality(AllAbove(r))
    BY <1>1, <2>1, <2>2, FS_Subset
  <2>4. Cardinality(AllAbove(r)) <= Cardinality(AllAbove(q))
    BY <1>3, <1>4
  <2> QED BY <1>1, <2>2, <2>3, <2>4
<1>6. Cardinality(AllAbove(r)) < k
  BY <1>5, FS_EmptySet
<1> QED BY <1>6 DEF Top, First

(* A record is never dropped without one that stays.                       *)
LEMMA UpdateHoldsOne ==
  ASSUME NEW F, NEW S, NEW c, F \subseteq S
  PROVE  Update(F, c) # {} /\ Update(F, c) \subseteq S \cup {c}
  BY DEF Update, Rejects

(* Fronts hold records that were made, and are empty only before the first *)
(* one; nothing is promoted without its baseline; with a shared batch the  *)
(* search has records of one batch only.                                   *)
Comparable ==
  /\ front \subseteq evaluated /\ promotedFront \subseteq promoted
  /\ evaluated # {} => front # {}
  /\ promoted # {} => promotedFront # {}
  /\ queue \cup promoted # {} => baselined
  /\ SharedBatch => \A r \in evaluated : r.batch = "stage"

(* What the final front has in common.                                     *)
LEMMA FinalFrontComparable ==
  Paid /\ Recorded /\ Comparable => FinalComparable
<1> SUFFICES ASSUME Paid, Recorded, Comparable PROVE FinalComparable
  OBVIOUS
<1>1. \A r \in promoted : r.batch = "full"
  BY DEF Recorded, Records, Record
<1>2. FinalRecords \subseteq FinalFront
  BY DEF FinalRecords, Top, First
<1>3. promoted # {} => \A r \in FinalRecords : r.batch = "full"
  BY <1>1, <1>2 DEF Comparable, FinalFront
<1>4. SharedBatch => \E x \in Batches : \A r \in FinalRecords : r.batch = x
  <2>1. CASE promotedFront # {}
    BY <1>1, <1>2, <2>1 DEF Comparable, FinalFront, Batches
  <2>2. CASE promotedFront = {}
    BY <1>2, <2>2 DEF Comparable, FinalFront, Batches
  <2> QED BY <2>1, <2>2
<1>5. ASSUME evaluated # {} PROVE FinalRecords # {}
  <2>1. FinalFront # {} /\ FinalFront \subseteq evaluated \cup promoted
    BY <1>5 DEF Comparable, FinalFront
  <2>2. IsFiniteSet(FinalFront)
    <3>1. IsFiniteSet(evaluated) /\ IsFiniteSet(promoted)
      BY DEF Paid, RolloutsBalance
    <3>2. IsFiniteSet(front) /\ IsFiniteSet(promotedFront)
      BY <3>1, FS_Subset DEF Comparable
    <3> QED BY <3>2 DEF FinalFront
  <2>3. \A r \in FinalFront : IsRanked(r)
    <3>1. ASSUME NEW s \in Schemas, NEW x, NEW o \in Scores
          PROVE  IsRanked(Record(s, x, o))
      <4>1. o.key \in Int /\ o.point.use["dollars"] \in Int
        BY ScoresAssumption DEF IsPoint, Points
      <4>2. s \in Nat
        BY SchemasAssumption
      <4> QED BY <4>1, <4>2 DEF IsRanked, IsRecord, Record
    <3>2. \A r \in evaluated \cup promoted : IsRanked(r)
      BY <3>1 DEF Recorded, SearchRecords, Records
    <3> QED BY <2>1, <3>2
  <2> QED BY <2>1, <2>2, <2>3, TopIsNotEmpty, ConfigAssumption DEF FinalRecords
<1> QED BY <1>3, <1>4, <1>5 DEF FinalComparable, Comparable

LEMMA ComparableInit == Init => Comparable
  BY DEF Init, Comparable

(* An evaluation of the search; with a shared batch it is on the stage     *)
(* batch, for mutants too.                                                 *)
LEMMA ComparableSearch ==
  ASSUME Comparable, Paid, SearchEvaluation, UNCHANGED baselined
  PROVE  Comparable'
<1>1. PICK s \in Schemas, x \in {"stage", "sample"} :
        Consider(s, x) /\ (SharedBatch => x = "stage")
  BY DEF SearchEvaluation
<1>2. UNCHANGED <<queue, promoted, promotedFront, baselined>>
  BY DEF SearchEvaluation
<1>3. CASE UNCHANGED <<evaluated, front>>
  BY <1>2, <1>3 DEF Comparable
<1>4. CASE \E o \in Scores :
             /\ evaluated' = evaluated \cup {Record(s, x, o)}
             /\ front' = Update(front, Record(s, x, o))
  <2>1. PICK o \in Scores :
          /\ evaluated' = evaluated \cup {Record(s, x, o)}
          /\ front' = Update(front, Record(s, x, o))
    BY <1>4
  <2>2. Record(s, x, o).batch = x
    BY DEF Record
  <2> DEFINE new == Record(s, x, o)
  <2> HIDE DEF new
  <2>3. front' # {} /\ front' \subseteq evaluated'
    BY <2>1, UpdateHoldsOne DEF Comparable, new
  <2>4. SharedBatch => \A r \in evaluated' : r.batch = "stage"
    BY <1>1, <2>1, <2>2 DEF Comparable, new
  <2> QED BY <1>2, <2>3, <2>4 DEF Comparable
<1> QED BY <1>1, <1>3, <1>4 DEF Consider

(* A promotion comes out of a queue that the baseline has filled.          *)
LEMMA ComparablePromote == Comparable /\ Promote => Comparable'
<1> SUFFICES ASSUME Comparable, Promote PROVE Comparable'
  OBVIOUS
<1>1. PICK r \in queue :
        /\ queue' = queue \ {r}
        /\ \/ UNCHANGED <<promoted, promotedFront>>
           \/ \E o \in Scores :
                /\ promoted' = promoted \cup {Record(r.schema, "full", o)}
                /\ promotedFront' =
                     Update(promotedFront, Record(r.schema, "full", o))
  BY DEF Promote
<1>2. UNCHANGED <<evaluated, front, baselined>> /\ baselined
  BY DEF Promote, search, Comparable
<1>3. CASE UNCHANGED <<promoted, promotedFront>>
  BY <1>1, <1>2, <1>3 DEF Comparable
<1>4. CASE \E o \in Scores :
             /\ promoted' = promoted \cup {Record(r.schema, "full", o)}
             /\ promotedFront' =
                  Update(promotedFront, Record(r.schema, "full", o))
  <2>1. PICK o \in Scores :
          /\ promoted' = promoted \cup {Record(r.schema, "full", o)}
          /\ promotedFront' =
               Update(promotedFront, Record(r.schema, "full", o))
    BY <1>4
  <2>2. promotedFront' # {} /\ promotedFront' \subseteq promoted'
    BY <2>1, UpdateHoldsOne DEF Comparable
  <2> QED BY <1>2, <2>2 DEF Comparable
<1> QED BY <1>1, <1>3, <1>4

(* Every step.                                                             *)
LEMMA ComparableNext ==
  Comparable /\ Paid /\ Recorded /\ [Next]_vars => Comparable'
<1> SUFFICES ASSUME Comparable, Paid, Recorded, [Next]_vars
             PROVE  Comparable'
  OBVIOUS
<1>1. CASE Baseline
  BY <1>1 DEF Baseline, search, promotion, Comparable
<1>2. CASE StartPromotion
  <2>1. UNCHANGED <<evaluated, front, promoted, promotedFront>>
    BY <1>2 DEF StartPromotion, search
  <2>2. baselined' \/ UNCHANGED <<baselined, queue>>
    BY <1>2 DEF StartPromotion
  <2> QED BY <2>1, <2>2 DEF Comparable
<1>3. CASE Promote BY <1>3, ComparablePromote
<1>4. ASSUME ~Baseline, ~StartPromotion, ~Promote PROVE UNCHANGED baselined
  BY <1>4
     DEF Next, Step, Raise, Returned, ConsiderInitial, InitialEnd, Mutate,
         MutateEnd, Merge, Finish, promotion, vars
<1>5. CASE NoEvaluation /\ UNCHANGED baselined
  BY <1>5 DEF NoEvaluation, Comparable
<1>6. CASE SearchEvaluation /\ UNCHANGED baselined
  BY <1>6, ComparableSearch
<1> QED BY <1>1, <1>2, <1>3, <1>4, <1>5, <1>6, KindOfStep

(* Whatever is merged, mutated and promoted under whatever budget: the     *)
(* final records of a shared batch were scored on one batch, promoted      *)
(* records are never mixed with those of the search, and a search that     *)
(* evaluated anything returns something.                                   *)
THEOREM FinalRecordsCompare == Spec => []FinalComparable
<1>1. QED BY FinalFrontComparable, PaidInit, PaidNext, RecordedInit,
             RecordedNext, ComparableInit, ComparableNext, PTL DEF Spec
=============================================================================
