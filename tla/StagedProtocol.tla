--------------------------- MODULE StagedProtocol ---------------------------
(***************************************************************************)
(* What a fixed-pool run promises whoever reads its report (README.md,     *)
(* "Fixed-Pool Path", and PRE_REGISTRATION.md, "Splits"), without budgets, *)
(* batches or rounds: the search scores on the selection split only (the   *)
(* smoke split tests validity and is not counted here); one candidate is   *)
(* committed to; from then on nothing but the confirmation and then the    *)
(* held-out split is opened, and the verdict is about the committed        *)
(* candidate.  A run may be aborted, never resumed.                        *)
(***************************************************************************)
CONSTANTS Candidates, NoCandidate

VARIABLES
  phase,      \* "search", "committed", "reported" or "aborted"
  committed,  \* the pre-committed primary candidate
  opened,     \* splits with an evaluation
  verdict     \* "none", "proceed" or "stop"

pvars == <<phase, committed, opened, verdict>>

SearchSplits == {"selection"}

ProtocolInit ==
  /\ phase = "search"
  /\ committed = NoCandidate
  /\ opened = {}
  /\ verdict = "none"

Explore ==
  /\ phase = "search"
  /\ opened \subseteq opened' /\ opened' \subseteq SearchSplits
  /\ UNCHANGED <<phase, committed, verdict>>

(* A choice is only as good as the data it rests on.                       *)
Commit ==
  /\ phase = "search"
  /\ "selection" \in opened
  /\ phase' = "committed"
  /\ committed' \in Candidates
  /\ UNCHANGED <<opened, verdict>>

OpenConfirmation ==
  /\ phase = "committed"
  /\ opened' = opened \cup {"confirmation"}
  /\ UNCHANGED <<phase, committed, verdict>>

OpenHeldout ==
  /\ phase = "committed"
  /\ "confirmation" \in opened
  /\ opened' = opened \cup {"heldout"}
  /\ UNCHANGED <<phase, committed, verdict>>

ReportVerdict ==
  /\ phase = "committed"
  /\ "confirmation" \in opened
  /\ phase' = "reported"
  /\ verdict' \in {"proceed", "stop"}
  /\ UNCHANGED <<committed, opened>>

AbortRun ==
  /\ phase \in {"search", "committed"}
  /\ phase' = "aborted"
  /\ UNCHANGED <<committed, opened, verdict>>

ProtocolNext ==
  \/ Explore \/ Commit \/ OpenConfirmation \/ OpenHeldout
  \/ ReportVerdict \/ AbortRun

Protocol == ProtocolInit /\ [][ProtocolNext]_pvars
=============================================================================
