--------------------------- MODULE IncludeValues ---------------------------
(***************************************************************************)
(* The polled include list of the keep-filter (millpond/include_values.py, *)
(* HttpIncludeValues as build() makes it: the static configuration is both *)
(* the bootstrap set and the pinned floor).  One process: its poll thread, *)
(* the start() that blocks main() on the first accepted poll, and restarts *)
(* that lose the damping state.                                            *)
(*                                                                         *)
(* A JSON scalar is <<type, id>>; str() of <<"int", i>> is <<"str", i>>.   *)
(***************************************************************************)
EXTENDS Integers, FiniteSets

CONSTANTS
  Ids,            \* what identifies a value (a team id)
  PinnedIds,      \* those of the static configuration
  PinnedType,     \* its scalar type
  ConfirmPolls    \* removal_confirm_polls

ASSUME PinAssumption ==
  PinnedIds \subseteq Ids /\ PinnedIds # {} /\ IsFiniteSet(PinnedIds)
ASSUME TypeAssumption == PinnedType \in {"int", "str"}
ASSUME ConfirmAssumption == ConfirmPolls \in Nat \ {0}

Scalars == {"int", "str"} \X Ids
Pinned == {PinnedType} \X PinnedIds

VARIABLES
  values,        \* self._values, what current() returns
  absentPolls,   \* self._absent_polls; 0 for a value that is not a key
  phase,         \* main(): "starting", "running", "stopped"
  lastPoll,      \* history: what the last poll served and what became of it
  acceptedRun,   \* history: accepted polls in a row without the value
  successRun     \* history: successful polls in a row without the value

vars == <<values, absentPolls, phase, lastPoll, acceptedRun, successRun>>

Outcomes == {"none", "failed", "type_flip", "empty", "bulk_removal", "accepted"}
NoPoll == [remote |-> {}, outcome |-> "none"]

\* _normalize: an all-int array stays ints, any other becomes strings.
Normalize(elements) ==
  IF \A e \in elements : e[1] = "int" THEN elements ELSE {<<"str", e[2]>> : e \in elements}

TypesOf(set) == {e[1] : e \in set}

\* Mutant: the type of an array is not compared with the held set's.
TypeFlipsNever(remote) == FALSE

\* The scalar type of the array disagrees with the held set's.
TypeFlips(remote) == values # {} /\ remote # {} /\ TypesOf(remote) # TypesOf(values)

\* Mutant: an empty array is refused even when only pins are held.
EmptiesAlways(remote) == remote = {}

\* An empty array against a set that holds more than pins.
Empties(remote) == remote = {} /\ values \ Pinned # {}

\* Values an array is removal evidence against.
Absent(remote) == values \ (remote \cup Pinned)

\* Mutant: counts survive a poll that serves the value.
TentativeSticky(remote) ==
  [v \in Scalars |-> IF v \in Absent(remote) THEN absentPolls[v] + 1 ELSE absentPolls[v]]

\* tentative_counts
Tentative(remote) ==
  [v \in Scalars |-> IF v \in Absent(remote) THEN absentPolls[v] + 1 ELSE 0]

\* Mutant: one poll more than configured.
ConfirmedLate(remote) == {v \in values : Tentative(remote)[v] > ConfirmPolls}

\* confirmed_removals
Confirmed(remote) == {v \in values : Tentative(remote)[v] >= ConfirmPolls}

\* The slice of the set the endpoint governs.
Managed(remote) == values \ (Pinned \ remote)

\* Mutant: half of an odd number is rounded up.
BulkRemovalRoundedUp(remote) ==
  LET half == (Cardinality(Managed(remote)) + 1) \div 2
  IN  /\ Cardinality(Managed(remote)) > 1
      /\ Cardinality(Confirmed(remote)) > (IF half > 1 THEN half ELSE 1)

\* More than half of a multi-value managed slice would go at once.
BulkRemoval(remote) ==
  LET half == Cardinality(Managed(remote)) \div 2
  IN  /\ Cardinality(Managed(remote)) > 1
      /\ Cardinality(Confirmed(remote)) > (IF half > 1 THEN half ELSE 1)

Outcome(remote) ==
  IF TypeFlips(remote) THEN "type_flip"
  ELSE IF Empties(remote) THEN "empty"
  ELSE IF BulkRemoval(remote) THEN "bulk_removal"
  ELSE "accepted"

\* Mutant: a refused bulk removal drops the additions of its poll as well.
AfterRefusalStarved(remote) == values

\* What a refused poll still applies: the additions of a bulk removal.
AfterRefusal(remote) ==
  IF Outcome(remote) = "bulk_removal" THEN Normalize(values \cup remote \cup Pinned) ELSE values

Init ==
  /\ values = Pinned
  /\ absentPolls = [v \in Scalars |-> 0]
  /\ phase = "starting"
  /\ lastPoll = NoPoll
  /\ acceptedRun = [v \in Scalars |-> 0]
  /\ successRun = [v \in Scalars |-> 0]

\* A run of polls without v, up to the length that matters.
Longer(run, v, remote) ==
  IF v \in remote THEN 0 ELSE IF run[v] < ConfirmPolls THEN run[v] + 1 ELSE run[v]

\* _poll_once on an array the endpoint served, a finite one.
Poll(elements) ==
  LET remote  == Normalize(elements)
      outcome == Outcome(remote)
  IN  /\ phase # "stopped" /\ IsFiniteSet(elements)
      /\ lastPoll' = [remote |-> remote, outcome |-> outcome]
      /\ successRun' = [v \in Scalars |-> Longer(successRun, v, remote)]
      /\ IF outcome = "accepted"
         THEN /\ values' = Normalize((values \cup remote \cup Pinned) \ Confirmed(remote))
              /\ absentPolls' = [v \in Scalars |->
                   IF v \in Confirmed(remote) THEN 0 ELSE Tentative(remote)[v]]
              /\ acceptedRun' = [v \in Scalars |-> Longer(acceptedRun, v, remote)]
              /\ phase' = "running"
         ELSE /\ values' = AfterRefusal(remote)
              /\ UNCHANGED <<absentPolls, acceptedRun, phase>>

\* The fetch raised: unreachable, too large, not a JSON array of scalars.
PollFails ==
  /\ phase # "stopped"
  /\ lastPoll' = [remote |-> {}, outcome |-> "failed"]
  /\ UNCHANGED <<values, absentPolls, phase, acceptedRun, successRun>>

\* start() got no accepted poll in startup_timeout_s, or main() is unwinding.
Stop ==
  /\ phase # "stopped"
  /\ phase' = "stopped"
  /\ UNCHANGED <<values, absentPolls, lastPoll, acceptedRun, successRun>>

\* Kubernetes restarts the pod: the damping state and the set are gone.
Restart ==
  /\ phase = "stopped"
  /\ values' = Pinned
  /\ absentPolls' = [v \in Scalars |-> 0]
  /\ phase' = "starting"
  /\ lastPoll' = NoPoll
  /\ acceptedRun' = [v \in Scalars |-> 0]
  /\ successRun' = [v \in Scalars |-> 0]

Next ==
  \/ \E elements \in SUBSET Scalars : Poll(elements)
  \/ PollFails
  \/ Stop
  \/ Restart

Spec == Init /\ [][Next]_vars

---------------------------------------------------------------------------
(* Properties                                                              *)

\* Types of the provider; a countdown never rests at the confirmation bound,
\* since _poll_once removes the value in the poll that reaches it.
TypeOK ==
  /\ values \subseteq Scalars
  /\ absentPolls \in [Scalars -> 0 .. ConfirmPolls - 1]
  /\ phase \in {"starting", "running", "stopped"}
  /\ lastPoll \in [remote : SUBSET Scalars, outcome : Outcomes]
  /\ acceptedRun \in [Scalars -> 0 .. ConfirmPolls]
  /\ successRun \in [Scalars -> 0 .. ConfirmPolls]

\* A value leaves the served set of a process only on an accepted poll that ends
\* ConfirmPolls accepted polls in a row without it: neither failed nor refused
\* polls pre-charge the countdown, and an accepted one that serves the value
\* resets it.  And no poll takes more than half of what the endpoint governs,
\* unless what it takes is a single value (_poll_once, the bulk_removal guard).
RemovalsAreDamped ==
  [][phase # "stopped" =>
       /\ \A v \in values \ values' :
            /\ lastPoll'.outcome = "accepted"
            /\ acceptedRun'[v] >= ConfirmPolls
       /\ Cardinality(values \ values') > 1 =>
            Cardinality(values \ values')
              <= Cardinality((values \cap values') \ (Pinned \ lastPoll'.remote))]_vars

\* The served set always contains the pins and never mixes scalar types, so the
\* filter's cast against the column cannot start to drop whole batches.
PinsAndTypeHold == Pinned \subseteq values /\ TypesOf(values) = {PinnedType}

\* Additions are never starved: every value of a well-typed poll is served from
\* then on, also when the poll's removals are refused.
AdditionsApply ==
  lastPoll.outcome \in {"accepted", "bulk_removal"} => lastPoll.remote \subseteq values

\* start() can only be kept waiting by failed polls and by the wrong scalar type:
\* no other refusal can meet a process that has just started from its pins.
StartNeedsOnePoll ==
  phase = "starting" => lastPoll.outcome \in {"none", "failed", "type_flip"}

\* The module's docstring: "removals require removal_confirm_polls CONSECUTIVE
\* successful polls with the value absent".
ConsecutiveSuccessfulPolls ==
  [][phase # "stopped" =>
       \A v \in values \ values' : successRun'[v] >= ConfirmPolls]_vars
=============================================================================
