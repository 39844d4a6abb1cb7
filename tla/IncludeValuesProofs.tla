------------------------ MODULE IncludeValuesProofs ------------------------
(***************************************************************************)
(* Proofs about IncludeValues for every set of values (also an infinite    *)
(* one, of which an array serves finitely many), every pinned              *)
(* configuration of either scalar type and every number of confirming      *)
(* polls.                                                                  *)
(***************************************************************************)
EXTENDS IncludeValues, FiniteSetTheorems, TLAPS

---------------------------------------------------------------------------
(* The inductive invariant.                                                *)

\* A countdown never runs ahead of the accepted polls without its value: what a
\* failed or refused poll saw never counts.
CountdownsAreEarned == \A v \in Scalars : absentPolls[v] <= acceptedRun[v]

\* Until the first accepted poll the process serves exactly its pins.
StartsFromPins == phase = "starting" => values = Pinned

\* What is served is finitely many values: the pins and what arrays brought.
ServesFinitely == IsFiniteSet(values)

\* Everything the proofs below need of a state.
ProviderInv ==
  /\ TypeOK
  /\ ServesFinitely
  /\ PinsAndTypeHold
  /\ CountdownsAreEarned
  /\ StartsFromPins
  /\ AdditionsApply
  /\ StartNeedsOnePoll

---------------------------------------------------------------------------
(* The operators of a poll.                                                *)

\* The pins are scalars of the configured type, and there is one.
LEMMA PinsAreTyped ==
  /\ Pinned \subseteq Scalars
  /\ Pinned # {}
  /\ \A v \in Pinned : v[1] = PinnedType
<1>1. \A v \in Pinned : v \in Scalars /\ v[1] = PinnedType
  BY PinAssumption, TypeAssumption DEF Pinned, Scalars
<1>2. PICK i \in PinnedIds : TRUE
  BY PinAssumption
<1>3. <<PinnedType, i>> \in Pinned
  BY <1>2 DEF Pinned
<1> QED
  BY <1>1, <1>3

\* A set of one scalar type, in the form the proofs use.
LEMMA OneType ==
  ASSUME NEW S \in SUBSET Scalars
  PROVE  TypesOf(S) = {PinnedType} <=> S # {} /\ \A v \in S : v[1] = PinnedType
BY DEF TypesOf

\* _normalize returns scalars.
LEMMA NormalizeIsTyped ==
  ASSUME NEW S \in SUBSET Scalars
  PROVE  Normalize(S) \in SUBSET Scalars
BY DEF Normalize, Scalars

\* _normalize returns no more values than the array has.
LEMMA NormalizeIsFinite ==
  ASSUME NEW S \in SUBSET Scalars, IsFiniteSet(S)
  PROVE  IsFiniteSet(Normalize(S))
<1> DEFINE T == {<<"str", e[2]>> : e \in S}
<1> DEFINE f == [e \in S |-> <<"str", e[2]>>]
<1>1. f \in Surjection(S, T)
  BY DEF Surjection
<1>2. IsFiniteSet(T)
  BY <1>1, FS_Surjection
<1> QED
  BY <1>2 DEF Normalize

\* The pins are finitely many.
LEMMA PinsAreFinite == IsFiniteSet(Pinned)
<1>1. IsFiniteSet({PinnedType})
  BY FS_Singleton
<1> QED
  BY <1>1, PinAssumption, FS_Product DEF Pinned

\* _normalize leaves a set of the pinned type alone, whichever type that is.
LEMMA NormalizeKeepsOneType ==
  ASSUME NEW S \in SUBSET Scalars, \A v \in S : v[1] = PinnedType
  PROVE  Normalize(S) = S
<1>1. CASE PinnedType = "int"
  BY <1>1 DEF Normalize
<1>2. CASE PinnedType = "str"
  <2>1. \A v \in S : v = <<"str", v[2]>>
    BY <1>2 DEF Scalars
  <2>2. {<<"str", v[2]>> : v \in S} = S
    BY <2>1
  <2> QED
    BY <2>2 DEF Normalize
<1> QED
  BY <1>1, <1>2, TypeAssumption

\* tentative_counts: a value the poll is no evidence against restarts at zero,
\* any other is counted once more.
LEMMA TentativeCount ==
  ASSUME NEW remote, NEW v \in Scalars
  PROVE  Tentative(remote)[v] = IF v \in Absent(remote) THEN absentPolls[v] + 1 ELSE 0
BY DEF Tentative

\* A poll removes only values it did not serve, that are not pinned, and whose
\* countdown it completes.
LEMMA ConfirmedIsAbsent ==
  ASSUME TypeOK, NEW remote, NEW v \in Confirmed(remote)
  PROVE  /\ v \in values /\ v \notin remote /\ v \notin Pinned
         /\ absentPolls[v] + 1 >= ConfirmPolls
<1>1. v \in values /\ v \in Scalars /\ Tentative(remote)[v] >= ConfirmPolls
  BY DEF Confirmed, TypeOK
<1>2. v \in Absent(remote)
  BY <1>1, TentativeCount, ConfirmAssumption
<1>3. absentPolls[v] + 1 >= ConfirmPolls
  BY <1>1, <1>2, TentativeCount
<1> QED
  BY <1>1, <1>2, <1>3 DEF Absent

\* A process that serves only its pins has nothing to lose, so neither the guard
\* on empty arrays nor the one on bulk removals can refuse its poll.
LEMMA PinsAreNeverRefused ==
  ASSUME TypeOK, values = Pinned, NEW remote
  PROVE  Outcome(remote) \in {"type_flip", "accepted"}
<1>1. ~ Empties(remote)
  BY DEF Empties
<1>2. Confirmed(remote) = {}
  BY ConfirmedIsAbsent
<1>3. ~ BulkRemoval(remote)
  <2>2. IsFiniteSet(Managed(remote))
    BY PinsAreFinite, FS_Subset DEF Managed
  <2>3. Cardinality(Managed(remote)) \in Nat
    BY <2>2, FS_CardinalityType
  <2>4. Cardinality(Confirmed(remote)) = 0
    BY <1>2, FS_EmptySet
  <2>5. Cardinality(Managed(remote)) \div 2 \in Nat
    BY <2>3
  <2> QED
    BY <2>4, <2>5 DEF BulkRemoval
<1> QED
  BY <1>1, <1>3 DEF Outcome

\* What a poll that is not a type flip leaves: an array of the pinned type, and
\* so the union with it, from which nothing pinned and nothing served is missing.
LEMMA PollKeepsOneType ==
  ASSUME TypeOK, PinsAndTypeHold, NEW remote \in SUBSET Scalars, ~ TypeFlips(remote),
         NEW gone, gone \cap (remote \cup Pinned) = {}
  PROVE  LET kept == (values \cup remote \cup Pinned) \ gone
         IN  /\ kept \in SUBSET Scalars
             /\ Normalize(kept) = kept
             /\ Pinned \subseteq kept /\ remote \subseteq kept
             /\ TypesOf(kept) = {PinnedType}
<1> DEFINE kept == (values \cup remote \cup Pinned) \ gone
<1>1. values \in SUBSET Scalars
  BY DEF TypeOK
<1>2. values # {} /\ \A v \in values : v[1] = PinnedType
  BY <1>1, OneType DEF PinsAndTypeHold
<1>3. \A v \in remote : v[1] = PinnedType
  <2>1. CASE remote = {}
    BY <2>1
  <2>2. CASE remote # {}
    <3>1. TypesOf(remote) = {PinnedType}
      BY <1>2, <2>2 DEF TypeFlips, PinsAndTypeHold
    <3> QED
      BY <3>1, OneType
  <2> QED
    BY <2>1, <2>2
<1>4. kept \in SUBSET Scalars /\ \A v \in kept : v[1] = PinnedType
  BY <1>1, <1>2, <1>3, PinsAreTyped
<1>5. Pinned \subseteq kept /\ remote \subseteq kept
  OBVIOUS
<1>6. kept # {}
  BY <1>5, PinsAreTyped
<1> HIDE DEF kept
<1>7. Normalize(kept) = kept
  BY <1>4, NormalizeKeepsOneType
<1>8. TypesOf(kept) = {PinnedType}
  BY <1>4, <1>6, OneType
<1> QED
  BY <1>4, <1>5, <1>7, <1>8 DEF kept

\* The guard on bulk removals: what passes it and takes more than one value
\* takes no more of the managed slice than it leaves.
LEMMA PassingIsMinority ==
  ASSUME TypeOK, ServesFinitely, NEW remote, ~ BulkRemoval(remote),
         Cardinality(Confirmed(remote)) > 1
  PROVE  Cardinality(Confirmed(remote))
           <= Cardinality((values \ Confirmed(remote)) \ (Pinned \ remote))
<1> DEFINE M == Managed(remote)
           C == Confirmed(remote)
<1>1. IsFiniteSet(M)
  BY FS_Subset DEF Managed, ServesFinitely
<1>2. C \subseteq M
  BY ConfirmedIsAbsent DEF Managed
<1>3. (values \ C) \ (Pinned \ remote) = M \ C /\ M \cap C = C
  BY <1>2 DEF Managed
<1>4. IsFiniteSet(C) /\ Cardinality(C) <= Cardinality(M)
  BY <1>1, <1>2, FS_Subset
<1>5. Cardinality(M) \in Nat /\ Cardinality(C) \in Nat
  BY <1>1, <1>4, FS_CardinalityType
<1>6. Cardinality(M \ C) = Cardinality(M) - Cardinality(C)
  BY <1>1, <1>3, FS_Difference
<1>7. LET half == Cardinality(M) \div 2
      IN  ~ (Cardinality(M) > 1 /\ Cardinality(C) > (IF half > 1 THEN half ELSE 1))
  BY DEF BulkRemoval
<1>8. Cardinality(C) > 1
  OBVIOUS
<1> HIDE DEF M, C
<1>9. Cardinality(C) <= Cardinality(M) - Cardinality(C)
  BY <1>4, <1>5, <1>7, <1>8
<1> QED
  BY <1>3, <1>6, <1>9 DEF C

---------------------------------------------------------------------------
(* The two kinds of poll.                                                  *)

\* The facts about an accepted poll the invariance proof is built from.
AcceptedPoll(remote) ==
  /\ values' = Normalize((values \cup remote \cup Pinned) \ Confirmed(remote))
  /\ absentPolls' = [v \in Scalars |->
       IF v \in Confirmed(remote) THEN 0 ELSE Tentative(remote)[v]]
  /\ acceptedRun' = [v \in Scalars |-> Longer(acceptedRun, v, remote)]
  /\ phase' = "running"

\* A run of polls without a value stays within its bound, and grows unless the
\* value was served or the bound is reached.
LEMMA RunGrows ==
  ASSUME NEW run \in [Scalars -> 0 .. ConfirmPolls], NEW v \in Scalars, NEW remote
  PROVE  /\ Longer(run, v, remote) \in 0 .. ConfirmPolls
         /\ v \notin remote =>
              Longer(run, v, remote) = IF run[v] < ConfirmPolls THEN run[v] + 1 ELSE ConfirmPolls
BY ConfirmAssumption DEF Longer

\* The damping state after an accepted poll.
LEMMA AcceptedPollCounts ==
  ASSUME TypeOK, CountdownsAreEarned, NEW remote, AcceptedPoll(remote)
  PROVE  /\ absentPolls' \in [Scalars -> 0 .. ConfirmPolls - 1]
         /\ acceptedRun' \in [Scalars -> 0 .. ConfirmPolls]
         /\ CountdownsAreEarned'
<1>1. \A v \in Scalars : absentPolls[v] \in 0 .. ConfirmPolls - 1 /\ absentPolls[v] <= acceptedRun[v]
  BY DEF TypeOK, CountdownsAreEarned
<1>2. acceptedRun \in [Scalars -> 0 .. ConfirmPolls]
  BY DEF TypeOK
<1>3. acceptedRun' \in [Scalars -> 0 .. ConfirmPolls]
  BY <1>2, RunGrows DEF AcceptedPoll
<1>4. SUFFICES ASSUME NEW v \in Scalars
               PROVE  absentPolls'[v] \in 0 .. ConfirmPolls - 1 /\ absentPolls'[v] <= acceptedRun'[v]
  BY <1>3 DEF AcceptedPoll, CountdownsAreEarned
<1>5. /\ absentPolls'[v] = IF v \in Confirmed(remote) THEN 0 ELSE Tentative(remote)[v]
      /\ acceptedRun'[v] = Longer(acceptedRun, v, remote)
  BY DEF AcceptedPoll
<1>6. Longer(acceptedRun, v, remote) \in 0 .. ConfirmPolls
  BY <1>2, RunGrows
<1>7. CASE v \in Confirmed(remote) \/ v \notin Absent(remote)
  <2>1. absentPolls'[v] = 0
    BY <1>5, <1>7, TentativeCount
  <2> QED
    BY <1>5, <1>6, <2>1, ConfirmAssumption
<1>8. CASE v \notin Confirmed(remote) /\ v \in Absent(remote)
  <2>1. v \in values /\ v \notin remote
    BY <1>8 DEF Absent
  <2>2. absentPolls'[v] = absentPolls[v] + 1
    BY <1>5, <1>8, TentativeCount
  <2>3. ~ (absentPolls[v] + 1 >= ConfirmPolls)
    BY <1>8, <2>1, TentativeCount DEF Confirmed
  <2>4. acceptedRun'[v] = IF acceptedRun[v] < ConfirmPolls THEN acceptedRun[v] + 1 ELSE ConfirmPolls
    BY <1>2, <1>5, <2>1, RunGrows
  <2> QED
    BY <1>1, <1>2, <2>2, <2>3, <2>4, ConfirmAssumption
<1> QED
  BY <1>7, <1>8

\* The served set after an accepted poll.
LEMMA AcceptedPollServes ==
  ASSUME TypeOK, PinsAndTypeHold, NEW remote \in SUBSET Scalars, ~ TypeFlips(remote),
         AcceptedPoll(remote)
  PROVE  /\ values' = (values \cup remote \cup Pinned) \ Confirmed(remote)
         /\ values \ values' = Confirmed(remote)
         /\ values' \in SUBSET Scalars
         /\ PinsAndTypeHold'
         /\ remote \subseteq values'
<1> DEFINE kept == (values \cup remote \cup Pinned) \ Confirmed(remote)
<1>1. Confirmed(remote) \cap (remote \cup Pinned) = {}
  BY ConfirmedIsAbsent
<1>2. /\ kept \in SUBSET Scalars
      /\ Normalize(kept) = kept
      /\ Pinned \subseteq kept /\ remote \subseteq kept
      /\ TypesOf(kept) = {PinnedType}
  BY <1>1, PollKeepsOneType, Zenon
<1>3. values' = Normalize(kept)
  BY DEF AcceptedPoll
<1> HIDE DEF kept
<1>4. values' = kept
  BY <1>2, <1>3
<1>5. PinsAndTypeHold'
  BY <1>2, <1>4 DEF PinsAndTypeHold, Pinned, TypesOf
<1>6. values \ values' = Confirmed(remote)
  BY <1>4 DEF kept, Confirmed
<1> QED
  BY <1>2, <1>4, <1>5, <1>6 DEF kept

\* The served set after a refused poll: nothing leaves it, and a refused bulk
\* removal still adds its values.
LEMMA RefusedPollServes ==
  ASSUME TypeOK, PinsAndTypeHold, NEW remote \in SUBSET Scalars,
         Outcome(remote) # "accepted", values' = AfterRefusal(remote)
  PROVE  /\ values \subseteq values' /\ values' \subseteq values \cup remote \cup Pinned
         /\ values' \in SUBSET Scalars
         /\ PinsAndTypeHold'
         /\ Outcome(remote) = "bulk_removal" => remote \subseteq values'
<1>1. CASE Outcome(remote) = "bulk_removal"
  <2>1. ~ TypeFlips(remote)
    BY <1>1 DEF Outcome
  <2>2. values' = Normalize((values \cup remote \cup Pinned) \ {})
    BY <1>1 DEF AfterRefusal
  <2>3. {} \cap (remote \cup Pinned) = {}
    OBVIOUS
  <2> DEFINE kept == (values \cup remote \cup Pinned) \ {}
  <2>4. /\ kept \in SUBSET Scalars
        /\ Normalize(kept) = kept
        /\ Pinned \subseteq kept /\ remote \subseteq kept
        /\ TypesOf(kept) = {PinnedType}
    BY <2>1, <2>3, PollKeepsOneType, Zenon
  <2>5. values \subseteq kept /\ kept \subseteq values \cup remote \cup Pinned
    OBVIOUS
  <2> HIDE DEF kept
  <2>6. values' = kept
    BY <2>2, <2>4 DEF kept
  <2> QED
    BY <2>4, <2>5, <2>6 DEF PinsAndTypeHold, Pinned, TypesOf
<1>2. CASE Outcome(remote) # "bulk_removal"
  BY <1>2 DEF AfterRefusal, PinsAndTypeHold, TypeOK, Pinned
<1> QED
  BY <1>1, <1>2

---------------------------------------------------------------------------
(* Invariance.                                                             *)

\* What _poll_once does with an array keeps the invariant.
LEMMA PollKeepsInv ==
  ASSUME ProviderInv, NEW elements \in SUBSET Scalars, Poll(elements)
  PROVE  ProviderInv'
<1> DEFINE remote == Normalize(elements)
<1>1. remote \in SUBSET Scalars /\ IsFiniteSet(remote)
  BY NormalizeIsTyped, NormalizeIsFinite DEF Poll
<1> HIDE DEF remote
<1>2. /\ phase # "stopped"
      /\ lastPoll' = [remote |-> remote, outcome |-> Outcome(remote)]
      /\ successRun' = [v \in Scalars |-> Longer(successRun, v, remote)]
  BY DEF Poll, remote
<1>3. /\ Outcome(remote) = "accepted" => AcceptedPoll(remote)
      /\ Outcome(remote) # "accepted" =>
           /\ values' = AfterRefusal(remote)
           /\ UNCHANGED <<absentPolls, acceptedRun, phase>>
  BY DEF Poll, remote, AcceptedPoll
<1>4. TypeOK /\ PinsAndTypeHold /\ CountdownsAreEarned
  BY DEF ProviderInv
<1>a. IsFiniteSet(values \cup remote \cup Pinned)
  BY <1>1, PinsAreFinite, FS_Union DEF ProviderInv, ServesFinitely
<1>5. Outcome(remote) \in {"type_flip", "empty", "bulk_removal", "accepted"}
  BY DEF Outcome
<1>6. lastPoll' \in [remote : SUBSET Scalars, outcome : Outcomes]
  BY <1>1, <1>2, <1>5 DEF Outcomes
<1>7. successRun' \in [Scalars -> 0 .. ConfirmPolls]
  BY <1>2, <1>4, RunGrows DEF TypeOK
<1>8. CASE Outcome(remote) = "accepted"
  <2>1. AcceptedPoll(remote) /\ ~ TypeFlips(remote)
    BY <1>3, <1>8 DEF Outcome
  <2>2. values' \in SUBSET Scalars /\ PinsAndTypeHold' /\ remote \subseteq values'
    BY <1>1, <1>4, <2>1, AcceptedPollServes
  <2>3. /\ absentPolls' \in [Scalars -> 0 .. ConfirmPolls - 1]
        /\ acceptedRun' \in [Scalars -> 0 .. ConfirmPolls]
        /\ CountdownsAreEarned'
    BY <1>4, <2>1, AcceptedPollCounts
  <2>4. phase' = "running"
    BY <2>1 DEF AcceptedPoll
  <2>5. TypeOK'
    BY <1>6, <1>7, <2>2, <2>3, <2>4 DEF TypeOK
  <2>6. AdditionsApply'
    BY <1>2, <2>2 DEF AdditionsApply
  <2>7. values' = (values \cup remote \cup Pinned) \ Confirmed(remote)
    BY <1>1, <1>4, <2>1, AcceptedPollServes
  <2>8. ServesFinitely'
    BY <1>a, <2>7, FS_Difference DEF ServesFinitely
  <2> QED
    BY <2>2, <2>3, <2>4, <2>5, <2>6, <2>8 DEF ProviderInv, StartsFromPins, StartNeedsOnePoll
<1>9. CASE Outcome(remote) # "accepted"
  <2>1. values' = AfterRefusal(remote) /\ UNCHANGED <<absentPolls, acceptedRun, phase>>
    BY <1>3, <1>9
  <2>2. /\ values' \in SUBSET Scalars /\ PinsAndTypeHold'
        /\ values' \subseteq values \cup remote \cup Pinned
        /\ Outcome(remote) = "bulk_removal" => remote \subseteq values'
    BY <1>1, <1>4, <1>9, <2>1, RefusedPollServes
  <2>3. TypeOK'
    BY <1>4, <1>6, <1>7, <2>1, <2>2 DEF TypeOK
  <2>4. CountdownsAreEarned'
    BY <1>4, <2>1 DEF CountdownsAreEarned
  <2>5. AdditionsApply'
    BY <1>2, <1>9, <2>2 DEF AdditionsApply
  <2>6. phase' = "starting" => values' = Pinned /\ Outcome(remote) = "type_flip"
    <3>1. HAVE phase' = "starting"
    <3>2. values = Pinned
      BY <2>1, <3>1 DEF ProviderInv, StartsFromPins
    <3>3. Outcome(remote) = "type_flip"
      BY <1>4, <1>9, <3>2, PinsAreNeverRefused
    <3> QED
      BY <2>1, <3>2, <3>3 DEF AfterRefusal
  <2>7. StartsFromPins' /\ StartNeedsOnePoll'
    BY <1>2, <2>6 DEF StartsFromPins, StartNeedsOnePoll, Pinned
  <2>8. ServesFinitely'
    BY <1>a, <2>2, FS_Subset DEF ServesFinitely
  <2> QED
    BY <2>2, <2>3, <2>4, <2>5, <2>7, <2>8 DEF ProviderInv
<1> QED
  BY <1>8, <1>9

\* A fresh process satisfies the invariant, at deployment and after a restart.
LEMMA FreshProcess ==
  ASSUME Init
  PROVE  ProviderInv
<1>1. TypeOK
  BY PinsAreTyped, ConfirmAssumption DEF Init, TypeOK, NoPoll, Outcomes
<1>2. PinsAndTypeHold
  BY PinsAreTyped, OneType DEF Init, PinsAndTypeHold
<1>3. CountdownsAreEarned
  BY DEF Init, CountdownsAreEarned
<1>4. StartsFromPins /\ AdditionsApply /\ StartNeedsOnePoll
  BY DEF Init, StartsFromPins, AdditionsApply, StartNeedsOnePoll, NoPoll
<1>5. ServesFinitely
  BY PinsAreFinite DEF Init, ServesFinitely
<1> QED
  BY <1>1, <1>2, <1>3, <1>4, <1>5 DEF ProviderInv

\* The same of the state a restart leads to.
LEMMA RestartKeepsInv ==
  ASSUME Restart
  PROVE  ProviderInv'
<1>1. TypeOK'
  BY PinsAreTyped, ConfirmAssumption DEF Restart, TypeOK, NoPoll, Outcomes
<1>2. PinsAndTypeHold'
  BY PinsAreTyped, OneType DEF Restart, PinsAndTypeHold, Pinned
<1>3. CountdownsAreEarned'
  BY DEF Restart, CountdownsAreEarned
<1>4. StartsFromPins' /\ AdditionsApply' /\ StartNeedsOnePoll'
  BY DEF Restart, StartsFromPins, AdditionsApply, StartNeedsOnePoll, NoPoll, Pinned
<1>5. ServesFinitely'
  BY PinsAreFinite DEF Restart, ServesFinitely
<1> QED
  BY <1>1, <1>2, <1>3, <1>4, <1>5 DEF ProviderInv

\* Every step keeps the invariant.
LEMMA StepKeepsInv ==
  ASSUME ProviderInv, [Next]_vars
  PROVE  ProviderInv'
<1>1. CASE \E elements \in SUBSET Scalars : Poll(elements)
  BY <1>1, PollKeepsInv
<1>2. CASE PollFails
  BY <1>2 DEF PollFails, ProviderInv, ServesFinitely, TypeOK, PinsAndTypeHold, CountdownsAreEarned,
              StartsFromPins, AdditionsApply, StartNeedsOnePoll, Outcomes, Pinned, TypesOf
<1>3. CASE Stop
  BY <1>3 DEF Stop, ProviderInv, ServesFinitely, TypeOK, PinsAndTypeHold, CountdownsAreEarned,
              StartsFromPins, AdditionsApply, StartNeedsOnePoll, Pinned, TypesOf
<1>4. CASE Restart
  BY <1>4, RestartKeepsInv
<1>5. CASE UNCHANGED vars
  BY <1>5 DEF vars, ProviderInv, ServesFinitely, TypeOK, PinsAndTypeHold, CountdownsAreEarned,
              StartsFromPins, AdditionsApply, StartNeedsOnePoll, Pinned, TypesOf
<1> QED
  BY <1>1, <1>2, <1>3, <1>4, <1>5 DEF Next

\* The invariant holds throughout.
LEMMA ProviderInvariance == Spec => []ProviderInv
<1>1. Init => ProviderInv
  BY FreshProcess
<1>2. ProviderInv /\ [Next]_vars => ProviderInv'
  BY StepKeepsInv
<1> QED
  BY <1>1, <1>2, PTL DEF Spec

---------------------------------------------------------------------------
(* What leaves the served set.                                             *)

\* Only an accepted poll takes values, those whose countdown it completes.
LEMMA TakenAreConfirmed ==
  ASSUME ProviderInv, Next, phase # "stopped", values \ values' # {}
  PROVE  \E remote \in SUBSET Scalars :
           /\ lastPoll' = [remote |-> remote, outcome |-> "accepted"]
           /\ Outcome(remote) = "accepted"
           /\ acceptedRun' = [v \in Scalars |-> Longer(acceptedRun, v, remote)]
           /\ values \ values' = Confirmed(remote)
<1>1. PICK elements \in SUBSET Scalars : Poll(elements)
  BY DEF Next, PollFails, Stop, Restart
<1> DEFINE remote == Normalize(elements)
<1>2. remote \in SUBSET Scalars
  BY NormalizeIsTyped
<1> HIDE DEF remote
<1>3. /\ lastPoll' = [remote |-> remote, outcome |-> Outcome(remote)]
      /\ Outcome(remote) = "accepted" => AcceptedPoll(remote)
      /\ Outcome(remote) # "accepted" => values' = AfterRefusal(remote)
  BY <1>1 DEF Poll, remote, AcceptedPoll
<1>4. TypeOK /\ PinsAndTypeHold
  BY DEF ProviderInv
<1>5. Outcome(remote) = "accepted"
  BY <1>2, <1>3, <1>4, RefusedPollServes
<1>6. AcceptedPoll(remote) /\ ~ TypeFlips(remote)
  BY <1>3, <1>5 DEF Outcome
<1>7. values \ values' = Confirmed(remote)
  BY <1>2, <1>4, <1>6, AcceptedPollServes
<1> QED
  BY <1>2, <1>3, <1>5, <1>6, <1>7 DEF AcceptedPoll

\* An accepted poll completes only the countdown of accepted polls in a row.
LEMMA ConfirmedWereAbsent ==
  ASSUME ProviderInv, NEW remote, NEW v \in Confirmed(remote),
         acceptedRun' = [x \in Scalars |-> Longer(acceptedRun, x, remote)]
  PROVE  acceptedRun'[v] >= ConfirmPolls
<1>1. v \in Scalars /\ v \notin remote /\ absentPolls[v] + 1 >= ConfirmPolls
  BY ConfirmedIsAbsent DEF ProviderInv, TypeOK
<1>2. acceptedRun \in [Scalars -> 0 .. ConfirmPolls] /\ absentPolls[v] \in Nat
      /\ absentPolls[v] <= acceptedRun[v]
  BY <1>1, ConfirmAssumption DEF ProviderInv, TypeOK, CountdownsAreEarned
<1>3. acceptedRun'[v] = IF acceptedRun[v] < ConfirmPolls THEN acceptedRun[v] + 1 ELSE ConfirmPolls
  BY <1>1, <1>2, RunGrows
<1> QED
  BY <1>1, <1>2, <1>3, ConfirmAssumption

---------------------------------------------------------------------------
(* Theorems.                                                               *)

\* The provider's variables keep their types; in particular no countdown ever
\* rests at the confirmation bound (_poll_once, the update of _absent_polls).
THEOREM TypeCorrect == Spec => []TypeOK
BY ProviderInvariance, PTL DEF ProviderInv

\* The pins are always served and the set never mixes scalar types, so the
\* filter's cast against the column cannot start to drop whole batches.
THEOREM PinsAlwaysHold == Spec => []PinsAndTypeHold
BY ProviderInvariance, PTL DEF ProviderInv

\* No addition is starved, not even that of a poll whose removals are refused.
THEOREM AdditionsAlwaysApply == Spec => []AdditionsApply
BY ProviderInvariance, PTL DEF ProviderInv

\* While start() is waiting, the only refusal it can have met is the type guard.
THEOREM StartIsNeverRefused == Spec => []StartNeedsOnePoll
BY ProviderInvariance, PTL DEF ProviderInv

\* Within a process a value leaves the served set only on an accepted poll that
\* ends ConfirmPolls accepted polls in a row without it, and a poll that takes
\* more than one takes no more than half of what the endpoint governs.
THEOREM RemovalsAlwaysDamped == Spec => RemovalsAreDamped
<1>1. ASSUME ProviderInv, Next, phase # "stopped"
      PROVE  /\ \A v \in values \ values' :
                  /\ lastPoll'.outcome = "accepted"
                  /\ acceptedRun'[v] >= ConfirmPolls
             /\ Cardinality(values \ values') > 1 =>
                  Cardinality(values \ values')
                    <= Cardinality((values \cap values') \ (Pinned \ lastPoll'.remote))
  <2>1. CASE values \ values' = {}
    <3>1. Cardinality(values \ values') = 0
      BY <2>1, FS_EmptySet
    <3> QED
      BY <2>1, <3>1
  <2>2. CASE values \ values' # {}
    <3>1. PICK remote \in SUBSET Scalars :
            /\ lastPoll' = [remote |-> remote, outcome |-> "accepted"]
            /\ Outcome(remote) = "accepted"
            /\ acceptedRun' = [v \in Scalars |-> Longer(acceptedRun, v, remote)]
            /\ values \ values' = Confirmed(remote)
      BY <1>1, <2>2, TakenAreConfirmed
    <3>2. \A v \in values \ values' : acceptedRun'[v] >= ConfirmPolls
      BY <1>1, <3>1, ConfirmedWereAbsent
    <3>3. ~ BulkRemoval(remote)
      BY <3>1 DEF Outcome
    <3>4. values \cap values' = values \ Confirmed(remote)
      BY <3>1
    <3>5. Cardinality(Confirmed(remote)) > 1 =>
            Cardinality(Confirmed(remote))
              <= Cardinality((values \ Confirmed(remote)) \ (Pinned \ remote))
      BY <1>1, <3>3, PassingIsMinority DEF ProviderInv
    <3>6. lastPoll'.outcome = "accepted" /\ lastPoll'.remote = remote
      BY <3>1
    <3> QED
      BY <3>1, <3>2, <3>4, <3>5, <3>6
  <2> QED
    BY <2>1, <2>2
<1>2. ProviderInv /\ [Next]_vars =>
        [phase # "stopped" =>
           /\ \A v \in values \ values' :
                /\ lastPoll'.outcome = "accepted"
                /\ acceptedRun'[v] >= ConfirmPolls
           /\ Cardinality(values \ values') > 1 =>
                Cardinality(values \ values')
                  <= Cardinality((values \cap values') \ (Pinned \ lastPoll'.remote))]_vars
  BY <1>1
<1> QED
  BY <1>2, ProviderInvariance, PTL DEF Spec, RemovalsAreDamped
=============================================================================
