----------------------------- MODULE MCSequence -----------------------------
(***************************************************************************)
(* Instances of Sequence for TLC.  Class "ab" matches two steps of a rule; *)
(* rule 1 has three steps and rule 2 two.  Nothing tells the containers    *)
(* apart, so they may be exchanged (Alike).                                *)
(***************************************************************************)
EXTENDS Sequence, TLC

One == {"web"}
KindsAB == {"a", "ab"}
Rules1 == {1}
Rules2 == {1, 2}

ThreeSteps == <<{"a", "ab"}, {"ab"}, {"a"}>>
TwoSteps == <<{"ab"}, {"a"}>>
StepsOfOne == [r \in Rules1 |-> ThreeSteps]
StepsOfPair == [r \in Rules2 |-> IF r = 1 THEN ThreeSteps ELSE TwoSteps]
RankOfOne == [r \in Rules1 |-> 3]
RankOfPair == [r \in Rules2 |-> IF r = 1 THEN 3 ELSE 1]
Everywhere == [r \in Rules |-> Containers]
ShortWindow == [r \in Rules |-> 1]
LongWindow == [r \in Rules |-> 2]
Alike == Permutations(Containers)

Quiet == [k \in Kinds |-> IF k = "a" THEN 1 ELSE 0]
AllRules == {[single |-> Quiet, rules |-> Rules]}
=============================================================================
