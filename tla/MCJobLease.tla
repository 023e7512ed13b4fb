----------------------------- MODULE MCJobLease -----------------------------
(***************************************************************************)
(* Small instances of JobLease for TLC.                                    *)
(***************************************************************************)
EXTENDS JobLease

\* Two jobs of one consumer on two nodes.  The account just covers both.
TwoConsumer == [j \in Job |-> "alice"]
TwoBase == [j \in Job |-> IF j = "j1" THEN 2 ELSE 1]
TwoAttempts == [j \in Job |-> IF j = "j1" THEN 2 ELSE 1]
TwoSpeed == [j \in Job |-> IF j = "j1" THEN "slow" ELSE "standard"]
NoPin == [j \in {} |-> "i1"]
TwoNodeOf == [i \in Instance |-> IF i = "i1" THEN "n1" ELSE "n2"]
BobOwns == [n \in Node |-> "bob"]
TwoGrant == [u \in User |-> IF u = "alice" THEN 5 ELSE 0]

\* n1 belongs to another user, n2 to the consumer, who then serves itself.
MixedOwner == [n \in Node |-> IF n = "n1" THEN "bob" ELSE "alice"]

\* Three jobs that compete for the slots of one node.
ThreeBase == [j \in Job |-> 1]
ThreeAttempts == [j \in Job |-> IF j = "j1" THEN 2 ELSE 1]
ThreeSpeed == [j \in Job |-> IF j = "j3" THEN "fast" ELSE "slow"]
OneNodeOf == [i \in Instance |-> "n1"]
ThreeGrant == [u \in User |-> IF u = "alice" THEN 6 ELSE 0]

\* A regulated job pinned to i1 beside an ordinary one.
PinFirst == [j \in Regulated |-> "i1"]
=============================================================================
