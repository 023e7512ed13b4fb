SPECIFICATION Spec
CONSTANT Job = {"j1", "j2"}
INVARIANT UnpublishedHoldsNoLease
