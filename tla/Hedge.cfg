SPECIFICATION FairSpec
CONSTANT Policies <- AllPolicies
INVARIANTS OneResult LosersCanceled OutputHasCause ExceededNeverEarly
PROPERTIES CancelEndsApply AcceptedEndsApply GoroutinesEnd
