SPECIFICATION Spec
CONSTANTS
    RawPlans <- SomePlans
    Learned <- SomeLearned
    Terms <- AnyTerm
    BadTerms = {"x"}
INVARIANTS TypeOK Canonical ContractKept MergeStable ReusedIsVerified
CHECK_DEADLOCK FALSE
