SPECIFICATION CollectionSpec
CONSTANTS
    RawPlans <- FewPlans
    Learned <- OneLearned
    Terms <- AnyTerm
    BadTerms = {"x"}
INVARIANTS PromptHonoured
CHECK_DEADLOCK FALSE
