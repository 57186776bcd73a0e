SPECIFICATION CollectionSpec
CONSTANTS
    RawPlans <- FewPlans
    Learned <- OneLearned
    Terms <- AnyTerm
    BadTerms = {"x"}
INVARIANTS CollectionTypeOK AnsweredIsComplete CompleteIsOfTheIncident
CHECK_DEADLOCK FALSE
