SPECIFICATION Spec
CONSTANTS
    Families = {"table", "table3"}
    Parameters <- MCParameters
    Calls <- MCCalls
INVARIANTS
    SearchSortedAgrees
CHECK_DEADLOCK FALSE
