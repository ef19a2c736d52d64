SPECIFICATION Spec
CONSTANTS
    Requests = {r1, r2}
    Agenda = {a1, a2}
    Expenses = {x1}
    NoEntry = NoEntry
    Days = 2
    Forms <- MCForms
    MaxValue = 2
    Mixes <- MCMixes
    Faults = {"db", "crash"}
CHECK_DEADLOCK FALSE
SYMMETRY Symmetry
INVARIANTS
    CheckedDaysAreInRange
    OverviewCountsOnce
    FiltersMissNoEvent
PROPERTIES
    UpdatesKeepDatesOrdered
    DeletedForGood
