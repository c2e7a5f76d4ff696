SPECIFICATION Spec
CONSTANTS
    Imported = 2
    Clients = {"c1", "c2"}
    LastDay = 3
    Weekend = {1, 3}
    Skus = {"a"}
    Orders <- MCOrders
    Shift <- MCShift
    LastFrom = 2
    LastTo = {3, 4}
    DayEnd = 4
    Crew = 2
    OwnMinutes = 0
    Resources = {"m", "t"}
    Stops <- MCStops
    Leaves <- MCLeaves
    Dates = {1}
    Requests <- MCRequests
    Promises <- MCPromises
    Extension = 2
    MaxApplied = 3
    MaxEdits = 1
INVARIANTS
    CalendarAsAsked
    DemandAsAsked
    RebuiltAsHeld
