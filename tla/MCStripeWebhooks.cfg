SPECIFICATION Spec
CONSTANTS
    e1 = e1
    e2 = e2
    h1 = h1
    h2 = h2
    h3 = h3
    Events = {e1, e2}
    Handlers = {h1, h2, h3}
    Parts = 2
    MaxFaults = 2
    Patience = {TRUE, FALSE}
    Prompt = TRUE
CHECK_DEADLOCK FALSE
INVARIANTS OneAtATime AnsweredIsApplied
PROPERTIES ProcessedIsFinal PatientEventsApplied
