CONSTANTS VsEdits = 2 VsDialogs = 1 VsPolls = 2 VsStarts = 1 VsTrouble = 1
SPECIFICATION Spec
INVARIANTS EditsAreSaved
CHECK_DEADLOCK FALSE
