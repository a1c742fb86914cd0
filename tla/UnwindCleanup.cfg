SPECIFICATION Spec
CONSTANTS Name = {"a", "b"} MaxDepth = 2 MaxFrames = 3 MaxForms = 2
INVARIANT CleanupRuns
