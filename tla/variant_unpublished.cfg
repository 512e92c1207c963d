SPECIFICATION Spec
CONSTANTS
    MaxGeneration = 3
    Onboarding = TRUE
INVARIANT ReportedIsPublished
