SPECIFICATION Spec
CONSTANTS
    MaxGeneration = 3
    Onboarding = FALSE
PROPERTY ReportsCurrentGeneration
