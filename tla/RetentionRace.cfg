SPECIFICATION Spec
CONSTANTS
    Modelled = {"legal", "topic", "topicMatch"}
    MaxId = 5
    MaxSources = 3
    MaxPrunes = 1
    MaxFailures = 0
    Overlap = TRUE
PROPERTY RetainedOutlives
CHECK_DEADLOCK FALSE
