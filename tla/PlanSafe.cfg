SPECIFICATION Spec
INVARIANTS AutoPlanIsSafe FutileRestartIsNeverReviewed
CHECK_DEADLOCK FALSE
