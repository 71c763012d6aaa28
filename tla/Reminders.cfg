CONSTANT
    STAGES <- CodeStages
SPECIFICATION ReminderSpec
INVARIANTS
    OneNudgeADay
PROPERTIES
    NotTooSoon
