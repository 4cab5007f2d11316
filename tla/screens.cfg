SPECIFICATION Spec
CONSTANTS
    Catalog <- Everything
INVARIANTS TypeOK SettledPageIsCurrent OfferedIsAccepted OneSubmission AwaitedIsUnderWay
PROPERTIES SuccessIsFresh LateSuccessStays
