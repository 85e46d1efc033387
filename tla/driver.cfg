SPECIFICATION Spec
CONSTANTS
    LF = LF
    LR = LR
    RF = RF
    MotorOrder <- MCMotorOrder
    LeftMotors = {LF, LR}
    Inverted = {LR}
    Requests <- MCRequests
INVARIANTS TypeOK PoweredAsBelieved SuccessIsReal FailureIsPartial
PROPERTIES PinsSwitchAtRest RestsBeforeReversing
