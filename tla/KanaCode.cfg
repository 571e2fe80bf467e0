SPECIFICATION Spec
CONSTANTS
    First <- MCFirst
    Starts <- MCStarts
    Others <- MCOthers
    MaxText = 3
CHECK_DEADLOCK FALSE
INVARIANTS CodesAgree RoomRespected WidthExact
