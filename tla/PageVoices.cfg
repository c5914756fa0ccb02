\* Two turns that may overlap, or one and a notice; up to three chunks of voice each.
CONSTANTS
    Turns = {a, b}
    Nobody = Nobody
    Cloud = Cloud
    Murmur = Murmur
    Notice = Notice
    MaxTickets = 3
    MaxLines = 2
SPECIFICATION Spec
CHECK_DEADLOCK FALSE
INVARIANTS HeardAsWritten OlderGivesWay
PROPERTIES MurmursYield EveryReplyIsHeard
