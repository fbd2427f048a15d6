SPECIFICATION Spec
CONSTANTS
    lan = lan
    soft = soft
    Db = db
    Shell = shell
    Null = null
    Ports = {lan, soft}
    Blocking = {lan}
    Supports <- MCSupports
    Ifaces = {"octet", "int32"}
    Fields = {"baud", "ieos"}
    HostInfo = "hostinfo"
    EosFields = {"ieos"}
    Values = {1, 2}
    Scenarios <- MCScenarios
    Careful = TRUE
INVARIANTS OneCompletion UndoneShown FieldsShown Registered
PROPERTIES RecordEnds
CHECK_DEADLOCK FALSE
