SPECIFICATION SuiteSpec
CONSTANT Absent = Absent
INVARIANTS
    BenchExact
    LoadgenExact
PROPERTY
    ToolsEnd
CHECK_DEADLOCK FALSE
