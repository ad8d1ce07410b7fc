SPECIFICATION Spec
CONSTANTS
    Runs = {a, b, c}
    Nobody = nobody
    MaxRows = 2
INVARIANT ReportsAreTrue
PROPERTIES SchemaMatchesRecord RowsKeepTheirJudgment
