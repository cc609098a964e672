CONSTANTS
    Kind = {"memory", "csv", "jsonl", "sqlite", "parquet", "postgres"}
    Stream <- MCStream
    BatchSize = 2
    Found = {"absent", "same", "narrow"}
    MaxStarts = 6
SPECIFICATION Spec
CHECK_DEADLOCK FALSE
INVARIANTS TypeOK CountedIsDurable StoredOnce TicksAreWhole SummaryIsTrue
