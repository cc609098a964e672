------------------------------- MODULE Sinks -------------------------------
(***************************************************************************)
(* A recording on its way to storage: pipe(), which buffers the samples of *)
(* the recorder's stream and hands them to a sink, and the six sinks with  *)
(* what each keeps in memory and what a reader finds in its file or table. *)
(*                                                                         *)
(* Writes fail, tasks are cancelled, the process dies and is started       *)
(* again; a sink is closed and reopened, and a pipe run again on it.       *)
(***************************************************************************)
EXTENDS Naturals, Sequences, FiniteSets, SequencesExt

CONSTANTS
    Kind,       \* the sinks considered, see Kinds
    Stream,     \* the batches of the recorder, one sequence of samples each
    BatchSize,  \* pipe's batch_size
    Found,      \* what table may be there at first, see Tables
    MaxStarts   \* bound: opens, pipes and processes started

Kinds == {"memory", "csv", "jsonl", "sqlite", "parquet", "postgres"}

\* A SQL table: none, one with the columns of a row, one that lacks some.
Tables == {"absent", "same", "narrow"}

\* What a row says of its value: the scalar types of sample_to_row.
Scalar == {"none", "int", "float", "str"}
Sample == [id : Nat \ {0}, type : Scalar]

ASSUME SinksAssumption ==
    /\ Kind \subseteq Kinds
    /\ Stream \in Seq(Seq(Sample))
    /\ BatchSize \in Nat \ {0}
    /\ Found \subseteq Tables
    /\ MaxStarts \in Nat

\* A sample's id is its place in the recording.
ASSUME SamplesNumbered ==
    \A b, c \in 1..Len(Stream) : \A i \in 1..Len(Stream[b]), j \in 1..Len(Stream[c]) :
        b < c \/ (b = c /\ i < j) => Stream[b][i].id < Stream[c][j].id

Text == {"csv", "jsonl"}
Sql == {"sqlite", "postgres"}
Torn == 0   \* a line that does not parse

VARIABLES
    kind,     \* the sink in use
    create,   \* create_table of the SQL sinks
    store,    \* what a reader finds: the ids of the rows, Torn for half a line
    table,    \* the SQL table
    column,   \* the type of its value column
    midline,  \* the file ends in half a line
    ragged,   \* history: it did so when it was opened
    handle,   \* file, connection, pool or pyarrow module: is it open?
    writer,   \* CSV writer, Parquet writer or INSERT statement: is it there?
    locked,   \* SchemaLock: the type of the value column, "unlocked" before
    cached,   \* rows in the file object or the Parquet writer, not yet readable
    half,     \* the first of them is partly in the file
    pc,       \* where the program is, see Points
    last,     \* is the flush under way the one at the end of the stream?
    buffer,   \* pipe's buffer
    next,     \* the next batch of the stream
    emitted,  \* pipe's count
    taken,    \* history: ids this pipe took from the stream
    counted,  \* history: ids some pipe has counted
    starts    \* history, for the bound

diskVars == <<store, table, column, midline>>
sinkVars == <<handle, writer, locked, cached, half>>
pipeVars == <<last, buffer, next, emitted, taken, counted>>
vars == <<kind, create, ragged, diskVars, sinkVars, pc, pipeVars, starts>>

\* no process; the sink built or closed; reading the columns of the table; its
\* open() has raised; ready for a pipe; pipe at the stream; in a flush before
\* the table is created; before the rows are written; pipe returned; or raised.
Points == {"down", "closed", "introspect", "refused", "ready", "stream",
           "create", "write", "returned", "raised"}

Ids(rows) == {rows[i].id : i \in 1..Len(rows)}
IdSeq(rows) == [i \in 1..Len(rows) |-> rows[i].id]

Init ==
    /\ kind \in Kind
    /\ create \in IF kind \in Sql THEN BOOLEAN ELSE {TRUE}
    /\ table \in IF kind \in Sql THEN Found ELSE {"absent"}
    /\ column = "float"
    /\ store = <<>> /\ midline = FALSE /\ ragged = FALSE
    /\ handle = FALSE /\ writer = FALSE /\ locked = "unlocked"
    /\ cached = <<>> /\ half = FALSE
    /\ pc = "closed" /\ last = FALSE
    /\ buffer = <<>> /\ next = 1 /\ emitted = 0 /\ taken = {} /\ counted = {}
    /\ starts = 0

-----------------------------------------------------------------------------
(***************************************************************************)
(* SchemaLock                                                              *)
(***************************************************************************)

\* The types of the values there are
Types(rows) == {rows[i].type : i \in 1..Len(rows)} \ {"none"}

\* Mutant: a column without any value keeps no type.
InferredRaw(rows) ==
    CASE Types(rows) = {} -> "none"
      [] Types(rows) = {"int"} -> "int"
      [] Types(rows) \subseteq {"int", "float"} -> "float"
      [] OTHER -> "str"

\* _infer_column: integers stay integers, numbers are floats, and any other mix,
\* or no value at all, is text.
Inferred(rows) ==
    IF Types(rows) = {"int"} THEN "int"
    ELSE IF Types(rows) # {} /\ Types(rows) \subseteq {"int", "float"} THEN "float"
    ELSE "str"

\* Values are handed on as they are: a strict column takes its own type, an
\* integer as a float, and no number as text.
Fits(rows, col) ==
    \A i \in 1..Len(rows) : \/ rows[i].type \in {"none", col}
                            \/ rows[i].type = "int" /\ col = "float"

-----------------------------------------------------------------------------
(***************************************************************************)
(* Opening and closing the sink                                            *)
(***************************************************************************)

\* mid: whether the file is found to end in half a line.
Opening(point, mid) ==
    /\ pc \in {"closed", "refused"}
    /\ starts < MaxStarts
    /\ starts' = starts + 1
    /\ handle' = TRUE
    /\ pc' = point
    /\ midline' = mid /\ ragged' = mid
    /\ UNCHANGED <<kind, create, table, column, writer, locked, cached, half, pipeVars>>

OpenMemory == kind = "memory" /\ Opening("ready", FALSE) /\ UNCHANGED store

\* A CSV file is truncated.
OpenCsv == kind = "csv" /\ Opening("ready", FALSE) /\ store' = <<>>

\* A JSONL file is appended to, whatever it ends in.
OpenJsonl == kind = "jsonl" /\ Opening("ready", midline) /\ UNCHANGED store

\* A Parquet file is not touched before the first batch.
OpenParquet == kind = "parquet" /\ Opening("ready", FALSE) /\ UNCHANGED store

\* A SQL sink that may not create its table reads its columns next.
OpenSqlite ==
    /\ kind = "sqlite"
    /\ Opening(IF create THEN "ready" ELSE "introspect", FALSE)
    /\ UNCHANGED store

\* With a pool in its hand Postgres takes itself for open.
OpenPostgres ==
    /\ kind = "postgres"
    /\ Opening(IF create \/ handle THEN "ready" ELSE "introspect", FALSE)
    /\ UNCHANGED store

\* The connection, pool, module or file cannot be had.
OpenFails ==
    /\ pc = "closed" /\ ~handle
    /\ starts < MaxStarts
    /\ kind # "memory"
    /\ starts' = starts + 1
    /\ pc' = "refused"
    /\ UNCHANGED <<kind, create, ragged, diskVars, sinkVars, pipeVars>>

\* lock_to() the columns found.
LockTo ==
    /\ pc = "introspect"
    /\ table # "absent"
    /\ locked = "unlocked"
    /\ locked' = column
    /\ writer' = TRUE
    /\ pc' = "ready"
    /\ UNCHANGED <<kind, create, ragged, diskVars, handle, cached, half, pipeVars,
                   starts>>

IntrospectSqlite == kind = "sqlite" /\ LockTo
IntrospectPostgres == kind = "postgres" /\ LockTo

\* No such table, an error, a cancellation, or a schema locked since an earlier
\* open.  SQLite gives its connection back, Postgres keeps its pool.
IntrospectFails ==
    /\ pc = "introspect"
    /\ handle' = (kind = "postgres")
    /\ pc' = "refused"
    /\ UNCHANGED <<kind, create, ragged, diskVars, writer, locked, cached, half, pipeVars,
                   starts>>

\* A row written to a file that ends in half a line becomes part of that line.
Land(rows) == IF midline /\ rows # <<>> THEN Tail(rows) ELSE rows

\* The first n cached rows reach the file, and part of the next if torn.
Flushed(rows, n, torn) ==
    /\ store' = store \o Land(SubSeq(rows, 1, n))
    /\ midline' = (midline /\ n = 0)
    /\ cached' = SubSeq(rows, n + 1, Len(rows))
    /\ half' = torn

\* The file object is gone: n of its rows have reached the file and the others
\* are lost, but for a part of the next if torn.
Dropped(rows, n, torn) ==
    LET whole == store \o Land(SubSeq(rows, 1, n))
        open == midline /\ n = 0
    IN /\ n = Len(rows) => ~torn
       /\ n = 0 /\ half => torn
       /\ store' = IF torn /\ ~open THEN Append(whole, Torn) ELSE whole
       /\ midline' = (torn \/ open)
       /\ cached' = <<>> /\ half' = FALSE

Closing ==
    /\ pc \in {"ready", "refused", "returned", "raised"}
    /\ handle' = FALSE
    /\ pc' = "closed"
    /\ UNCHANGED <<kind, create, ragged, table, column, locked, pipeVars, starts>>

CloseMemory ==
    /\ kind = "memory" /\ Closing
    /\ UNCHANGED <<store, midline, writer, cached, half>>

\* A text file writes out what it still can.
CloseText ==
    /\ \E n \in 0..Len(cached), torn \in BOOLEAN : Dropped(cached, n, torn)
    /\ writer' = FALSE
    /\ Closing

CloseCsv == kind = "csv" /\ CloseText
CloseJsonl == kind = "jsonl" /\ CloseText

\* The writer adds the footer that makes the file one.
CloseParquet ==
    /\ kind = "parquet" /\ Closing
    /\ store' = IF writer THEN cached ELSE store
    /\ cached' = <<>>
    /\ writer' = FALSE
    /\ UNCHANGED <<midline, half>>

\* The schema and the INSERT statement stay as they are.
CloseSqlite ==
    /\ kind = "sqlite" /\ Closing
    /\ UNCHANGED <<store, midline, writer, cached, half>>

ClosePostgres ==
    /\ kind = "postgres" /\ Closing
    /\ UNCHANGED <<store, midline, writer, cached, half>>

-----------------------------------------------------------------------------
(***************************************************************************)
(* pipe                                                                    *)
(***************************************************************************)

\* A pipe starts, or starts again after one that raised, on an open sink.
Start ==
    /\ pc \in {"ready", "raised"}
    /\ starts < MaxStarts
    /\ starts' = starts + 1
    /\ pc' = "stream"
    /\ buffer' = <<>> /\ emitted' = 0 /\ taken' = {} /\ last' = FALSE
    /\ UNCHANGED <<kind, create, ragged, diskVars, sinkVars, next, counted>>

\* Where write_many takes the program: a table to create first, or the rows.
\* The schema is locked before anything is awaited.
FlushPoint == IF kind \in Sql /\ create /\ locked = "unlocked" THEN "create" ELSE "write"

\* A batch arrives; the buffer is full, or flush_interval has gone by.
Receive ==
    /\ pc = "stream"
    /\ next <= Len(Stream)
    /\ next' = next + 1
    /\ buffer' = buffer \o Stream[next]
    /\ taken' = taken \cup Ids(Stream[next])
    /\ \E elapsed \in BOOLEAN :
          IF buffer' # <<>> /\ (Len(buffer') >= BatchSize \/ elapsed)
          THEN /\ pc' = FlushPoint
               /\ locked' = IF FlushPoint = "create" THEN Inferred(buffer') ELSE locked
          ELSE UNCHANGED <<pc, locked>>
    /\ UNCHANGED <<kind, create, ragged, diskVars, handle, writer, cached, half, last,
                   emitted, counted, starts>>

\* Mutant: what is buffered when the stream ends is not written.
LeftoverNone == FALSE

Leftover == buffer # <<>>

\* The recorder closes its stream: what is left is flushed.
StreamEnds ==
    /\ pc = "stream"
    /\ last' = TRUE
    /\ pc' = IF Leftover THEN FlushPoint ELSE "returned"
    /\ locked' = IF Leftover /\ FlushPoint = "create" THEN Inferred(buffer) ELSE locked
    /\ UNCHANGED <<kind, create, ragged, diskVars, handle, writer, cached, half, buffer,
                   next, emitted, taken, counted, starts>>

\* CREATE TABLE IF NOT EXISTS.
Created ==
    /\ pc = "create"
    /\ IF table = "absent"
       THEN table' = "same" /\ column' = locked
       ELSE UNCHANGED <<table, column>>
    /\ writer' = TRUE
    /\ pc' = "write"
    /\ UNCHANGED <<kind, create, ragged, store, midline, handle, locked, cached, half,
                   pipeVars, starts>>

CreateSqlite == kind = "sqlite" /\ Created
CreatePostgres == kind = "postgres" /\ Created

\* Mutant: the buffer is not cleared.
CountedKeeping ==
    /\ emitted' = emitted + Len(buffer)
    /\ counted' = counted \cup Ids(buffer)
    /\ pc' = IF last THEN "returned" ELSE "stream"
    /\ UNCHANGED <<buffer, last, next, taken>>

\* write_many returned: the rows are counted and the buffer cleared.
Counted ==
    /\ emitted' = emitted + Len(buffer)
    /\ counted' = counted \cup Ids(buffer)
    /\ buffer' = <<>>
    /\ pc' = IF last THEN "returned" ELSE "stream"
    /\ UNCHANGED <<last, next, taken>>

\* Mutant: the transaction is never committed.
CommittedNot(rows) == UNCHANGED store

\* One transaction, or one COPY: all rows of the batch.
Committed(rows) == store' = store \o rows

\* The INSERT is there and the table takes the batch: it has the columns the
\* INSERT names, and for Postgres the values are of their types.
Accepts ==
    /\ pc = "write" /\ kind \in Sql
    /\ writer
    /\ ~(create /\ table = "narrow")
    /\ kind = "postgres" => Fits(buffer, column)

Inserted ==
    /\ Accepts
    /\ Committed(IdSeq(buffer))
    /\ Counted
    /\ UNCHANGED <<kind, create, ragged, table, column, midline, sinkVars, starts>>

\* BEGIN IMMEDIATE, the INSERTs, COMMIT.
InsertSqlite == kind = "sqlite" /\ Inserted

\* A COPY, or an executemany in a transaction.
CopyPostgres == kind = "postgres" /\ Inserted

WriteMemory ==
    /\ pc = "write" /\ kind = "memory"
    /\ store' = store \o IdSeq(buffer)
    /\ Counted
    /\ UNCHANGED <<kind, create, ragged, table, column, midline, sinkVars, starts>>

WriteText ==
    /\ pc = "write"
    /\ Flushed(cached \o IdSeq(buffer), Len(cached) + Len(buffer), FALSE)
    /\ Counted
    /\ UNCHANGED <<kind, create, ragged, table, column, handle, locked, starts>>

\* The first batch writes the header, and sets the columns.
WriteCsv == kind = "csv" /\ WriteText /\ writer' = TRUE
WriteJsonl == kind = "jsonl" /\ WriteText /\ UNCHANGED writer

\* The first batch locks the schema and opens the writer, and with it a new
\* file; a schema locked without a writer is an assertion.
WriteParquet ==
    /\ pc = "write" /\ kind = "parquet"
    /\ writer \/ locked = "unlocked"
    /\ locked' = IF locked = "unlocked" THEN Inferred(buffer) ELSE locked
    /\ Fits(buffer, locked')
    /\ store' = IF writer THEN store ELSE <<>>
    /\ writer' = TRUE
    /\ cached' = cached \o IdSeq(buffer)
    /\ Counted
    /\ UNCHANGED <<kind, create, ragged, table, column, midline, handle, half, starts>>

Raise ==
    /\ pc' = "raised"
    /\ UNCHANGED <<kind, create, ragged, table, column, handle, pipeVars, starts>>

\* The CREATE, or the task, is stopped: the schema stays locked.
CreateFails ==
    /\ pc = "create"
    /\ Raise
    /\ UNCHANGED <<store, midline, writer, locked, cached, half>>

\* Mutant: rows inserted before the error stay.
RolledBackNot ==
    \/ UNCHANGED store
    \/ Accepts /\ \E n \in 1..Len(buffer) : store' = store \o SubSeq(IdSeq(buffer), 1, n)

\* A failed SQLite transaction is rolled back; of a Postgres batch whose
\* connection was lost it is not known whether it was committed.
RolledBack ==
    \/ UNCHANGED store
    \/ kind = "postgres" /\ Accepts /\ Committed(IdSeq(buffer))

\* The INSERT is missing since a CREATE failed, a value does not fit, or the
\* database has an error of its own.
InsertFails ==
    /\ pc = "write" /\ kind \in Sql
    /\ RolledBack
    /\ Raise
    /\ UNCHANGED <<midline, writer, locked, cached, half>>

\* Some of the rows are in the file, the others stay in the file object.
TextFails ==
    /\ pc = "write" /\ kind \in Text
    /\ LET rows == cached \o IdSeq(buffer) IN
       \E n \in 0..Len(rows) - 1, torn \in BOOLEAN :
           Flushed(rows, n, torn \/ (half /\ n = 0))
    /\ writer' = (kind = "csv")
    /\ Raise
    /\ UNCHANGED locked

\* The writer cannot be opened, a value does not fit the schema, or a schema is
\* locked and the writer gone.
ParquetFails ==
    /\ pc = "write" /\ kind = "parquet"
    /\ locked' = IF locked = "unlocked" THEN Inferred(buffer) ELSE locked
    /\ \/ UNCHANGED <<store, writer>>
       \/ locked = "unlocked" /\ writer' = TRUE /\ store' = <<>>
    /\ Raise
    /\ UNCHANGED <<midline, cached, half>>

\* The task is cancelled as it waits for the stream or, before anything is
\* done, for a worker thread or a connection.
Cancelled ==
    /\ pc = "stream" \/ (pc \in {"create", "write"} /\ kind \in Sql)
    /\ Raise
    /\ UNCHANGED <<store, midline, writer, locked, cached, half>>

-----------------------------------------------------------------------------
(***************************************************************************)
(* The process                                                             *)
(***************************************************************************)

\* The process dies.  A transaction under way is committed or not, a text file
\* has been given any part of the rows being written, a Parquet file without
\* its footer cannot be read.
Die ==
    /\ pc # "down"
    /\ pc' = "down"
    /\ handle' = FALSE /\ writer' = FALSE /\ locked' = "unlocked"
    /\ LET rows == IF pc = "write" THEN IdSeq(buffer) ELSE <<>> IN
       \/ kind = "memory" /\ store' = <<>> /\ UNCHANGED <<midline, cached, half>>
       \/ /\ kind \in Text
          /\ \E n \in 0..Len(cached \o rows), torn \in BOOLEAN :
                /\ n > 0 \/ torn # half => rows # <<>>
                /\ Dropped(cached \o rows, n, torn)
       \/ /\ kind \in Sql
          /\ UNCHANGED store \/ (Accepts /\ Committed(rows))
          /\ UNCHANGED <<midline, cached, half>>
       \/ /\ kind = "parquet"
          /\ store' = IF writer THEN <<>> ELSE store
          /\ cached' = <<>>
          /\ UNCHANGED <<midline, half>>
    /\ buffer' = <<>> /\ emitted' = 0 /\ taken' = {} /\ last' = FALSE
    /\ UNCHANGED <<kind, create, ragged, table, column, next, counted, starts>>

\* It is started again, with a new sink on the same path or table.
Restart ==
    /\ pc = "down"
    /\ starts < MaxStarts
    /\ starts' = starts + 1
    /\ pc' = "closed"
    /\ UNCHANGED <<kind, create, ragged, diskVars, sinkVars, pipeVars>>

Opens ==
    \/ OpenMemory \/ OpenCsv \/ OpenJsonl \/ OpenParquet \/ OpenSqlite \/ OpenPostgres
    \/ OpenFails \/ IntrospectSqlite \/ IntrospectPostgres \/ IntrospectFails

Closes ==
    \/ CloseMemory \/ CloseCsv \/ CloseJsonl \/ CloseParquet \/ CloseSqlite
    \/ ClosePostgres

Writes ==
    \/ CreateSqlite \/ CreatePostgres \/ InsertSqlite \/ CopyPostgres
    \/ WriteMemory \/ WriteCsv \/ WriteJsonl \/ WriteParquet
    \/ CreateFails \/ InsertFails \/ TextFails \/ ParquetFails

Next == Opens \/ Closes \/ Writes \/ Start \/ Receive \/ StreamEnds
        \/ Cancelled \/ Die \/ Restart

Spec == Init /\ [][Next]_vars

-----------------------------------------------------------------------------
TypeOK ==
    /\ kind \in Kind
    /\ create \in BOOLEAN
    /\ store \in Seq(Nat) /\ cached \in Seq(Nat \ {Torn})
    /\ table \in Tables
    /\ column \in (Scalar \ {"none"}) \cup {"unlocked"}
    /\ locked \in (Scalar \ {"none"}) \cup {"unlocked"}
    /\ midline \in BOOLEAN /\ ragged \in BOOLEAN /\ handle \in BOOLEAN /\ writer \in BOOLEAN
    /\ half \in BOOLEAN /\ last \in BOOLEAN
    /\ pc \in Points
    /\ buffer \in Seq(Sample)
    /\ next \in 1..Len(Stream) + 1
    /\ emitted \in Nat
    /\ taken \subseteq Nat /\ counted \subseteq Nat
    /\ starts \in 0..MaxStarts

\* The rows a reader finds now, or will once the sink is closed.
Present == ToSet(store) \cup ToSet(cached)

\* What pipe has counted is in the database and stays there, whatever fails, is
\* cancelled, is reopened or dies afterwards.
CountedIsDurable == kind \in Sql => counted \subseteq ToSet(store)

\* No sample is stored twice or out of order: a failed or repeated write_many, a
\* second pipe on the sink and a restart never write again what is there.
StoredOnce ==
    LET rows == store \o cached
    IN \A i, j \in 1..Len(rows) :
          i < j /\ rows[i] # Torn /\ rows[j] # Torn => rows[i] < rows[j]

\* The samples of one tick are stored together or not at all: pipe's buffer
\* holds whole batches, and a transaction, COPY or row group a whole buffer.
TicksAreWhole ==
    kind \in Sql \cup {"parquet", "memory"} =>
        \A b \in 1..Len(Stream) : \/ Ids(Stream[b]) \subseteq Present
                                  \/ Ids(Stream[b]) \cap Present = {}

\* The summary a pipe returns counts each sample it took from the stream, and
\* each is there -- but for one, if the JSONL file ended in half a line as it was
\* opened: the first row written to it becomes part of that line.
SummaryIsTrue ==
    pc = "returned" =>
        /\ emitted = Cardinality(taken)
        /\ Cardinality(taken \ Present) <= (IF ragged THEN 1 ELSE 0)
=============================================================================
