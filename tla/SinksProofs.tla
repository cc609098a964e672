---------------------------- MODULE SinksProofs ----------------------------
(***************************************************************************)
(* What a recording leaves in storage, proved for every stream, batch size *)
(* and number of starts: the rows counted are durable, none is stored      *)
(* twice or out of order, ticks are whole and the summary of a pipe is     *)
(* true.                                                                   *)
(***************************************************************************)
EXTENDS Sinks, SequenceTheorems, FiniteSetTheorems, TLAPS

-----------------------------------------------------------------------------
(***************************************************************************)
(* Types                                                                   *)
(***************************************************************************)

\* Any part of a sequence is one over the same set.
LEMMA PartType ==
    ASSUME NEW S, NEW s \in Seq(S), NEW m \in 1..Len(s) + 1, NEW n \in 0..Len(s)
    PROVE  SubSeq(s, m, n) \in Seq(S)
<1>1. Len(s) \in Nat
      BY LenProperties
<1>2. \A i \in m..n : s[i] \in S
      BY <1>1, ElementOfSeq
<1>3. m \in Int /\ n \in Int
      BY <1>1
<1> QED  BY <1>2, <1>3, SubSeqProperties

\* What lands in a file that ends in half a line is a part of the rows.
LEMMA LandType ==
    ASSUME NEW S, NEW rows \in Seq(S)
    PROVE  Land(rows) \in Seq(S)
BY HeadTailProperties DEF Land

\* The rows of the buffer are no torn lines.
LEMMA RowTypes ==
    ASSUME TypeOK
    PROVE  /\ IdSeq(buffer) \in Seq(Nat \ {Torn}) /\ Len(IdSeq(buffer)) = Len(buffer)
           /\ cached \o IdSeq(buffer) \in Seq(Nat \ {Torn})
           /\ store \o IdSeq(buffer) \in Seq(Nat) /\ store \o cached \in Seq(Nat)
           /\ <<>> \in Seq(Nat) /\ <<>> \in Seq(Nat \ {Torn}) /\ <<>> \in Seq(Sample)
           /\ Len(buffer) \in Nat /\ Len(cached) \in Nat
           /\ Len(cached \o IdSeq(buffer)) = Len(cached) + Len(buffer)
<1>1. Len(buffer) \in Nat /\ \A i \in 1..Len(buffer) : buffer[i] \in Sample
      BY LenProperties, ElementOfSeq DEF TypeOK
<1>2. \A i \in 1..Len(buffer) : buffer[i].id \in Nat \ {Torn}
      BY <1>1 DEF Sample, Torn
<1> DEFINE ids == [i \in 1..Len(buffer) |-> buffer[i].id]
<1>3. ids \in Seq(Nat \ {Torn})
      BY <1>1, <1>2, IsASeq
<1>4. Len(ids) = Len(buffer)
      BY <1>1
<1>5. IdSeq(buffer) = ids
      BY DEF IdSeq
<1>6. IdSeq(buffer) \in Seq(Nat) /\ cached \in Seq(Nat)
      BY <1>3, <1>5, SeqMonotonic DEF TypeOK
<1> QED  BY <1>1, <1>3, <1>4, <1>5, <1>6, EmptySeq, LenProperties, ConcatProperties DEF TypeOK

LEMMA InferredType ==
    ASSUME NEW rows
    PROVE  Inferred(rows) \in Scalar \ {"none"}
BY DEF Inferred, Scalar

\* What the file object hands to the file, and what stays.
LEMMA FlushedTypes ==
    ASSUME TypeOK, NEW rows \in Seq(Nat \ {Torn}), NEW n \in 0..Len(rows), NEW torn \in BOOLEAN,
           Flushed(rows, n, torn) \/ Dropped(rows, n, torn)
    PROVE  /\ store' \in Seq(Nat) /\ cached' \in Seq(Nat \ {Torn})
           /\ midline' \in BOOLEAN /\ half' \in BOOLEAN
<1>1. /\ Len(rows) \in Nat /\ 1 \in 1..Len(rows) + 1 /\ n + 1 \in 1..Len(rows) + 1
      /\ Len(rows) \in 0..Len(rows)
      BY LenProperties
<1>2. /\ SubSeq(rows, 1, n) \in Seq(Nat \ {Torn})
      /\ SubSeq(rows, n + 1, Len(rows)) \in Seq(Nat \ {Torn})
      BY <1>1, PartType
<1>3. Land(SubSeq(rows, 1, n)) \in Seq(Nat)
      BY <1>2, LandType, SeqMonotonic
<1>4. store \o Land(SubSeq(rows, 1, n)) \in Seq(Nat)
      BY <1>3, ConcatProperties DEF TypeOK
<1>5. Append(store \o Land(SubSeq(rows, 1, n)), Torn) \in Seq(Nat)
      BY <1>4, AppendProperties DEF Torn
<1>6. <<>> \in Seq(Nat \ {Torn})
      BY EmptySeq
<1>7. midline \in BOOLEAN
      BY DEF TypeOK
<1> QED  BY <1>2, <1>4, <1>5, <1>6, <1>7 DEF Flushed, Dropped

\* Opening and closing a sink keeps the types.
LEMMA OpenCloseTypes ==
    ASSUME TypeOK, Opens \/ Closes
    PROVE  TypeOK'
<1>1. /\ <<>> \in Seq(Nat) /\ <<>> \in Seq(Nat \ {Torn})
      /\ starts < MaxStarts => starts + 1 \in 0..MaxStarts
      BY RowTypes, SinksAssumption DEF TypeOK
<1>2. CASE Opens
  <2>1. ASSUME NEW point \in {"ready", "introspect"}, NEW mid \in BOOLEAN,
               Opening(point, mid), store' \in {store, <<>>}
        PROVE  TypeOK'
    <3>1. /\ store' \in Seq(Nat) /\ midline' \in BOOLEAN /\ ragged' \in BOOLEAN
          /\ starts' \in 0..MaxStarts
          BY <1>1, <2>1 DEF TypeOK, Opening
    <3> QED  BY <2>1, <3>1 DEF TypeOK, Opening, pipeVars, Points
  <2>2. CASE OpenMemory \/ OpenCsv \/ OpenJsonl \/ OpenParquet
    <3>1. midline \in BOOLEAN
          BY DEF TypeOK
    <3> QED  BY <2>1, <2>2, <3>1 DEF OpenMemory, OpenCsv, OpenJsonl, OpenParquet
  <2>3. CASE OpenSqlite \/ OpenPostgres
        BY <2>1, <2>3 DEF OpenSqlite, OpenPostgres
  <2>4. CASE OpenFails
        BY <1>1, <2>4 DEF OpenFails, TypeOK, diskVars, sinkVars, pipeVars, Points
  <2>5. CASE IntrospectSqlite \/ IntrospectPostgres
        BY <2>5 DEF IntrospectSqlite, IntrospectPostgres, LockTo, TypeOK, diskVars,
               pipeVars, Points
  <2>6. CASE IntrospectFails
        BY <2>6 DEF IntrospectFails, TypeOK, diskVars, pipeVars, Points
  <2> QED  BY <1>2, <2>2, <2>3, <2>4, <2>5, <2>6 DEF Opens
<1>3. CASE Closes
  <2>1. CASE CloseMemory \/ CloseSqlite \/ ClosePostgres
        BY <2>1 DEF CloseMemory, CloseSqlite, ClosePostgres, Closing, TypeOK, pipeVars, Points
  <2>2. CASE CloseParquet
    <3>1. cached \in Seq(Nat)
          BY SeqMonotonic DEF TypeOK
    <3> QED  BY <1>1, <2>2, <3>1 DEF CloseParquet, Closing, TypeOK, pipeVars, Points
  <2>3. CASE CloseCsv \/ CloseJsonl
    <3>1. CloseText
          BY <2>3 DEF CloseCsv, CloseJsonl
    <3>2. PICK n \in 0..Len(cached), torn \in BOOLEAN : Dropped(cached, n, torn)
          BY <3>1 DEF CloseText
    <3>3. /\ store' \in Seq(Nat) /\ cached' \in Seq(Nat \ {Torn})
          /\ midline' \in BOOLEAN /\ half' \in BOOLEAN
          BY <3>2, FlushedTypes DEF TypeOK
    <3> QED  BY <3>1, <3>3 DEF CloseText, Closing, TypeOK, pipeVars, Points
  <2> QED  BY <1>3, <2>1, <2>2, <2>3 DEF Closes
<1> QED  BY <1>2, <1>3

\* write_many keeps the types, whether it returns or raises.
LEMMA WriteTypes ==
    ASSUME TypeOK, Writes
    PROVE  TypeOK'
<1>1. /\ IdSeq(buffer) \in Seq(Nat \ {Torn}) /\ store \o IdSeq(buffer) \in Seq(Nat)
      /\ cached \o IdSeq(buffer) \in Seq(Nat \ {Torn})
      /\ <<>> \in Seq(Nat) /\ <<>> \in Seq(Sample)
      BY RowTypes
<1>2. emitted + Len(buffer) \in Nat /\ counted \cup Ids(buffer) \subseteq Nat
  <2>1. \A i \in 1..Len(buffer) : buffer[i] \in Sample
        BY ElementOfSeq DEF TypeOK
  <2>2. Ids(buffer) \subseteq Nat
        BY <2>1 DEF Ids, Sample
  <2>3. Len(buffer) \in Nat
        BY RowTypes
  <2>4. counted \subseteq Nat /\ emitted \in Nat
        BY DEF TypeOK
  <2>5. \A m, n \in Nat : m + n \in Nat
        OBVIOUS
  <2> QED  BY <2>2, <2>3, <2>4, <2>5, Zenon
<1>3. Inferred(buffer) \in Scalar \ {"none"}
      BY InferredType
<1>4. CASE CreateSqlite \/ CreatePostgres \/ CreateFails
      BY <1>4 DEF CreateSqlite, CreatePostgres, Created, CreateFails, Raise, TypeOK, pipeVars,
             Points, Tables
<1>5. CASE InsertSqlite \/ CopyPostgres \/ WriteMemory
      BY <1>1, <1>2, <1>5 DEF InsertSqlite, CopyPostgres, Inserted, Committed, WriteMemory,
             Counted, TypeOK, sinkVars, Points
<1>6. CASE WriteCsv \/ WriteJsonl
  <2>1. WriteText /\ writer' \in BOOLEAN
        BY <1>6 DEF WriteCsv, WriteJsonl, TypeOK
  <2> DEFINE rows == cached \o IdSeq(buffer)
  <2>2. Len(cached) + Len(buffer) \in 0..Len(rows) /\ FALSE \in BOOLEAN
        BY RowTypes
  <2>3. Flushed(rows, Len(cached) + Len(buffer), FALSE)
        BY <2>1 DEF WriteText
  <2>4. /\ store' \in Seq(Nat) /\ cached' \in Seq(Nat \ {Torn})
        /\ midline' \in BOOLEAN /\ half' \in BOOLEAN
        BY <1>1, <2>2, <2>3, FlushedTypes
  <2> QED  BY <1>1, <1>2, <2>1, <2>4 DEF WriteText, Counted, TypeOK, Points
<1>7. CASE WriteParquet
      BY <1>1, <1>2, <1>3, <1>7 DEF WriteParquet, Counted, TypeOK, Points
<1>8. CASE InsertFails
      BY <1>1, <1>8 DEF InsertFails, RolledBack, Committed, Raise, TypeOK, pipeVars, Points
<1>9. CASE TextFails
  <2> DEFINE rows == cached \o IdSeq(buffer)
  <2>1. PICK n \in 0..Len(rows) - 1, torn \in BOOLEAN :
            Flushed(rows, n, torn \/ (half /\ n = 0))
        BY <1>9 DEF TextFails
  <2>2. n \in 0..Len(rows) /\ (torn \/ (half /\ n = 0)) \in BOOLEAN
        BY <1>1, RowTypes
  <2>3. /\ store' \in Seq(Nat) /\ cached' \in Seq(Nat \ {Torn})
        /\ midline' \in BOOLEAN /\ half' \in BOOLEAN
        BY <1>1, <2>1, <2>2, FlushedTypes
  <2>4. writer' \in BOOLEAN
        BY <1>9 DEF TextFails
  <2> QED  BY <1>9, <2>3, <2>4 DEF TextFails, Raise, TypeOK, pipeVars, Points
<1>10. CASE ParquetFails
      BY <1>1, <1>3, <1>10 DEF ParquetFails, Raise, TypeOK, pipeVars, Points
<1> QED  BY <1>4, <1>5, <1>6, <1>7, <1>8, <1>9, <1>10 DEF Writes

\* So do the stream, the death of the process and its restart.
LEMMA PipeTypes ==
    ASSUME TypeOK, Start \/ Receive \/ StreamEnds \/ Cancelled \/ Die \/ Restart
    PROVE  TypeOK'
<1>1. /\ <<>> \in Seq(Nat) /\ <<>> \in Seq(Sample) /\ <<>> \in Seq(Nat \ {Torn})
      /\ starts < MaxStarts => starts + 1 \in 0..MaxStarts
      BY RowTypes, SinksAssumption DEF TypeOK
<1>2. FlushPoint \in {"create", "write"}
      BY DEF FlushPoint
<1>3. Inferred(buffer) \in Scalar \ {"none"} /\ Inferred(buffer') \in Scalar \ {"none"}
      BY InferredType
<1>4. CASE Start \/ Restart
  <2>1. starts' \in 0..MaxStarts
        BY <1>1, <1>4 DEF Start, Restart
  <2>2. CASE Start
        BY <1>1, <2>1, <2>2 DEF Start, TypeOK, diskVars, sinkVars, Points
  <2>3. CASE Restart
        BY <2>1, <2>3 DEF Restart, TypeOK, diskVars, sinkVars, pipeVars, Points
  <2> QED  BY <1>4, <2>2, <2>3
<1>5. CASE Receive
  <2>1. /\ Stream \in Seq(Seq(Sample)) /\ Len(Stream) \in Nat /\ next \in 1..Len(Stream)
        /\ next + 1 \in 1..Len(Stream) + 1
        BY <1>5, SinksAssumption, LenProperties DEF Receive, TypeOK
  <2>2. Stream[next] \in Seq(Sample)
        BY <2>1, ElementOfSeq
  <2>3. buffer \o Stream[next] \in Seq(Sample)
        BY <2>2, ConcatProperties DEF TypeOK
  <2>4. Ids(Stream[next]) \subseteq Nat
    <3>1. \A i \in 1..Len(Stream[next]) : Stream[next][i] \in Sample
          BY <2>2, ElementOfSeq
    <3> QED  BY <3>1 DEF Ids, Sample
  <2> QED  BY <1>2, <1>3, <1>5, <2>1, <2>3, <2>4 DEF Receive, TypeOK, diskVars, Points
<1>6. CASE StreamEnds
      BY <1>2, <1>3, <1>6 DEF StreamEnds, TypeOK, diskVars, Points
<1>7. CASE Cancelled
      BY <1>7 DEF Cancelled, Raise, TypeOK, diskVars, pipeVars, Points
<1>8. CASE Die
  <2> DEFINE rows == IF pc = "write" THEN IdSeq(buffer) ELSE <<>>
  <2>1. /\ rows \in Seq(Nat \ {Torn}) /\ cached \o rows \in Seq(Nat \ {Torn})
        /\ store \o rows \in Seq(Nat)
    <3>1. cached \o <<>> \in Seq(Nat \ {Torn}) /\ store \o <<>> \in Seq(Nat)
          BY <1>1, ConcatProperties DEF TypeOK
    <3> QED  BY <3>1, RowTypes
  <2> HIDE DEF rows
  <2>2. /\ store' \in Seq(Nat) /\ cached' \in Seq(Nat \ {Torn})
        /\ midline' \in BOOLEAN /\ half' \in BOOLEAN
    <3>1. CASE kind \in Text
      <4>1. PICK n \in 0..Len(cached \o rows), torn \in BOOLEAN :
                Dropped(cached \o rows, n, torn)
            BY <1>8, <3>1 DEF Die, rows, Text, Sql
      <4> QED  BY <2>1, <4>1, FlushedTypes
    <3>2. CASE kind \notin Text
          BY <1>1, <1>8, <2>1, <3>2 DEF Die, rows, Text, Sql, Committed, TypeOK
    <3> QED  BY <3>1, <3>2
  <2> QED  BY <1>1, <1>8, <2>2 DEF Die, TypeOK, Points
<1> QED  BY <1>4, <1>5, <1>6, <1>7, <1>8

LEMMA InitSinkTypes ==
    ASSUME Init
    PROVE  TypeOK
<1>1. <<>> \in Seq(Nat) /\ <<>> \in Seq(Nat \ {Torn}) /\ <<>> \in Seq(Sample)
      BY EmptySeq
<1>2. 1 \in 1..Len(Stream) + 1 /\ 0 \in 0..MaxStarts /\ Found \subseteq Tables
      BY SinksAssumption, LenProperties
<1>3. create \in BOOLEAN /\ table \in Tables
      BY <1>2 DEF Init, Tables
<1> QED  BY <1>1, <1>2, <1>3 DEF Init, TypeOK, Points, Scalar

LEMMA NextSinkTypes ==
    ASSUME TypeOK, [Next]_vars
    PROVE  TypeOK'
<1>1. TypeOK /\ UNCHANGED vars => TypeOK'
      BY DEF vars, diskVars, sinkVars, pipeVars, TypeOK
<1> QED  BY <1>1, OpenCloseTypes, WriteTypes, PipeTypes DEF Next

\* Every variable keeps its type: what SchemaLock infers from any batch, or finds
\* in any table, is the type of a column, and no row a sink writes is without an
\* id but the half of a line that a killed process leaves.
THEOREM SinkTypes == Spec => []TypeOK
<1>1. Init => TypeOK
      BY InitSinkTypes
<1>2. TypeOK /\ [Next]_vars => TypeOK'
      BY NextSinkTypes
<1> QED  BY <1>1, <1>2, PTL DEF Spec

-----------------------------------------------------------------------------
\* The ids of a buffer, as a set and as the rows of a table.
LEMMA IdsOfRows ==
    ASSUME NEW rows \in Seq(Sample)
    PROVE  IdSeq(rows) \in Seq(Nat) /\ ToSet(IdSeq(rows)) = Ids(rows)
<1>1. Len(rows) \in Nat /\ \A i \in 1..Len(rows) : rows[i] \in Sample
      BY LenProperties, ElementOfSeq
<1>2. \A i \in 1..Len(rows) : rows[i].id \in Nat
      BY <1>1 DEF Sample
<1> DEFINE ids == [i \in 1..Len(rows) |-> rows[i].id]
<1>3. ids \in Seq(Nat)
      BY <1>1, <1>2, IsASeq
<1>4. ToSet(ids) = {rows[i].id : i \in 1..Len(rows)}
      BY DEF ToSet
<1> QED  BY <1>3, <1>4 DEF IdSeq, Ids

\* A table that takes more rows has those it had and the new ones.
LEMMA RowsAdded ==
    ASSUME NEW a \in Seq(Nat), NEW b \in Seq(Nat)
    PROVE  a \o b \in Seq(Nat) /\ ToSet(a \o b) = ToSet(a) \cup ToSet(b)
<1>1. /\ a \o b \in Seq(Nat) /\ Len(a \o b) = Len(a) + Len(b)
      /\ \A i \in 1..Len(a) + Len(b) :
            (a \o b)[i] = IF i <= Len(a) THEN a[i] ELSE b[i - Len(a)]
      BY ConcatProperties
<1>2. /\ DOMAIN a = 1..Len(a) /\ DOMAIN b = 1..Len(b)
      /\ DOMAIN (a \o b) = 1..Len(a) + Len(b) /\ Len(a) \in Nat /\ Len(b) \in Nat
      BY <1>1, LenProperties
<1>3. ASSUME NEW r \in ToSet(a \o b)
      PROVE  r \in ToSet(a) \cup ToSet(b)
  <2>1. PICK i \in 1..Len(a) + Len(b) : r = (a \o b)[i]
        BY <1>2, <1>3 DEF ToSet
  <2>2. CASE i <= Len(a)
        BY <1>1, <1>2, <2>1, <2>2 DEF ToSet
  <2>3. CASE ~(i <= Len(a))
    <3>1. r = b[i - Len(a)] /\ i - Len(a) \in 1..Len(b)
          BY <1>1, <1>2, <2>1, <2>3
    <3> QED  BY <3>1, <1>2 DEF ToSet
  <2> QED  BY <2>2, <2>3
<1>4. ASSUME NEW r \in ToSet(a)
      PROVE  r \in ToSet(a \o b)
  <2>1. PICK i \in 1..Len(a) : r = a[i]
        BY <1>2, <1>4 DEF ToSet
  <2>2. i \in 1..Len(a) + Len(b) /\ (a \o b)[i] = r
        BY <1>1, <1>2, <2>1
  <2> QED  BY <2>2, <1>2 DEF ToSet
<1>5. ASSUME NEW r \in ToSet(b)
      PROVE  r \in ToSet(a \o b)
  <2>1. PICK i \in 1..Len(b) : r = b[i]
        BY <1>2, <1>5 DEF ToSet
  <2>2. i + Len(a) \in 1..Len(a) + Len(b) /\ (a \o b)[i + Len(a)] = r
    <3>1. /\ i + Len(a) \in 1..Len(a) + Len(b) /\ ~(i + Len(a) <= Len(a))
          /\ (i + Len(a)) - Len(a) = i
          BY <1>2, <2>1
    <3> QED  BY <3>1, <1>1, <2>1
  <2> QED  BY <2>2, <1>2 DEF ToSet
<1> QED  BY <1>1, <1>3, <1>4, <1>5

-----------------------------------------------------------------------------
(***************************************************************************)
(* What a step does to a table                                             *)
(***************************************************************************)

\* A step that adds nothing to a table, and at most forgets the buffer.
Kept ==
    /\ UNCHANGED <<kind, store, counted, next>>
    /\ buffer' \in {buffer, <<>>}

\* A step of a SQL sink adds the buffer to the table and counts it, adds it
\* without being told so, takes a batch of the stream, or adds nothing.
LEMMA SqlStep ==
    ASSUME [Next]_vars, kind' \in Sql
    PROVE  \/ Kept
           \/ /\ UNCHANGED <<kind, store, counted>>
              /\ next <= Len(Stream)
              /\ next' = next + 1 /\ buffer' = buffer \o Stream[next]
           \/ /\ store' = store \o IdSeq(buffer)
              /\ UNCHANGED <<kind, counted, next>> /\ buffer' \in {buffer, <<>>}
           \/ /\ store' = store \o IdSeq(buffer)
              /\ counted' = counted \cup Ids(buffer)
              /\ UNCHANGED <<kind, next>> /\ buffer' = <<>>
<1> USE DEF diskVars, sinkVars, pipeVars, Kept
<1>1. kind' = kind
      BY DEF Next, Opens, Closes, Writes, OpenMemory, OpenCsv, OpenJsonl, OpenParquet,
             OpenSqlite, OpenPostgres, OpenFails, IntrospectSqlite, IntrospectPostgres,
             IntrospectFails, LockTo, Opening, CloseMemory, CloseCsv, CloseJsonl,
             CloseText, CloseParquet, CloseSqlite, ClosePostgres, Closing,
             CreateSqlite, CreatePostgres, Created, InsertSqlite, CopyPostgres, Inserted,
             WriteMemory, WriteCsv, WriteJsonl, WriteText, WriteParquet, CreateFails,
             InsertFails, TextFails, ParquetFails, Raise, Start, Receive, StreamEnds,
             Cancelled, Die, Restart, vars
<1>2. kind \in {"sqlite", "postgres"}
      BY <1>1 DEF Sql
<1>3. CASE UNCHANGED vars
      BY <1>3 DEF vars
<1>4. CASE Opens
      BY <1>2, <1>4 DEF Opens, OpenMemory, OpenCsv, OpenJsonl, OpenParquet, OpenSqlite,
             OpenPostgres, OpenFails, IntrospectSqlite, IntrospectPostgres,
             IntrospectFails, LockTo, Opening
<1>5. CASE Closes
      BY <1>2, <1>5 DEF Closes, CloseMemory, CloseCsv, CloseJsonl, CloseText,
             CloseParquet, CloseSqlite, ClosePostgres, Closing
<1>6. CASE Writes
  <2>1. CASE CreateSqlite \/ CreatePostgres \/ CreateFails
        BY <2>1 DEF CreateSqlite, CreatePostgres, Created, CreateFails, Raise
  <2>2. CASE InsertSqlite \/ CopyPostgres
        BY <2>2 DEF InsertSqlite, CopyPostgres, Inserted, Committed, Counted
  <2>3. CASE InsertFails
        BY <2>3 DEF InsertFails, RolledBack, Committed, Raise
  <2>4. CASE WriteMemory \/ WriteCsv \/ WriteJsonl \/ WriteParquet \/ TextFails
                \/ ParquetFails
        BY <1>2, <2>4 DEF WriteMemory, WriteCsv, WriteJsonl, WriteParquet, TextFails,
               ParquetFails, Text
  <2> QED  BY <1>6, <2>1, <2>2, <2>3, <2>4 DEF Writes
<1>7. CASE Start \/ StreamEnds \/ Cancelled \/ Restart
      BY <1>7 DEF Start, StreamEnds, Cancelled, Restart, Raise
<1>8. CASE Receive
      BY <1>8 DEF Receive
<1>9. CASE Die
  <2>1. /\ UNCHANGED <<kind, counted, next>> /\ buffer' = <<>>
        BY <1>9 DEF Die
  <2>2. kind \notin Text /\ kind # "memory" /\ kind # "parquet" /\ kind \in Sql
        BY <1>2 DEF Text, Sql
  <2>3. \/ store' = store
        \/ /\ Accepts
           /\ store' = store \o (IF pc = "write" THEN IdSeq(buffer) ELSE <<>>)
        BY <1>9, <2>2 DEF Die, Committed
  <2>4. Accepts => pc = "write"
        BY DEF Accepts
  <2> QED  BY <2>1, <2>3, <2>4
<1> QED  BY <1>3, <1>4, <1>5, <1>6, <1>7, <1>8, <1>9 DEF Next

-----------------------------------------------------------------------------
(***************************************************************************)
(* The inductive invariant                                                 *)
(***************************************************************************)

\* Rows of ids that rise, whatever torn lines are between them; ids before ids.
Ascending(s) ==
    \A i, j \in 1..Len(s) : i < j /\ s[i] # Torn /\ s[j] # Torn => s[i] < s[j]
Below(A, B) == \A x \in A \ {Torn}, y \in B \ {Torn} : x < y

\* The ids of the batches the stream has still to give.
Coming(n) == UNION {Ids(Stream[b]) : b \in n..Len(Stream)}

\* A pipe is at work; it is, or it has returned; the file object is sound.
Active == pc \in {"stream", "create", "write"}
Running == Active \/ pc = "returned"
FileOpen == pc \notin {"down", "closed", "refused"}

\* Where the rows of a sink are: a table and a list have no file object, and a
\* Parquet file cannot be read while its writer is there.
RowsWhereTheyBelong ==
    /\ kind \in Sql \cup {"memory"} => cached = <<>>
    /\ kind = "parquet" => IF writer THEN store = <<>> ELSE cached = <<>>
    /\ kind = "csv" /\ FileOpen => ~midline
    /\ kind = "jsonl" /\ FileOpen /\ midline => ragged

\* The rows in the file come before those in the file object, those before the
\* buffer of a pipe, and the buffer before the rest of the stream.
InStreamOrder ==
    /\ Ascending(store) /\ Ascending(cached)
    /\ Below(ToSet(store), ToSet(cached))
    /\ Below(Present, Coming(next))
    /\ Active => /\ Ascending(IdSeq(buffer))
                 /\ Below(Present, Ids(buffer))
                 /\ Below(Ids(buffer), Coming(next))

\* A set of samples that splits no batch.
Whole(A) == \A b \in 1..Len(Stream) : \/ Ids(Stream[b]) \subseteq A
                                      \/ Ids(Stream[b]) \cap A = {}

BatchesAreWhole ==
    kind \notin Text => Whole(Present) /\ (Active => Whole(Ids(buffer)))

\* What the pipe took is there or in the buffer, but for one sample once a row has
\* been written behind the half line that a JSONL file ended in.
NothingIsLost ==
    \/ taken \subseteq Present \cup Ids(buffer)
    \/ /\ kind = "jsonl" /\ ragged /\ ~midline
       /\ \E r \in Nat : taken \subseteq Present \cup Ids(buffer) \cup {r}

\* What a pipe took from the stream it has counted or holds in the buffer, and
\* what it has counted is there.
TakenIsAccounted ==
    /\ Running => /\ IsFiniteSet(taken)
                  /\ emitted + Len(buffer) = Cardinality(taken)
                  /\ Below(taken, Coming(next))
                  /\ NothingIsLost
                  /\ kind = "parquet" /\ Active /\ ~writer => taken \subseteq Ids(buffer)
    /\ pc = "returned" => buffer = <<>>

SinkInv ==
    /\ TypeOK
    /\ RowsWhereTheyBelong
    /\ InStreamOrder
    /\ BatchesAreWhole
    /\ TakenIsAccounted
-----------------------------------------------------------------------------
(***************************************************************************)
(* Rows whose ids rise                                                     *)
(***************************************************************************)

\* The members of a sequence of ids, by their places.
LEMMA MembersByPlace ==
    ASSUME NEW s \in Seq(Nat)
    PROVE  /\ Len(s) \in Nat /\ \A i \in 1..Len(s) : s[i] \in Nat /\ s[i] \in ToSet(s)
           /\ \A r \in ToSet(s) : r \in Nat /\ \E i \in 1..Len(s) : r = s[i]
<1>1. Len(s) \in Nat /\ DOMAIN s = 1..Len(s) /\ \A i \in 1..Len(s) : s[i] \in Nat
      BY LenProperties, ElementOfSeq
<1> QED  BY <1>1 DEF ToSet

\* Two stretches of rows, one after the other.
LEMMA AscendingConcat ==
    ASSUME NEW a \in Seq(Nat), NEW b \in Seq(Nat)
    PROVE  Ascending(a \o b) <=>
               Ascending(a) /\ Ascending(b) /\ Below(ToSet(a), ToSet(b))
<1>1. /\ Len(a) \in Nat /\ Len(b) \in Nat /\ Len(a \o b) = Len(a) + Len(b)
      /\ \A i \in 1..Len(a) : i \in 1..Len(a) + Len(b) /\ (a \o b)[i] = a[i]
      /\ \A i \in 1..Len(b) : /\ Len(a) + i \in 1..Len(a) + Len(b)
                              /\ (a \o b)[Len(a) + i] = b[i]
  <2>1. /\ Len(a) \in Nat /\ Len(b) \in Nat /\ Len(a \o b) = Len(a) + Len(b)
        /\ \A i \in 1..Len(a) + Len(b) :
               (a \o b)[i] = IF i <= Len(a) THEN a[i] ELSE b[i - Len(a)]
        BY LenProperties, ConcatProperties
  <2>2. \A i \in 1..Len(a) : i \in 1..Len(a) + Len(b) /\ i <= Len(a)
        BY <2>1
  <2>3. \A i \in 1..Len(b) : /\ Len(a) + i \in 1..Len(a) + Len(b)
                             /\ ~(Len(a) + i <= Len(a)) /\ (Len(a) + i) - Len(a) = i
        BY <2>1
  <2> QED  BY <2>1, <2>2, <2>3
<1>2. ASSUME Ascending(a \o b)
      PROVE  Ascending(a) /\ Ascending(b) /\ Below(ToSet(a), ToSet(b))
  <2>1. Ascending(a)
        BY <1>1, <1>2 DEF Ascending
  <2>2. ASSUME NEW i \in 1..Len(b), NEW j \in 1..Len(b), i < j, b[i] # Torn, b[j] # Torn
        PROVE  b[i] < b[j]
    <3>1. Len(a) + i < Len(a) + j
          BY <1>1, <2>2
    <3> QED  BY <1>1, <1>2, <2>2, <3>1 DEF Ascending
  <2>3. ASSUME NEW x \in ToSet(a) \ {Torn}, NEW y \in ToSet(b) \ {Torn}
        PROVE  x < y
    <3>1. PICK i \in 1..Len(a) : x = a[i]
          BY MembersByPlace
    <3>2. PICK j \in 1..Len(b) : y = b[j]
          BY MembersByPlace
    <3>3. i < Len(a) + j
          BY <1>1
    <3> QED  BY <1>1, <1>2, <3>1, <3>2, <3>3 DEF Ascending
  <2> QED  BY <2>1, <2>2, <2>3 DEF Ascending, Below
<1>3. ASSUME Ascending(a), Ascending(b), Below(ToSet(a), ToSet(b)),
             NEW i \in 1..Len(a) + Len(b), NEW j \in 1..Len(a) + Len(b), i < j,
             (a \o b)[i] # Torn, (a \o b)[j] # Torn
      PROVE  (a \o b)[i] < (a \o b)[j]
  <2>1. CASE j <= Len(a)
    <3>1. i \in 1..Len(a) /\ j \in 1..Len(a)
          BY <1>1, <1>3, <2>1
    <3> QED  BY <1>1, <1>3, <3>1 DEF Ascending
  <2>2. CASE i > Len(a)
    <3>1. PICK k \in 1..Len(b), l \in 1..Len(b) : i = Len(a) + k /\ j = Len(a) + l /\ k < l
      <4>1. /\ i - Len(a) \in 1..Len(b) /\ j - Len(a) \in 1..Len(b)
            /\ i = Len(a) + (i - Len(a)) /\ j = Len(a) + (j - Len(a))
            /\ i - Len(a) < j - Len(a)
            BY <1>1, <1>3, <2>2
      <4> QED  BY <4>1
    <3>2. (a \o b)[i] = b[k] /\ (a \o b)[j] = b[l]
          BY <1>1, <3>1
    <3> QED  BY <1>3, <3>1, <3>2 DEF Ascending
  <2>3. CASE i <= Len(a) /\ j > Len(a)
    <3>1. i \in 1..Len(a) /\ j - Len(a) \in 1..Len(b) /\ j = Len(a) + (j - Len(a))
          BY <1>1, <1>3, <2>3
    <3>2. (a \o b)[i] = a[i] /\ (a \o b)[j] = b[j - Len(a)]
          BY <1>1, <3>1
    <3>3. a[i] \in ToSet(a) /\ b[j - Len(a)] \in ToSet(b)
          BY <3>1, MembersByPlace
    <3> QED  BY <1>3, <3>2, <3>3 DEF Below
  <2> QED  BY <1>1, <1>3, <2>1, <2>2, <2>3
<1> QED  BY <1>1, <1>2, <1>3 DEF Ascending

\* A part of the rows, and the rest.
LEMMA AscendingPart ==
    ASSUME NEW s \in Seq(Nat), NEW n \in 0..Len(s)
    PROVE  /\ SubSeq(s, 1, n) \in Seq(Nat) /\ SubSeq(s, n + 1, Len(s)) \in Seq(Nat)
           /\ ToSet(SubSeq(s, 1, n)) \cup ToSet(SubSeq(s, n + 1, Len(s))) = ToSet(s)
           /\ Ascending(s) => /\ Ascending(SubSeq(s, 1, n))
                              /\ Ascending(SubSeq(s, n + 1, Len(s)))
                              /\ Below(ToSet(SubSeq(s, 1, n)), ToSet(SubSeq(s, n + 1, Len(s))))
<1>1. /\ Len(s) \in Nat /\ 1 \in 1..Len(s) + 1 /\ n \in 1 - 1..Len(s) /\ Len(s) \in n..Len(s)
      /\ n + 1 \in 1..Len(s) + 1 /\ Len(s) \in 0..Len(s)
      BY LenProperties
<1>2. SubSeq(s, 1, n) \in Seq(Nat) /\ SubSeq(s, n + 1, Len(s)) \in Seq(Nat)
      BY <1>1, PartType
<1>3. SubSeq(s, 1, n) \o SubSeq(s, n + 1, Len(s)) = s
  <2>1. SubSeq(s, 1, n) \o SubSeq(s, n + 1, Len(s)) = SubSeq(s, 1, Len(s))
        BY <1>1, ConcatAdjacentSubSeq
  <2> QED  BY <2>1, SubSeqFull
<1>4. ToSet(SubSeq(s, 1, n)) \cup ToSet(SubSeq(s, n + 1, Len(s))) = ToSet(s)
      BY <1>2, <1>3, RowsAdded
<1> QED  BY <1>2, <1>3, <1>4, AscendingConcat

\* What a file that ends in half a line keeps of them.
LEMMA AscendingLand ==
    ASSUME NEW s \in Seq(Nat)
    PROVE  /\ Land(s) \in Seq(Nat) /\ ToSet(Land(s)) \subseteq ToSet(s)
           /\ Ascending(s) => Ascending(Land(s))
           /\ ~midline => Land(s) = s
<1>1. CASE midline /\ s # <<>>
  <2>1. Len(s) \in Nat /\ Len(s) # 0
        BY <1>1, EmptySeq
  <2>2. 1 \in 0..Len(s) /\ Tail(s) = SubSeq(s, 1 + 1, Len(s))
        BY <1>1, <2>1, TailIsSubSeq
  <2>3. /\ SubSeq(s, 1 + 1, Len(s)) \in Seq(Nat)
        /\ ToSet(SubSeq(s, 1 + 1, Len(s))) \subseteq ToSet(s)
        /\ Ascending(s) => Ascending(SubSeq(s, 1 + 1, Len(s)))
        BY <2>2, AscendingPart
  <2>4. Land(s) = Tail(s)
        BY <1>1 DEF Land
  <2> QED  BY <1>1, <2>2, <2>3, <2>4
<1>2. CASE ~(midline /\ s # <<>>)
      BY <1>2 DEF Land
<1> QED  BY <1>1, <1>2

\* Half a line does not count.
LEMMA AscendingTorn ==
    ASSUME NEW s \in Seq(Nat)
    PROVE  /\ Append(s, Torn) \in Seq(Nat) /\ ToSet(Append(s, Torn)) = ToSet(s) \cup {Torn}
           /\ Ascending(s) => Ascending(Append(s, Torn))
<1>1. Torn \in Nat
      BY DEF Torn
<1>2. <<Torn>> \in Seq(Nat) /\ Len(<<Torn>>) = 1 /\ <<Torn>>[1] = Torn
      BY <1>1
<1>3. ToSet(<<Torn>>) = {Torn}
  <2>1. DOMAIN <<Torn>> = 1..1
        BY <1>2, LenProperties
  <2> QED  BY <1>2, <2>1 DEF ToSet
<1>4. Append(s, Torn) = s \o <<Torn>>
      BY <1>1, AppendIsConcat
<1>5. Ascending(<<Torn>>) /\ Below(ToSet(s), {Torn})
  <2>1. \A i, j \in 1..1 : ~(i < j)
        OBVIOUS
  <2> QED  BY <1>2, <2>1 DEF Ascending, Below
<1> QED  BY <1>2, <1>3, <1>4, <1>5, RowsAdded, AscendingConcat

\* What the file object writes out comes after what the file has and before what
\* stays, and nothing comes into being but half a line.
LEMMA FlushedInOrder ==
    ASSUME store \in Seq(Nat), NEW rows \in Seq(Nat), NEW n \in 0..Len(rows), NEW torn,
           Flushed(rows, n, torn) \/ Dropped(rows, n, torn)
    PROVE  /\ Present' \subseteq ToSet(store) \cup ToSet(rows) \cup {Torn}
           /\ Ascending(store) /\ Ascending(rows) /\ Below(ToSet(store), ToSet(rows)) =>
                  Ascending(store') /\ Ascending(cached') /\ Below(ToSet(store'), ToSet(cached'))
<1> DEFINE part == SubSeq(rows, 1, n)
           rest == SubSeq(rows, n + 1, Len(rows))
           whole == store \o Land(part)
<1>1. /\ part \in Seq(Nat) /\ rest \in Seq(Nat)
      /\ ToSet(part) \subseteq ToSet(rows) /\ ToSet(rest) \subseteq ToSet(rows)
      /\ Ascending(rows) => Ascending(part) /\ Ascending(rest) /\ Below(ToSet(part), ToSet(rest))
      BY AscendingPart
<1>2. /\ Land(part) \in Seq(Nat) /\ ToSet(Land(part)) \subseteq ToSet(part)
      /\ Ascending(part) => Ascending(Land(part))
      BY <1>1, AscendingLand
<1>3. whole \in Seq(Nat) /\ ToSet(whole) = ToSet(store) \cup ToSet(Land(part))
      BY <1>2, RowsAdded
<1>4. ASSUME Ascending(store), Ascending(rows), Below(ToSet(store), ToSet(rows))
      PROVE  Ascending(whole) /\ Below(ToSet(whole), ToSet(rest)) /\ Ascending(rest)
  <2>1. Below(ToSet(store), ToSet(Land(part))) /\ Below(ToSet(store), ToSet(rest))
        BY <1>1, <1>2, <1>4 DEF Below
  <2>2. Ascending(whole)
        BY <1>1, <1>2, <1>4, <2>1, AscendingConcat
  <2>3. Below(ToSet(whole), ToSet(rest))
        BY <1>1, <1>2, <1>3, <1>4, <2>1 DEF Below
  <2> QED  BY <1>1, <1>4, <2>2, <2>3
<1>5. CASE Flushed(rows, n, torn)
  <2>1. store' = whole /\ cached' = rest
        BY <1>5 DEF Flushed
  <2> QED  BY <1>1, <1>2, <1>3, <1>4, <2>1 DEF Present
<1>6. CASE Dropped(rows, n, torn)
  <2>1. store' \in {whole, Append(whole, Torn)} /\ cached' = <<>>
        BY <1>6 DEF Dropped
  <2>2. ToSet(<<>>) = {} /\ Ascending(<<>>)
    <3>1. <<>> \in Seq(Nat) /\ Len(<<>>) = 0 /\ 1..0 = {}
          BY EmptySeq
    <3> QED  BY <3>1, MembersByPlace DEF Ascending
  <2>3. /\ ToSet(store') \subseteq ToSet(whole) \cup {Torn}
        /\ Ascending(whole) => Ascending(store')
        BY <1>3, <2>1, AscendingTorn
  <2>4. Present' = ToSet(store') \cup ToSet(cached')
        BY DEF Present
  <2> QED  BY <1>1, <1>2, <1>3, <1>4, <2>1, <2>2, <2>3, <2>4 DEF Below
<1> QED  BY <1>5, <1>6

-----------------------------------------------------------------------------
(***************************************************************************)
(* What a step does to the rows                                            *)
(***************************************************************************)

LEMMA NoRows ==
    /\ ToSet(<<>>) = {} /\ Ascending(<<>>) /\ <<>> \in Seq(Nat)
    /\ Ids(<<>>) = {} /\ IdSeq(<<>>) = <<>>
<1>1. <<>> \in Seq(Nat) /\ <<>> \in Seq(Sample) /\ Len(<<>>) = 0 /\ 1..0 = {}
      BY EmptySeq
<1>2. ToSet(<<>>) = {} /\ Ascending(<<>>)
      BY <1>1, MembersByPlace DEF Ascending
<1>3. Ids(<<>>) = {}
      BY <1>1 DEF Ids
<1>4. IdSeq(<<>>) = <<>>
  <2>1. [i \in {} |-> <<>>[i].id] = <<>>
        OBVIOUS
  <2> QED  BY <1>1, <2>1 DEF IdSeq
<1> QED  BY <1>1, <1>2, <1>3, <1>4

\* The rows of a text file pass through its file object; those of the other
\* sinks are added all at once.
Handled(rows) == \E n \in 0..Len(rows), torn \in BOOLEAN :
                     Flushed(rows, n, torn) \/ Dropped(rows, n, torn)
Writing == IF pc = "write" THEN IdSeq(buffer) ELSE <<>>

LEMMA RowsEffect ==
    ASSUME TypeOK, [Next]_vars
    PROVE  \/ UNCHANGED <<store, cached>>
           \/ kind \in {"csv", "memory"} /\ store' = <<>> /\ UNCHANGED cached
           \/ kind \in Text /\ (Handled(cached) \/ Handled(cached \o Writing))
           \/ /\ kind = "parquet"
              /\ \/ store' = (IF writer THEN cached ELSE store) /\ cached' = <<>>
                 \/ store' = (IF writer THEN <<>> ELSE store) /\ cached' = <<>>
                 \/ store' = <<>> /\ UNCHANGED cached
                 \/ /\ pc = "write"
                    /\ store' = (IF writer THEN store ELSE <<>>)
                    /\ cached' = cached \o IdSeq(buffer)
           \/ /\ kind \in Sql \cup {"memory"} /\ pc = "write"
              /\ store' = store \o IdSeq(buffer) /\ UNCHANGED cached
<1> USE DEF diskVars, sinkVars
<1>1. CASE UNCHANGED vars
      BY <1>1 DEF vars
<1>2. CASE Opens
  <2>1. CASE OpenCsv
        BY <2>1 DEF OpenCsv, Opening
  <2>2. CASE OpenMemory \/ OpenJsonl \/ OpenParquet \/ OpenSqlite \/ OpenPostgres \/ OpenFails
        BY <2>2 DEF OpenMemory, OpenJsonl, OpenParquet, OpenSqlite, OpenPostgres, OpenFails,
               Opening
  <2>3. CASE IntrospectSqlite \/ IntrospectPostgres \/ IntrospectFails
        BY <2>3 DEF IntrospectSqlite, IntrospectPostgres, LockTo, IntrospectFails
  <2> QED  BY <1>2, <2>1, <2>2, <2>3 DEF Opens
<1>3. CASE Closes
  <2>1. CASE CloseCsv \/ CloseJsonl
        BY <2>1 DEF CloseCsv, CloseJsonl, CloseText, Handled, Text
  <2>2. CASE CloseParquet
        BY <2>2 DEF CloseParquet
  <2>3. CASE CloseMemory \/ CloseSqlite \/ ClosePostgres
        BY <2>3 DEF CloseMemory, CloseSqlite, ClosePostgres
  <2> QED  BY <1>3, <2>1, <2>2, <2>3 DEF Closes
<1>4. CASE Writes
  <2>1. CASE CreateSqlite \/ CreatePostgres \/ CreateFails
        BY <2>1 DEF CreateSqlite, CreatePostgres, Created, CreateFails
  <2>2. CASE InsertSqlite \/ CopyPostgres \/ InsertFails
        BY <2>2 DEF InsertSqlite, CopyPostgres, Inserted, Committed, Accepts, InsertFails,
               RolledBack
  <2>3. CASE WriteMemory
        BY <2>3 DEF WriteMemory
  <2>4. CASE WriteCsv \/ WriteJsonl
    <3>1. kind \in Text /\ WriteText
          BY <2>4 DEF WriteCsv, WriteJsonl, Text
    <3>2. Len(cached) + Len(buffer) = Len(cached \o IdSeq(buffer)) /\ Len(cached \o IdSeq(buffer)) \in Nat
      <4>1. cached \o IdSeq(buffer) \in Seq(Nat \ {Torn})
            BY RowTypes
      <4> QED  BY <4>1, RowTypes, LenProperties
    <3>3. Writing = IdSeq(buffer)
          BY <3>1 DEF WriteText, Writing
    <3>4. Flushed(cached \o IdSeq(buffer), Len(cached \o IdSeq(buffer)), FALSE)
          BY <3>1, <3>2 DEF WriteText
    <3>5. /\ Len(cached \o IdSeq(buffer)) \in 0..Len(cached \o IdSeq(buffer))
          /\ FALSE \in BOOLEAN
          BY <3>2
    <3>6. Handled(cached \o IdSeq(buffer))
          BY <3>4, <3>5, Zenon DEF Handled
    <3> QED  BY <3>1, <3>3, <3>6
  <2>5. CASE TextFails
    <3> DEFINE rows == cached \o IdSeq(buffer)
    <3>1. kind \in Text /\ Writing = IdSeq(buffer)
          BY <2>5 DEF TextFails, Writing
    <3>2. PICK n \in 0..Len(rows) - 1, torn \in BOOLEAN : Flushed(rows, n, torn \/ (half /\ n = 0))
          BY <2>5 DEF TextFails
    <3>3. n \in 0..Len(rows)
      <4>1. rows \in Seq(Nat \ {Torn})
            BY RowTypes
      <4>2. Len(rows) \in Nat
            BY <4>1, LenProperties
      <4> QED  BY <4>2
    <3>4. (torn \/ (half /\ n = 0)) \in BOOLEAN
          OBVIOUS
    <3>5. Handled(rows)
          BY <3>2, <3>3, <3>4 DEF Handled
    <3> QED  BY <3>1, <3>5
  <2>6. CASE WriteParquet
        BY <2>6 DEF WriteParquet
  <2>7. CASE ParquetFails
        BY <2>7 DEF ParquetFails
  <2> QED  BY <1>4, <2>1, <2>2, <2>3, <2>4, <2>5, <2>6, <2>7 DEF Writes
<1>5. CASE Start \/ StreamEnds \/ Cancelled \/ Restart
      BY <1>5 DEF Start, StreamEnds, Cancelled, Restart
<1>6. CASE Receive
      BY <1>6 DEF Receive
<1>7. CASE Die
  <2>1. CASE kind = "memory" /\ store' = <<>> /\ UNCHANGED cached
        BY <2>1
  <2>2. CASE /\ kind \in Text
             /\ \E n \in 0..Len(cached \o Writing), torn \in BOOLEAN :
                    Dropped(cached \o Writing, n, torn)
        BY <2>2 DEF Handled
  <2>3. CASE /\ kind \in Sql /\ UNCHANGED cached
             /\ UNCHANGED store \/ (Accepts /\ store' = store \o Writing)
        BY <2>3 DEF Accepts, Writing
  <2>4. CASE kind = "parquet" /\ store' = (IF writer THEN <<>> ELSE store) /\ cached' = <<>>
        BY <2>4
  <2> QED  BY <1>7, <2>1, <2>2, <2>3, <2>4 DEF Die, Committed, Writing
<1> QED  BY <1>1, <1>2, <1>3, <1>4, <1>5, <1>6, <1>7 DEF Next

\* The rows there are stay in the order of the stream, and only a flush adds to
\* them: the samples of the buffer.
LEMMA RowsStep ==
    ASSUME TypeOK, RowsWhereTheyBelong, InStreamOrder, [Next]_vars
    PROVE  /\ Ascending(store') /\ Ascending(cached')
           /\ Below(ToSet(store'), ToSet(cached'))
           /\ Present' \subseteq Present \cup {Torn} \cup
                                 (IF pc = "write" THEN Ids(buffer) ELSE {})
<1>1. /\ store \in Seq(Nat) /\ cached \in Seq(Nat) /\ IdSeq(buffer) \in Seq(Nat)
      /\ ToSet(IdSeq(buffer)) = Ids(buffer)
  <2>1. cached \in Seq(Nat \ {Torn}) /\ Nat \ {Torn} \subseteq Nat /\ buffer \in Seq(Sample)
        BY DEF TypeOK
  <2>2. cached \in Seq(Nat)
        BY <2>1, SeqMonotonic
  <2> QED  BY <2>1, <2>2, IdsOfRows DEF TypeOK
<1>2. /\ Ascending(store) /\ Ascending(cached) /\ Below(ToSet(store), ToSet(cached))
      /\ Present = ToSet(store) \cup ToSet(cached) /\ Present' = ToSet(store') \cup ToSet(cached')
      BY DEF InStreamOrder, Present
<1>3. pc = "write" => Ascending(IdSeq(buffer)) /\ Below(Present, Ids(buffer))
      BY DEF InStreamOrder, Active
<1>4. \A s : Below({}, s) /\ Below(s, {})
      BY DEF Below
<1>5. /\ Writing \in Seq(Nat) /\ cached \o Writing \in Seq(Nat)
      /\ Ascending(cached \o Writing) /\ Below(ToSet(store), ToSet(cached \o Writing))
      /\ ToSet(cached \o Writing) = ToSet(cached) \cup (IF pc = "write" THEN Ids(buffer) ELSE {})
  <2>1. CASE pc = "write"
    <3>1. Writing = IdSeq(buffer)
          BY <2>1 DEF Writing
    <3>2. Below(ToSet(cached), Ids(buffer)) /\ Below(ToSet(store), Ids(buffer))
          BY <1>2, <1>3, <2>1 DEF Below
    <3>3. /\ cached \o IdSeq(buffer) \in Seq(Nat)
          /\ ToSet(cached \o IdSeq(buffer)) = ToSet(cached) \cup Ids(buffer)
          BY <1>1, RowsAdded
    <3>4. Ascending(cached \o IdSeq(buffer))
          BY <1>1, <1>2, <1>3, <2>1, <3>2, AscendingConcat
    <3> QED  BY <1>1, <1>2, <2>1, <3>1, <3>2, <3>3, <3>4 DEF Below
  <2>2. CASE pc # "write"
    <3>1. Writing = <<>> /\ cached \o <<>> = cached
          BY <1>1, <2>2, ConcatEmptySeq DEF Writing
    <3> QED  BY <1>1, <1>2, <2>2, <3>1, NoRows
  <2> QED  BY <2>1, <2>2
<1>6. ASSUME NEW rows \in Seq(Nat), Ascending(rows), Below(ToSet(store), ToSet(rows)), Handled(rows)
      PROVE  /\ Ascending(store') /\ Ascending(cached') /\ Below(ToSet(store'), ToSet(cached'))
             /\ Present' \subseteq ToSet(store) \cup ToSet(rows) \cup {Torn}
  <2>1. PICK n \in 0..Len(rows), torn \in BOOLEAN : Flushed(rows, n, torn) \/ Dropped(rows, n, torn)
        BY <1>6 DEF Handled
  <2> QED  BY <1>1, <1>2, <1>6, <2>1, FlushedInOrder
<1>7. CASE UNCHANGED <<store, cached>>
      BY <1>2, <1>7
<1>8. CASE kind \in {"csv", "memory"} /\ store' = <<>> /\ UNCHANGED cached
      BY <1>2, <1>4, <1>8, NoRows
<1>9. CASE Handled(cached) \/ Handled(cached \o Writing)
  <2>1. CASE Handled(cached)
        BY <1>1, <1>2, <1>6, <2>1
  <2>2. CASE Handled(cached \o Writing)
        BY <1>2, <1>5, <1>6, <2>2
  <2> QED  BY <1>9, <2>1, <2>2
<1>10. CASE \/ store' \in {cached, store, <<>>} /\ cached' = <<>>
            \/ store' = <<>> /\ cached' = cached
       BY <1>2, <1>4, <1>10, NoRows
<1>11. CASE pc = "write" /\ store' \in {store, <<>>} /\ cached' = cached \o IdSeq(buffer)
  <2>1. Writing = IdSeq(buffer)
        BY <1>11 DEF Writing
  <2> QED  BY <1>2, <1>4, <1>5, <1>11, <2>1, NoRows
<1>12. CASE /\ kind \in Sql \cup {"memory"} /\ pc = "write"
            /\ store' = store \o IdSeq(buffer) /\ UNCHANGED cached
  <2>1. cached = <<>>
        BY <1>12 DEF RowsWhereTheyBelong
  <2>2. /\ Below(ToSet(store), Ids(buffer)) /\ Ascending(IdSeq(buffer))
        BY <1>2, <1>3, <1>12 DEF Below
  <2>3. Ascending(store \o IdSeq(buffer)) /\ ToSet(store \o IdSeq(buffer)) = ToSet(store) \cup Ids(buffer)
        BY <1>1, <1>2, <2>2, AscendingConcat, RowsAdded
  <2> QED  BY <1>2, <1>4, <1>12, <2>1, <2>3, NoRows
<1> QED  BY RowsEffect, <1>7, <1>8, <1>9, <1>10, <1>11, <1>12

-----------------------------------------------------------------------------
(***************************************************************************)
(* What a step does to the pipe                                            *)
(***************************************************************************)

WriteMany == \/ InsertSqlite \/ CopyPostgres \/ WriteMemory \/ WriteCsv \/ WriteJsonl
             \/ WriteParquet

\* A step leaves the pipe and the rows alone, ends the pipe or comes between two
\* of them, starts one, takes a batch, or is the write_many of a flush.
LEMMA PipeStep ==
    ASSUME TypeOK, [Next]_vars
    PROVE  /\ kind' = kind
           /\ \/ /\ UNCHANGED <<store, cached, buffer, next, taken, emitted>>
                 /\ kind = "parquet" => writer' = writer
                 /\ Active' => Active
                 /\ pc' = "returned" => pc = "returned" \/ (Active /\ buffer = <<>>)
              \/ /\ ~Running' /\ next' = next
              \/ /\ UNCHANGED <<store, cached, writer, next>> /\ pc' = "stream"
                 /\ buffer' = <<>> /\ emitted' = 0 /\ taken' = {}
              \/ /\ UNCHANGED <<store, cached, writer, emitted>> /\ Active /\ Active'
                 /\ next \in 1..Len(Stream) /\ next' = next + 1
                 /\ buffer' = buffer \o Stream[next]
                 /\ taken' = taken \cup Ids(Stream[next])
              \/ /\ WriteMany /\ pc = "write" /\ Running'
                 /\ buffer' = <<>> /\ emitted' = emitted + Len(buffer)
                 /\ UNCHANGED <<next, taken>>
<1> USE DEF diskVars, sinkVars, pipeVars, Active, Running
<1>1. CASE UNCHANGED vars
      BY <1>1 DEF vars
<1>2. CASE Opens
  <2>1. CASE IntrospectSqlite \/ IntrospectPostgres \/ IntrospectFails
        BY <2>1 DEF IntrospectSqlite, IntrospectPostgres, IntrospectFails, LockTo
  <2>2. CASE OpenMemory \/ OpenCsv \/ OpenJsonl \/ OpenParquet \/ OpenSqlite \/ OpenPostgres
             \/ OpenFails
        BY <2>2 DEF OpenMemory, OpenCsv, OpenJsonl, OpenParquet, OpenSqlite, OpenPostgres,
               OpenFails, Opening
  <2> QED  BY <1>2, <2>1, <2>2 DEF Opens
<1>3. CASE Closes
  <2>1. Closing
        BY <1>3 DEF Closes, CloseMemory, CloseCsv, CloseJsonl, CloseText, CloseParquet,
               CloseSqlite, ClosePostgres
  <2> QED  BY <2>1 DEF Closing
<1>4. CASE Writes
  <2>1. CASE CreateSqlite \/ CreatePostgres
    <3>1. kind # "parquet" /\ Created
          BY <2>1 DEF CreateSqlite, CreatePostgres
    <3> QED  BY <3>1 DEF Created
  <2>2. CASE CreateFails \/ InsertFails \/ TextFails \/ ParquetFails
    <3>1. Raise
          BY <2>2 DEF CreateFails, InsertFails, TextFails, ParquetFails
    <3> QED  BY <3>1 DEF Raise
  <2>3. CASE WriteMany
    <3>1. Counted /\ pc = "write" /\ kind' = kind
          BY <2>3 DEF WriteMany, InsertSqlite, CopyPostgres, Inserted, Accepts, WriteMemory,
                 WriteCsv, WriteJsonl, WriteText, WriteParquet
    <3> QED  BY <2>3, <3>1 DEF Counted
  <2> QED  BY <1>4, <2>1, <2>2, <2>3 DEF Writes, WriteMany
<1>5. CASE Start
      BY <1>5 DEF Start
<1>6. CASE StreamEnds
      BY <1>6 DEF StreamEnds, FlushPoint, Leftover
<1>7. CASE Cancelled \/ Restart
      BY <1>7 DEF Cancelled, Raise, Restart
<1>8. CASE Receive
  <2>1. /\ pc = "stream" /\ next <= Len(Stream) /\ next' = next + 1
        /\ buffer' = buffer \o Stream[next] /\ taken' = taken \cup Ids(Stream[next])
        /\ UNCHANGED <<kind, store, cached, writer, emitted>>
        /\ pc' \in {pc, FlushPoint}
        BY <1>8 DEF Receive
  <2>2. next \in 1..Len(Stream)
    <3>1. next \in 1..Len(Stream) + 1 /\ Len(Stream) \in Nat
          BY SinksAssumption, LenProperties DEF TypeOK
    <3> QED  BY <2>1, <3>1
  <2>3. FlushPoint \in {"create", "write"}
        BY DEF FlushPoint
  <2> QED  BY <2>1, <2>2, <2>3
<1>9. CASE Die
      BY <1>9 DEF Die
<1> QED  BY <1>1, <1>2, <1>3, <1>4, <1>5, <1>6, <1>7, <1>8, <1>9 DEF Next

-----------------------------------------------------------------------------
(***************************************************************************)
(* The stream                                                              *)
(***************************************************************************)

\* A buffer that takes a batch.
LEMMA IdsOfConcat ==
    ASSUME NEW a \in Seq(Sample), NEW b \in Seq(Sample)
    PROVE  /\ a \o b \in Seq(Sample) /\ Len(a \o b) = Len(a) + Len(b)
           /\ IdSeq(a \o b) = IdSeq(a) \o IdSeq(b)
           /\ Ids(a \o b) = Ids(a) \cup Ids(b)
<1>1. /\ a \o b \in Seq(Sample) /\ Len(a \o b) = Len(a) + Len(b)
      /\ \A i \in 1..Len(a) + Len(b) :
             (a \o b)[i] = IF i <= Len(a) THEN a[i] ELSE b[i - Len(a)]
      /\ Len(a) \in Nat /\ Len(b) \in Nat
      BY ConcatProperties, LenProperties
<1>2. /\ IdSeq(a) \in Seq(Nat) /\ IdSeq(b) \in Seq(Nat) /\ IdSeq(a \o b) \in Seq(Nat)
      /\ ToSet(IdSeq(a)) = Ids(a) /\ ToSet(IdSeq(b)) = Ids(b)
      /\ ToSet(IdSeq(a \o b)) = Ids(a \o b)
      BY <1>1, IdsOfRows
<1>3. \A s \in Seq(Sample) : /\ Len(IdSeq(s)) = Len(s)
                             /\ \A i \in 1..Len(s) : IdSeq(s)[i] = s[i].id
  <2>1. TAKE s \in Seq(Sample)
  <2>2. Len(s) \in Nat /\ IdSeq(s) \in Seq(Nat)
        BY LenProperties, IdsOfRows
  <2>3. DOMAIN IdSeq(s) = 1..Len(s) /\ DOMAIN IdSeq(s) = 1..Len(IdSeq(s))
        BY <2>2, LenProperties DEF IdSeq
  <2>4. Len(IdSeq(s)) = Len(s)
        BY <2>2, <2>3, LenProperties
  <2> QED  BY <2>4 DEF IdSeq
<1>4. /\ Len(IdSeq(a) \o IdSeq(b)) = Len(a) + Len(b) /\ IdSeq(a) \o IdSeq(b) \in Seq(Nat)
      /\ \A i \in 1..Len(a) + Len(b) : (IdSeq(a) \o IdSeq(b))[i] =
             IF i <= Len(a) THEN IdSeq(a)[i] ELSE IdSeq(b)[i - Len(a)]
  <2>1. Len(IdSeq(a)) = Len(a) /\ Len(IdSeq(b)) = Len(b)
        BY <1>3
  <2>2. /\ Len(IdSeq(a) \o IdSeq(b)) = Len(IdSeq(a)) + Len(IdSeq(b))
        /\ IdSeq(a) \o IdSeq(b) \in Seq(Nat)
        /\ \A i \in 1..Len(IdSeq(a)) + Len(IdSeq(b)) : (IdSeq(a) \o IdSeq(b))[i] =
               IF i <= Len(IdSeq(a)) THEN IdSeq(a)[i] ELSE IdSeq(b)[i - Len(IdSeq(a))]
    <3>1. IdSeq(a) \in Seq(Nat) /\ IdSeq(b) \in Seq(Nat)
          BY <1>2
    <3> HIDE DEF IdSeq
    <3> QED  BY <3>1, ConcatProperties
  <2> QED  BY <2>1, <2>2
<1>5. ASSUME NEW i \in 1..Len(a) + Len(b)
      PROVE  IdSeq(a \o b)[i] = (IdSeq(a) \o IdSeq(b))[i]
  <2>1. IdSeq(a \o b)[i] = (a \o b)[i].id
        BY <1>1, <1>3
  <2>2. CASE i <= Len(a)
    <3>1. i \in 1..Len(a)
          BY <1>1, <2>2
    <3>2. IdSeq(a)[i] = a[i].id /\ (a \o b)[i] = a[i]
          BY <1>1, <1>3, <2>2, <3>1
    <3> QED  BY <1>4, <2>1, <2>2, <3>2
  <2>3. CASE ~(i <= Len(a))
    <3>1. i - Len(a) \in 1..Len(b)
          BY <1>1, <2>3
    <3>2. IdSeq(b)[i - Len(a)] = b[i - Len(a)].id /\ (a \o b)[i] = b[i - Len(a)]
          BY <1>1, <1>3, <2>3, <3>1
    <3> QED  BY <1>4, <2>1, <2>3, <3>2
  <2> QED  BY <2>2, <2>3
<1>6. IdSeq(a \o b) = IdSeq(a) \o IdSeq(b)
  <2>1. Len(IdSeq(a \o b)) = Len(a) + Len(b)
        BY <1>1, <1>3
  <2> QED  BY <1>2, <1>4, <1>5, <2>1, SeqEqual
<1> QED  BY <1>1, <1>2, <1>6, RowsAdded

\* The next batch comes before those that follow, and its ids rise.
LEMMA BatchInOrder ==
    ASSUME NEW n \in 1..Len(Stream)
    PROVE  /\ Stream[n] \in Seq(Sample)
           /\ Ascending(IdSeq(Stream[n]))
           /\ Coming(n) = Ids(Stream[n]) \cup Coming(n + 1)
           /\ Below(Ids(Stream[n]), Coming(n + 1))
<1>1. Stream \in Seq(Seq(Sample)) /\ Len(Stream) \in Nat
      BY SinksAssumption, LenProperties
<1>2. Stream[n] \in Seq(Sample) /\ Len(Stream[n]) \in Nat
  <2>1. Stream[n] \in Seq(Sample)
        BY <1>1, ElementOfSeq
  <2> QED  BY <2>1, LenProperties
<1>3. Ascending(IdSeq(Stream[n]))
  <2>1. Len(IdSeq(Stream[n])) = Len(Stream[n])
    <3>1. IdSeq(Stream[n]) \in Seq(Nat)
          BY <1>2, IdsOfRows
    <3>2. DOMAIN IdSeq(Stream[n]) = 1..Len(Stream[n])
          BY DEF IdSeq
    <3>3. DOMAIN IdSeq(Stream[n]) = 1..Len(IdSeq(Stream[n])) /\ Len(IdSeq(Stream[n])) \in Nat
          BY <3>1, LenProperties
    <3> QED  BY <1>2, <3>2, <3>3
  <2>2. ASSUME NEW i \in 1..Len(Stream[n]), NEW j \in 1..Len(Stream[n]), i < j
        PROVE  IdSeq(Stream[n])[i] < IdSeq(Stream[n])[j]
    <3>1. Stream[n][i].id < Stream[n][j].id
          BY <2>2, SamplesNumbered
    <3> QED  BY <3>1 DEF IdSeq
  <2> QED  BY <2>1, <2>2 DEF Ascending
<1>4. n..Len(Stream) = {n} \cup (n + 1..Len(Stream))
      BY <1>1
<1>5. Coming(n) = Ids(Stream[n]) \cup Coming(n + 1)
      BY <1>4 DEF Coming
<1>6. ASSUME NEW x \in Ids(Stream[n]), NEW y \in Coming(n + 1)
      PROVE  x < y
  <2>1. PICK b \in n + 1..Len(Stream) : y \in Ids(Stream[b])
        BY DEF Coming
  <2>2. b \in 1..Len(Stream) /\ n < b
        BY <1>1, <2>1
  <2>3. PICK i \in 1..Len(Stream[n]) : x = Stream[n][i].id
        BY DEF Ids
  <2>4. PICK j \in 1..Len(Stream[b]) : y = Stream[b][j].id
        BY <2>1 DEF Ids
  <2> QED  BY <2>2, <2>3, <2>4, SamplesNumbered
<1> QED  BY <1>2, <1>3, <1>5, <1>6 DEF Below

\* No sample is in two batches.
LEMMA BatchesDisjoint ==
    ASSUME NEW b \in 1..Len(Stream), NEW c \in 1..Len(Stream), b # c
    PROVE  Ids(Stream[b]) \cap Ids(Stream[c]) = {}
<1>1. SUFFICES ASSUME NEW i \in 1..Len(Stream[b]), NEW j \in 1..Len(Stream[c]),
                      Stream[b][i].id = Stream[c][j].id
               PROVE  FALSE
      BY DEF Ids
<1>2. Stream[b][i].id < Stream[c][j].id \/ Stream[c][j].id < Stream[b][i].id
      BY SamplesNumbered
<1>3. Stream[b][i].id \in Nat /\ Stream[c][j].id \in Nat
  <2>1. Stream[b] \in Seq(Sample) /\ Stream[c] \in Seq(Sample)
        BY BatchInOrder
  <2>2. Stream[b][i] \in Sample /\ Stream[c][j] \in Sample
        BY <2>1, ElementOfSeq
  <2> QED  BY <2>2 DEF Sample
<1> QED  BY <1>1, <1>2, <1>3

\* A batch has as many ids as samples.
LEMMA BatchCounted ==
    ASSUME NEW n \in 1..Len(Stream)
    PROVE  /\ IsFiniteSet(Ids(Stream[n])) /\ Cardinality(Ids(Stream[n])) = Len(Stream[n])
           /\ Len(Stream[n]) \in Nat /\ Ids(Stream[n]) \subseteq Nat \ {Torn}
<1> DEFINE s == Stream[n]
           place == [i \in 1..Len(s) |-> s[i].id]
<1>1. s \in Seq(Sample) /\ Len(s) \in Nat /\ \A i \in 1..Len(s) : s[i] \in Sample
  <2>1. s \in Seq(Sample)
        BY BatchInOrder
  <2> QED  BY <2>1, LenProperties, ElementOfSeq
<1>2. \A i \in 1..Len(s) : s[i].id \in Nat \ {Torn}
      BY <1>1 DEF Sample, Torn
<1>3. place \in [1..Len(s) -> Ids(s)]
      BY DEF Ids
<1>4. \A i, j \in 1..Len(s) : i < j => place[i] < place[j]
      BY SamplesNumbered
<1>5. place \in Injection(1..Len(s), Ids(s))
  <2>1. ASSUME NEW i \in 1..Len(s), NEW j \in 1..Len(s), place[i] = place[j]
        PROVE  i = j
    <3>1. place[i] \in Nat /\ place[j] \in Nat
          BY <1>2
    <3>2. ~(place[i] < place[j]) /\ ~(place[j] < place[i])
          BY <2>1, <3>1
    <3>3. ~(i < j) /\ ~(j < i)
          BY <1>4, <3>2
    <3>4. i \in Int /\ j \in Int
          BY <1>1
    <3> QED  BY <3>3, <3>4
  <2>2. IsInjective(place)
        BY <2>1 DEF IsInjective
  <2> QED  BY <1>3, <2>2 DEF Injection
<1>6. place \in Surjection(1..Len(s), Ids(s))
  <2>1. \A t \in Ids(s) : \E i \in 1..Len(s) : place[i] = t
        BY DEF Ids
  <2> QED  BY <1>3, <2>1 DEF Surjection
<1>7. ExistsBijection(1..Len(s), Ids(s))
      BY <1>5, <1>6 DEF ExistsBijection, Bijection
<1>8. Cardinality(Ids(s)) = Len(s)
      BY <1>1, <1>7, FS_CountingElements
<1>9. IsFiniteSet(Ids(s))
      BY <1>1, <1>7, FS_NatBijection
<1>10. Ids(s) \subseteq Nat \ {Torn}
       BY <1>2 DEF Ids
<1> QED  BY <1>1, <1>8, <1>9, <1>10

-----------------------------------------------------------------------------
(***************************************************************************)
(* The invariant                                                           *)
(***************************************************************************)

LEMMA PlacesStep ==
    ASSUME TypeOK, RowsWhereTheyBelong, [Next]_vars
    PROVE  RowsWhereTheyBelong'
<1> USE DEF diskVars, sinkVars
<1>1. kind' = kind
      BY PipeStep
<1>2. kind \in Sql \cup {"memory"} => cached' = <<>>
  <2>1. SUFFICES ASSUME kind \in Sql \cup {"memory"} PROVE cached' = <<>>
        OBVIOUS
  <2>2. kind \notin Text /\ kind # "parquet"
        BY <2>1 DEF Sql, Text
  <2>3. UNCHANGED cached
        BY <2>2, RowsEffect
  <2> QED  BY <2>1, <2>3 DEF RowsWhereTheyBelong
<1>3. kind = "parquet" => IF writer' THEN store' = <<>> ELSE cached' = <<>>
  <2>1. SUFFICES ASSUME kind = "parquet", IF writer THEN store = <<>> ELSE cached = <<>>
                 PROVE  IF writer' THEN store' = <<>> ELSE cached' = <<>>
        BY DEF RowsWhereTheyBelong
  <2>2. kind \notin Text /\ kind \notin Sql /\ kind # "csv" /\ kind # "memory" /\ kind # "jsonl"
        /\ kind # "sqlite" /\ kind # "postgres"
        BY <2>1 DEF Sql, Text
  <2>3. CASE UNCHANGED vars
        BY <2>1, <2>3 DEF vars
  <2>4. CASE Opens
        BY <2>1, <2>2, <2>4 DEF Opens, OpenMemory, OpenCsv, OpenJsonl, OpenParquet, OpenSqlite,
               OpenPostgres, OpenFails, IntrospectSqlite, IntrospectPostgres,
               IntrospectFails, Opening
  <2>5. CASE Closes
        BY <2>1, <2>2, <2>5 DEF Closes, CloseMemory, CloseCsv, CloseJsonl, CloseParquet,
               CloseSqlite, ClosePostgres
  <2>6. CASE Writes
    <3>1. WriteParquet \/ ParquetFails \/ CreateFails
          BY <2>2, <2>6 DEF Writes, CreateSqlite, CreatePostgres, InsertSqlite, CopyPostgres,
                 WriteMemory, WriteCsv, WriteJsonl, InsertFails, TextFails
    <3> QED  BY <2>1, <3>1 DEF WriteParquet, ParquetFails, CreateFails
  <2>7. CASE Start \/ StreamEnds \/ Cancelled \/ Restart
        BY <2>1, <2>7 DEF Start, StreamEnds, Cancelled, Restart
  <2>8. CASE Receive
        BY <2>1, <2>8 DEF Receive
  <2>9. CASE Die
        BY <2>1, <2>2, <2>9 DEF Die
  <2> QED  BY <2>3, <2>4, <2>5, <2>6, <2>7, <2>8, <2>9 DEF Next
<1>4. kind = "csv" /\ FileOpen' => ~midline'
  <2>1. SUFFICES ASSUME kind = "csv", FileOpen', FileOpen => ~midline
                 PROVE  ~midline'
        BY DEF RowsWhereTheyBelong
  <2>2. kind \notin Sql /\ kind # "parquet" /\ kind # "memory" /\ kind # "jsonl"
        /\ kind # "sqlite" /\ kind # "postgres"
        BY <2>1 DEF Sql
  <2>3. CASE UNCHANGED vars
        BY <2>1, <2>3 DEF vars, FileOpen
  <2>4. CASE Opens
        BY <2>1, <2>2, <2>4 DEF Opens, OpenMemory, OpenCsv, OpenJsonl, OpenParquet, OpenSqlite,
               OpenPostgres, OpenFails, IntrospectSqlite, IntrospectPostgres,
               IntrospectFails, FileOpen, Opening
  <2>5. CASE Closes
    <3>1. Closing
          BY <2>5 DEF Closes, CloseMemory, CloseCsv, CloseJsonl, CloseText, CloseParquet,
                 CloseSqlite, ClosePostgres
    <3> QED  BY <2>1, <3>1 DEF Closing, FileOpen
  <2>6. CASE Writes
    <3>1. WriteCsv \/ TextFails \/ CreateFails
          BY <2>2, <2>6 DEF Writes, CreateSqlite, CreatePostgres, InsertSqlite, CopyPostgres,
                 WriteMemory, WriteJsonl, WriteParquet, InsertFails, ParquetFails
    <3>2. FileOpen
          BY <3>1 DEF WriteCsv, WriteText, TextFails, CreateFails, FileOpen
    <3>3. CASE WriteCsv
          BY <2>1, <3>2, <3>3 DEF WriteCsv, WriteText, Flushed
    <3>4. CASE TextFails
          BY <2>1, <3>2, <3>4 DEF TextFails, Flushed
    <3>5. CASE CreateFails
          BY <2>1, <3>2, <3>5 DEF CreateFails
    <3> QED  BY <3>1, <3>3, <3>4, <3>5
  <2>7. CASE Start \/ StreamEnds \/ Cancelled
        BY <2>1, <2>2, <2>7 DEF Start, StreamEnds, Cancelled, FileOpen
  <2>8. CASE Receive
        BY <2>1, <2>8 DEF Receive, FileOpen
  <2>9. CASE Die \/ Restart
        BY <2>1, <2>9 DEF Die, Restart, FileOpen
  <2> QED  BY <2>3, <2>4, <2>5, <2>6, <2>7, <2>8, <2>9 DEF Next
<1>5. kind = "jsonl" /\ FileOpen' /\ midline' => ragged'
  <2>1. SUFFICES ASSUME kind = "jsonl", FileOpen', midline', FileOpen /\ midline => ragged,
                        midline \in BOOLEAN
                 PROVE  ragged'
        BY DEF RowsWhereTheyBelong, TypeOK
  <2>2. kind \notin Sql /\ kind # "parquet" /\ kind # "memory" /\ kind # "csv"
        /\ kind # "sqlite" /\ kind # "postgres"
        BY <2>1 DEF Sql
  <2>3. CASE UNCHANGED vars
        BY <2>1, <2>3 DEF vars, FileOpen
  <2>4. CASE Opens
        BY <2>1, <2>2, <2>4 DEF Opens, OpenMemory, OpenCsv, OpenJsonl, OpenParquet, OpenSqlite,
               OpenPostgres, OpenFails, IntrospectSqlite, IntrospectPostgres,
               IntrospectFails, FileOpen, Opening
  <2>5. CASE Closes
    <3>1. Closing
          BY <2>5 DEF Closes, CloseMemory, CloseCsv, CloseJsonl, CloseText, CloseParquet,
                 CloseSqlite, ClosePostgres
    <3> QED  BY <2>1, <3>1 DEF Closing, FileOpen
  <2>6. CASE Writes
    <3>1. WriteJsonl \/ TextFails \/ CreateFails
          BY <2>2, <2>6 DEF Writes, CreateSqlite, CreatePostgres, InsertSqlite, CopyPostgres,
                 WriteMemory, WriteCsv, WriteParquet, InsertFails, ParquetFails
    <3>2. FileOpen /\ ragged' = ragged
          BY <3>1 DEF WriteJsonl, WriteText, TextFails, CreateFails, Raise, FileOpen
    <3>3. midline' => midline
          BY <3>1 DEF WriteJsonl, WriteText, TextFails, CreateFails, Flushed
    <3> QED  BY <2>1, <3>2, <3>3
  <2>7. CASE Start \/ StreamEnds \/ Cancelled
        BY <2>1, <2>2, <2>7 DEF Start, StreamEnds, Cancelled, Raise, FileOpen
  <2>8. CASE Receive
        BY <2>1, <2>8 DEF Receive, FileOpen
  <2>9. CASE Die \/ Restart
        BY <2>1, <2>9 DEF Die, Restart, FileOpen
  <2> QED  BY <2>3, <2>4, <2>5, <2>6, <2>7, <2>8, <2>9 DEF Next
<1> QED  BY <1>1, <1>2, <1>3, <1>4, <1>5 DEF RowsWhereTheyBelong

\* A file is torn or mended only by what is written to it, and found to be torn
\* only when it is opened.
LEMMA FileStep ==
    ASSUME [Next]_vars, Running'
    PROVE  /\ ragged' = ragged
           /\ WriteMany \/ midline' = midline
<1> USE DEF diskVars, sinkVars, Running, Active
<1>1. CASE UNCHANGED vars
      BY <1>1 DEF vars
<1>2. CASE Opens
      BY <1>2 DEF Opens, OpenMemory, OpenCsv, OpenJsonl, OpenParquet, OpenSqlite, OpenPostgres,
             OpenFails, IntrospectSqlite, IntrospectPostgres, IntrospectFails, Opening, LockTo
<1>3. CASE Closes
  <2>1. Closing
        BY <1>3 DEF Closes, CloseMemory, CloseCsv, CloseJsonl, CloseText, CloseParquet,
               CloseSqlite, ClosePostgres
  <2> QED  BY <2>1 DEF Closing
<1>4. CASE Writes
  <2>1. CASE CreateSqlite \/ CreatePostgres
        BY <2>1 DEF CreateSqlite, CreatePostgres, Created
  <2>2. CASE CreateFails \/ InsertFails \/ TextFails \/ ParquetFails
    <3>1. Raise
          BY <2>2 DEF CreateFails, InsertFails, TextFails, ParquetFails
    <3> QED  BY <3>1 DEF Raise
  <2>3. CASE WriteMany
        BY <2>3 DEF WriteMany, InsertSqlite, CopyPostgres, Inserted, WriteMemory, WriteCsv,
               WriteJsonl, WriteText, WriteParquet
  <2> QED  BY <1>4, <2>1, <2>2, <2>3 DEF Writes, WriteMany
<1>5. CASE Start \/ StreamEnds \/ Receive \/ Restart
      BY <1>5 DEF Start, StreamEnds, Receive, Restart
<1>6. CASE Cancelled
      BY <1>6 DEF Cancelled, Raise
<1>7. CASE Die
      BY <1>7 DEF Die
<1> QED  BY <1>1, <1>2, <1>3, <1>4, <1>5, <1>6, <1>7 DEF Next

\* The rows of all sinks, the buffer and the stream stay in one order.
LEMMA OrderStep ==
    ASSUME TypeOK, RowsWhereTheyBelong, InStreamOrder, [Next]_vars
    PROVE  InStreamOrder'
<1>1. /\ Ascending(store') /\ Ascending(cached') /\ Below(ToSet(store'), ToSet(cached'))
      /\ Present' \subseteq Present \cup {Torn} \cup (IF pc = "write" THEN Ids(buffer) ELSE {})
      BY RowsStep
<1>2. /\ Below(Present, Coming(next))
      /\ Active => /\ Ascending(IdSeq(buffer)) /\ Below(Present, Ids(buffer))
                   /\ Below(Ids(buffer), Coming(next))
      BY DEF InStreamOrder
<1>3. Below(Present', Coming(next))
  <2>1. pc = "write" => Active
        BY DEF Active
  <2> QED  BY <1>1, <1>2, <2>1 DEF Below
<1>4. \A s : Below({}, s) /\ Below(s, {})
      BY DEF Below
<1>5. SUFFICES /\ Below(Present', Coming(next'))
               /\ Active' => /\ Ascending(IdSeq(buffer')) /\ Below(Present', Ids(buffer'))
                             /\ Below(Ids(buffer'), Coming(next'))
      BY <1>1, Zenon DEF InStreamOrder
<1>6. CASE UNCHANGED <<store, cached, buffer, next>> /\ (Active' => Active)
  <2>1. Present' = Present
        BY <1>6 DEF Present
  <2>2. buffer' = buffer /\ next' = next
        BY <1>6
  <2> QED  BY <1>2, <1>6, <2>1, <2>2
<1>7. CASE ~Running' /\ next' = next
      BY <1>3, <1>7 DEF Running
<1>8. CASE buffer' = <<>> /\ next' = next
      BY <1>3, <1>4, <1>8, NoRows
<1>9. CASE /\ UNCHANGED <<store, cached>> /\ Active
           /\ next \in 1..Len(Stream) /\ next' = next + 1
           /\ buffer' = buffer \o Stream[next]
  <2>1. Present' = Present
        BY <1>9 DEF Present
  <2>2. /\ Stream[next] \in Seq(Sample) /\ Ascending(IdSeq(Stream[next]))
        /\ Coming(next) = Ids(Stream[next]) \cup Coming(next + 1)
        /\ Below(Ids(Stream[next]), Coming(next + 1))
        BY <1>9, BatchInOrder
  <2>3. buffer \in Seq(Sample)
        BY DEF TypeOK
  <2>4. /\ IdSeq(buffer') = IdSeq(buffer) \o IdSeq(Stream[next])
        /\ Ids(buffer') = Ids(buffer) \cup Ids(Stream[next])
        BY <1>9, <2>2, <2>3, IdsOfConcat
  <2>5. Below(Ids(buffer), Ids(Stream[next])) /\ Below(Present, Ids(Stream[next]))
        BY <1>2, <1>9, <2>2 DEF Below
  <2>6. Ascending(IdSeq(buffer'))
    <3>1. /\ IdSeq(buffer) \in Seq(Nat) /\ ToSet(IdSeq(buffer)) = Ids(buffer)
          /\ IdSeq(Stream[next]) \in Seq(Nat) /\ ToSet(IdSeq(Stream[next])) = Ids(Stream[next])
          BY <2>2, <2>3, IdsOfRows
    <3> QED  BY <1>2, <1>9, <2>2, <2>4, <2>5, <3>1, AscendingConcat
  <2>7. Below(Present, Coming(next + 1)) /\ Below(Ids(buffer), Coming(next + 1))
        BY <1>2, <1>9, <2>2 DEF Below
  <2>8. Below(Present, Ids(buffer')) /\ Below(Ids(buffer'), Coming(next + 1))
        BY <1>2, <1>9, <2>2, <2>4, <2>5, <2>7 DEF Below
  <2> QED  BY <1>9, <2>1, <2>6, <2>7, <2>8
<1> QED  BY PipeStep, <1>6, <1>7, <1>8, <1>9

-----------------------------------------------------------------------------
\* What a database, a list or a Parquet file has of the buffer is all or nothing.
LEMMA RowsAreWhole ==
    ASSUME TypeOK, RowsWhereTheyBelong, [Next]_vars, kind \notin Text
    PROVE  \/ Present' \in {Present, {}}
           \/ pc = "write" /\ Present' \in {Ids(buffer), Present \cup Ids(buffer)}
<1>1. /\ Present = ToSet(store) \cup ToSet(cached) /\ Present' = ToSet(store') \cup ToSet(cached')
      BY DEF Present
<1>2. /\ store \in Seq(Nat) /\ cached \in Seq(Nat) /\ IdSeq(buffer) \in Seq(Nat)
      /\ ToSet(IdSeq(buffer)) = Ids(buffer)
  <2>1. cached \in Seq(Nat \ {Torn}) /\ Nat \ {Torn} \subseteq Nat /\ buffer \in Seq(Sample)
        BY DEF TypeOK
  <2>2. cached \in Seq(Nat)
        BY <2>1, SeqMonotonic
  <2> QED  BY <2>1, <2>2, IdsOfRows DEF TypeOK
<1>3. /\ ToSet(store \o IdSeq(buffer)) = ToSet(store) \cup Ids(buffer)
      /\ ToSet(cached \o IdSeq(buffer)) = ToSet(cached) \cup Ids(buffer)
      BY <1>2, RowsAdded
<1>4. CASE UNCHANGED <<store, cached>>
      BY <1>1, <1>4
<1>5. CASE kind \in {"csv", "memory"} /\ store' = <<>> /\ UNCHANGED cached
  <2>1. kind = "memory" /\ cached = <<>>
        BY <1>5 DEF Text, RowsWhereTheyBelong
  <2> QED  BY <1>1, <1>5, <2>1, NoRows
<1>6. CASE kind = "parquet"
  <2>1. writer => store = <<>>
        BY <1>6 DEF RowsWhereTheyBelong
  <2>2. ~writer => cached = <<>>
        BY <1>6 DEF RowsWhereTheyBelong
  <2>3. kind \notin Sql
        BY <1>6 DEF Sql
  <2>4. \/ UNCHANGED <<store, cached>>
        \/ store' = (IF writer THEN cached ELSE store) /\ cached' = <<>>
        \/ store' = (IF writer THEN <<>> ELSE store) /\ cached' = <<>>
        \/ store' = <<>> /\ UNCHANGED cached
        \/ /\ pc = "write"
           /\ store' = (IF writer THEN store ELSE <<>>)
           /\ cached' = cached \o IdSeq(buffer)
        BY <1>6, <2>3, RowsEffect
  <2> QED  BY <1>1, <1>3, <2>1, <2>2, <2>4, NoRows
<1>7. CASE pc = "write" /\ store' = store \o IdSeq(buffer) /\ UNCHANGED cached
      BY <1>1, <1>3, <1>7
<1> QED  BY RowsEffect, <1>4, <1>5, <1>6, <1>7

LEMMA WholeStep ==
    ASSUME TypeOK, RowsWhereTheyBelong, BatchesAreWhole, [Next]_vars
    PROVE  BatchesAreWhole'
<1>1. SUFFICES ASSUME kind \notin Text
               PROVE  Whole(Present') /\ (Active' => Whole(Ids(buffer')))
      BY PipeStep DEF BatchesAreWhole
<1>2. Whole(Present) /\ (Active => Whole(Ids(buffer))) /\ Whole({})
      BY <1>1 DEF BatchesAreWhole, Whole
<1>3. \A A, B : Whole(A) /\ Whole(B) => Whole(A \cup B)
      BY DEF Whole
<1>4. Whole(Present')
  <2>1. pc = "write" => Active
        BY DEF Active
  <2> QED  BY <1>1, <1>2, <1>3, <2>1, RowsAreWhole
<1>5. Active' => Whole(Ids(buffer'))
  <2>1. CASE UNCHANGED buffer /\ (Active' => Active)
        BY <1>2, <2>1
  <2>2. CASE ~Running'
        BY <2>2 DEF Running
  <2>3. CASE buffer' = <<>>
        BY <1>2, <2>3, NoRows
  <2>4. CASE Active /\ next \in 1..Len(Stream) /\ buffer' = buffer \o Stream[next]
    <3>1. Whole(Ids(Stream[next]))
          BY <2>4, BatchesDisjoint DEF Whole
    <3>2. Ids(buffer') = Ids(buffer) \cup Ids(Stream[next])
      <4>1. buffer \in Seq(Sample) /\ Stream[next] \in Seq(Sample)
            BY <2>4, BatchInOrder DEF TypeOK
      <4> QED  BY <2>4, <4>1, IdsOfConcat
    <3> QED  BY <1>2, <1>3, <2>4, <3>1, <3>2
  <2> QED  BY PipeStep, <2>1, <2>2, <2>3, <2>4
<1> QED  BY <1>4, <1>5

-----------------------------------------------------------------------------
\* The rows of a write_many that returned are there, with those before them; the
\* first batch of a Parquet writer begins a new file.
LEMMA WrittenAreThere ==
    ASSUME TypeOK, RowsWhereTheyBelong, WriteMany, kind = "jsonl" => ~midline
    PROVE  /\ Ids(buffer) \subseteq Present'
           /\ kind # "parquet" \/ writer => Present \subseteq Present'
           /\ kind = "parquet" => writer'
<1>1. /\ Present = ToSet(store) \cup ToSet(cached) /\ Present' = ToSet(store') \cup ToSet(cached')
      BY DEF Present
<1>2. /\ store \in Seq(Nat) /\ cached \in Seq(Nat) /\ IdSeq(buffer) \in Seq(Nat)
      /\ ToSet(IdSeq(buffer)) = Ids(buffer)
  <2>1. cached \in Seq(Nat \ {Torn}) /\ Nat \ {Torn} \subseteq Nat /\ buffer \in Seq(Sample)
        BY DEF TypeOK
  <2>2. cached \in Seq(Nat)
        BY <2>1, SeqMonotonic
  <2> QED  BY <2>1, <2>2, IdsOfRows DEF TypeOK
<1>3. /\ ToSet(store \o IdSeq(buffer)) = ToSet(store) \cup Ids(buffer)
      /\ ToSet(cached \o IdSeq(buffer)) = ToSet(cached) \cup Ids(buffer)
      /\ cached \o IdSeq(buffer) \in Seq(Nat)
      BY <1>2, RowsAdded
<1>4. CASE InsertSqlite \/ CopyPostgres \/ WriteMemory
  <2>1. kind \in Sql \cup {"memory"} /\ kind # "parquet" /\ store' = store \o IdSeq(buffer)
        BY <1>4 DEF InsertSqlite, CopyPostgres, WriteMemory, Inserted, Accepts, Committed, Sql
  <2>2. cached = <<>>
        BY <2>1 DEF RowsWhereTheyBelong
  <2> QED  BY <1>1, <1>3, <2>1, <2>2, NoRows
<1>5. CASE WriteCsv \/ WriteJsonl
  <2> DEFINE rows == cached \o IdSeq(buffer)
  <2>1. kind \in {"csv", "jsonl"} /\ FileOpen /\ Flushed(rows, Len(cached) + Len(buffer), FALSE)
        BY <1>5 DEF WriteCsv, WriteJsonl, WriteText, FileOpen
  <2>2. ~midline
        BY <2>1 DEF RowsWhereTheyBelong
  <2>3. Len(cached) + Len(buffer) = Len(rows)
        BY RowTypes
  <2>4. SubSeq(rows, 1, Len(rows)) = rows
        BY <1>3, SubSeqFull
  <2>5. store' = store \o rows
    <3>1. Land(rows) = rows
          BY <2>2 DEF Land
    <3> QED  BY <2>1, <2>3, <2>4, <3>1 DEF Flushed
  <2>6. ToSet(store') = ToSet(store) \cup ToSet(rows)
        BY <1>2, <1>3, <2>5, RowsAdded
  <2> QED  BY <1>1, <1>3, <2>1, <2>6
<1>6. CASE WriteParquet
      BY <1>1, <1>3, <1>6, NoRows DEF WriteParquet
<1> QED  BY <1>4, <1>5, <1>6 DEF WriteMany

\* Behind half a line all rows but the first are there, and the line is whole.
LEMMA AllButTheFirst ==
    ASSUME TypeOK, WriteMany, kind = "jsonl", midline
    PROVE  \/ Present \cup Ids(buffer) \subseteq Present'
           \/ /\ ~midline'
              /\ \E r \in Nat : Present \cup Ids(buffer) \subseteq Present' \cup {r}
<1> DEFINE rows == cached \o IdSeq(buffer)
<1>1. /\ Present = ToSet(store) \cup ToSet(cached) /\ Present' = ToSet(store') \cup ToSet(cached')
      BY DEF Present
<1>2. /\ store \in Seq(Nat) /\ cached \in Seq(Nat) /\ IdSeq(buffer) \in Seq(Nat)
      /\ ToSet(IdSeq(buffer)) = Ids(buffer)
  <2>1. cached \in Seq(Nat \ {Torn}) /\ Nat \ {Torn} \subseteq Nat /\ buffer \in Seq(Sample)
        BY DEF TypeOK
  <2>2. cached \in Seq(Nat)
        BY <2>1, SeqMonotonic
  <2> QED  BY <2>1, <2>2, IdsOfRows DEF TypeOK
<1>3. rows \in Seq(Nat) /\ ToSet(rows) = ToSet(cached) \cup Ids(buffer)
      BY <1>2, RowsAdded
<1>4. Len(rows) = Len(cached) + Len(buffer) /\ Len(rows) \in Nat
      BY <1>3, RowTypes, LenProperties
<1>5. WriteJsonl
      BY DEF WriteMany, InsertSqlite, CopyPostgres, WriteMemory, WriteCsv, WriteParquet
<1>6. Flushed(rows, Len(rows), FALSE)
      BY <1>4, <1>5 DEF WriteJsonl, WriteText
<1> HIDE DEF rows
<1>7. SubSeq(rows, 1, Len(rows)) = rows
      BY <1>3, SubSeqFull
<1>8. CASE rows = <<>>
  <2>1. ToSet(cached) = {} /\ Ids(buffer) = {}
        BY <1>3, <1>8, NoRows
  <2>2. store' = store \o <<>>
        BY <1>6, <1>7, <1>8 DEF Flushed, Land
  <2>3. store' = store
        BY <1>2, <2>2, ConcatEmptySeq
  <2> QED  BY <1>1, <2>1, <2>3
<1>9. CASE rows # <<>>
  <2>1. Len(rows) # 0
        BY <1>3, <1>9, EmptySeq
  <2>2. store' = store \o Tail(rows)
        BY <1>6, <1>7, <1>9 DEF Flushed, Land
  <2>3. ~midline'
        BY <1>6, <2>1 DEF Flushed
  <2>4. /\ Tail(rows) \in Seq(Nat) /\ Len(Tail(rows)) = Len(rows) - 1
        /\ \A i \in 1..Len(Tail(rows)) : Tail(rows)[i] = rows[i + 1]
        BY <1>3, <1>9, HeadTailProperties
  <2>5. ASSUME NEW x \in ToSet(rows)
        PROVE  x \in ToSet(Tail(rows)) \cup {rows[1]}
    <3>1. PICK i \in 1..Len(rows) : x = rows[i]
          BY <1>3, <2>5, MembersByPlace
    <3>2. CASE i # 1
      <4>1. i - 1 \in 1..Len(Tail(rows)) /\ (i - 1) + 1 = i
            BY <1>4, <2>4, <3>1, <3>2
      <4>2. Tail(rows)[i - 1] = x
            BY <2>4, <3>1, <4>1
      <4> QED  BY <2>4, <4>1, <4>2, MembersByPlace
    <3> QED  BY <3>1, <3>2
  <2>6. rows[1] \in Nat
    <3>1. 1 \in 1..Len(rows)
          BY <1>4, <2>1
    <3> QED  BY <1>3, <3>1, MembersByPlace
  <2>7. ToSet(store') = ToSet(store) \cup ToSet(Tail(rows))
        BY <1>2, <2>2, <2>4, RowsAdded
  <2>8. Present \cup Ids(buffer) \subseteq Present' \cup {rows[1]}
        BY <1>1, <1>3, <2>5, <2>7
  <2> QED  BY <2>3, <2>6, <2>8
<1> QED  BY <1>8, <1>9

\* What pipe took from the stream is counted or still in its buffer.
LEMMA AccountStep ==
    ASSUME TypeOK, RowsWhereTheyBelong, TakenIsAccounted, [Next]_vars
    PROVE  TakenIsAccounted'
<1>1. kind' = kind /\ emitted \in Nat /\ buffer \in Seq(Sample) /\ Len(buffer) \in Nat
      BY PipeStep, RowTypes DEF TypeOK
<1>2. Active => Running
      BY DEF Running
<1>m. ASSUME Running', ~WriteMany
      PROVE  ragged' = ragged /\ midline' = midline
      BY <1>m, FileStep
<1>w. ASSUME WriteMany
      PROVE  /\ pc = "write" /\ Running'
             /\ buffer' = <<>> /\ emitted' = emitted + Len(buffer)
             /\ UNCHANGED <<next, taken>>
  <2>1. Counted /\ pc = "write"
        BY <1>w DEF WriteMany, InsertSqlite, CopyPostgres, Inserted, Accepts, WriteMemory,
               WriteCsv, WriteJsonl, WriteText, WriteParquet
  <2> QED  BY <2>1 DEF Counted, Running, Active
<1>3. CASE /\ ~WriteMany
           /\ UNCHANGED <<store, cached, buffer, next, taken, emitted>>
           /\ kind = "parquet" => writer' = writer
           /\ Active' => Active
           /\ pc' = "returned" => pc = "returned" \/ (Active /\ buffer = <<>>)
  <2>1. Present' = Present
        BY <1>3 DEF Present
  <2>2. Running' => Running
        BY <1>3 DEF Running
  <2>3. Running' => (NothingIsLost => NothingIsLost')
    <3>1. SUFFICES ASSUME Running', NothingIsLost
                   PROVE  NothingIsLost'
          OBVIOUS
    <3>2. ragged' = ragged /\ midline' = midline
          BY <1>3, <1>m, <3>1
    <3> QED  BY <1>1, <1>3, <2>1, <3>1, <3>2 DEF NothingIsLost
  <2> QED  BY <1>1, <1>2, <1>3, <2>1, <2>2, <2>3 DEF TakenIsAccounted
<1>4. CASE ~Running'
      BY <1>4 DEF TakenIsAccounted, Running
<1>5. CASE /\ UNCHANGED <<store, cached, writer, next>> /\ pc' = "stream"
           /\ buffer' = <<>> /\ emitted' = 0 /\ taken' = {}
  <2>1. IsFiniteSet({}) /\ Cardinality({}) = 0
        BY FS_EmptySet
  <2>2. Len(<<>>) = 0
        BY EmptySeq
  <2>3. Below({}, Coming(next'))
        BY DEF Below
  <2>4. emitted' + Len(buffer') = Cardinality(taken')
        BY <1>5, <2>1, <2>2
  <2>5. NothingIsLost'
        BY <1>5 DEF NothingIsLost
  <2> QED  BY <1>5, <2>1, <2>3, <2>4, <2>5 DEF TakenIsAccounted
<1>6. CASE /\ ~WriteMany
           /\ UNCHANGED <<store, cached, writer, emitted>> /\ Active /\ Active'
           /\ next \in 1..Len(Stream) /\ next' = next + 1
           /\ buffer' = buffer \o Stream[next]
           /\ taken' = taken \cup Ids(Stream[next])
  <2> DEFINE batch == Stream[next]
  <2>1. /\ IsFiniteSet(taken) /\ emitted + Len(buffer) = Cardinality(taken)
        /\ Below(taken, Coming(next))
        /\ NothingIsLost
        /\ kind = "parquet" /\ ~writer => taken \subseteq Ids(buffer)
        BY <1>2, <1>6 DEF TakenIsAccounted
  <2>2. /\ batch \in Seq(Sample) /\ Coming(next) = Ids(batch) \cup Coming(next + 1)
        /\ Below(Ids(batch), Coming(next + 1))
        BY <1>6, BatchInOrder
  <2>3. /\ IsFiniteSet(Ids(batch)) /\ Cardinality(Ids(batch)) = Len(batch) /\ Len(batch) \in Nat
        /\ Ids(batch) \subseteq Nat \ {Torn}
        BY <1>6, BatchCounted
  <2>4. Len(buffer') = Len(buffer) + Len(batch) /\ Ids(buffer') = Ids(buffer) \cup Ids(batch)
        BY <1>1, <1>6, <2>2, IdsOfConcat
  <2>5. taken \cap Ids(batch) = {}
    <3>1. ASSUME NEW x \in taken, x \in Ids(batch)
          PROVE  FALSE
      <4>1. x \in Coming(next) /\ x \in Nat /\ x # Torn
            BY <2>2, <2>3, <3>1
      <4>2. x < x
            BY <2>1, <4>1 DEF Below
      <4> QED  BY <4>1, <4>2
    <3> QED  BY <3>1
  <2>6. IsFiniteSet(taken') /\ Cardinality(taken') = Cardinality(taken) + Len(batch)
    <3>1. /\ IsFiniteSet(taken \cup Ids(batch))
          /\ Cardinality(taken \cup Ids(batch)) =
                 Cardinality(taken) + Cardinality(Ids(batch)) - Cardinality(taken \cap Ids(batch))
          BY <2>1, <2>3, FS_Union
    <3>2. Cardinality(taken \cap Ids(batch)) = 0
          BY <2>5, FS_EmptySet
    <3>3. Cardinality(taken) \in Nat
          BY <2>1, FS_CardinalityType
    <3> QED  BY <1>6, <2>3, <3>1, <3>2, <3>3
  <2>7. emitted' + Len(buffer') = Cardinality(taken')
        BY <1>1, <1>6, <2>1, <2>3, <2>4, <2>6
  <2>8. Below(taken', Coming(next'))
        BY <1>6, <2>1, <2>2 DEF Below
  <2>9. Present' = Present
        BY <1>6 DEF Present
  <2>r. ragged' = ragged /\ midline' = midline
        BY <1>2, <1>6, <1>m DEF Running
  <2>n. NothingIsLost'
        BY <1>1, <1>6, <2>1, <2>4, <2>9, <2>r DEF NothingIsLost
  <2>10. kind = "parquet" /\ ~writer' => taken' \subseteq Ids(buffer')
         BY <1>6, <2>1, <2>4
  <2>11. pc' # "returned"
         BY <1>6 DEF Active
  <2> QED  BY <1>1, <2>6, <2>7, <2>8, <2>n, <2>10, <2>11 DEF TakenIsAccounted
<1>7. CASE /\ WriteMany /\ pc = "write" /\ Running'
           /\ buffer' = <<>> /\ emitted' = emitted + Len(buffer)
           /\ UNCHANGED <<next, taken>>
  <2>1. Active /\ Running
        BY <1>7 DEF Active, Running
  <2>2. /\ IsFiniteSet(taken) /\ emitted + Len(buffer) = Cardinality(taken)
        /\ Below(taken, Coming(next))
        /\ NothingIsLost
        /\ kind = "parquet" /\ ~writer => taken \subseteq Ids(buffer)
        BY <2>1 DEF TakenIsAccounted
  <2>3. emitted' + Len(buffer') = Cardinality(taken')
    <3>1. Len(<<>>) = 0
          BY EmptySeq
    <3> QED  BY <1>1, <1>7, <2>2, <3>1
  <2>4. NothingIsLost'
    <3>1. CASE kind = "jsonl" => ~midline
      <4>1. /\ Ids(buffer) \subseteq Present'
            /\ kind # "parquet" \/ writer => Present \subseteq Present'
            BY <1>7, <3>1, WrittenAreThere
      <4>2. CASE taken \subseteq Present \cup Ids(buffer)
        <5>1. taken' \subseteq Present'
              BY <1>7, <2>2, <4>1, <4>2
        <5> QED  BY <5>1 DEF NothingIsLost
      <4>3. CASE /\ kind = "jsonl" /\ ragged /\ ~midline
                 /\ \E r \in Nat : taken \subseteq Present \cup Ids(buffer) \cup {r}
        <5>1. PICK r \in Nat : taken \subseteq Present \cup Ids(buffer) \cup {r}
              BY <4>3
        <5>2. taken' \subseteq Present' \cup {r}
              BY <1>7, <4>1, <4>3, <5>1
        <5>3. ragged' /\ ~midline'
          <6>1. ragged' = ragged
                BY <1>7, FileStep
          <6>2. midline' => midline
                BY <1>7, <4>3 DEF WriteMany, InsertSqlite, CopyPostgres, WriteMemory, WriteCsv,
                       WriteJsonl, WriteText, WriteParquet, Flushed
          <6> QED  BY <4>3, <6>1, <6>2
        <5> QED  BY <1>1, <4>3, <5>2, <5>3 DEF NothingIsLost
      <4> QED  BY <2>2, <4>2, <4>3 DEF NothingIsLost
    <3>2. CASE kind = "jsonl" /\ midline
      <4>1. taken \subseteq Present \cup Ids(buffer)
            BY <2>2, <3>2 DEF NothingIsLost
      <4>2. FileOpen
            BY <1>7 DEF FileOpen
      <4>3. ragged' /\ kind' = "jsonl"
        <5>1. ragged' = ragged
              BY <1>7, FileStep
        <5> QED  BY <1>1, <3>2, <4>2, <5>1 DEF RowsWhereTheyBelong
      <4>4. CASE Present \cup Ids(buffer) \subseteq Present'
        <5>1. taken' \subseteq Present'
              BY <1>7, <4>1, <4>4
        <5> QED  BY <5>1 DEF NothingIsLost
      <4>5. CASE /\ ~midline'
                 /\ \E r \in Nat : Present \cup Ids(buffer) \subseteq Present' \cup {r}
        <5>1. PICK r \in Nat : Present \cup Ids(buffer) \subseteq Present' \cup {r}
              BY <4>5
        <5>2. taken' \subseteq Present' \cup {r}
              BY <1>7, <4>1, <5>1
        <5> QED  BY <4>3, <4>5, <5>2 DEF NothingIsLost
      <4> QED  BY <1>7, <3>2, <4>4, <4>5, AllButTheFirst
    <3> QED  BY <3>1, <3>2
  <2>5. kind = "parquet" => writer'
        BY <1>7, WrittenAreThere
  <2> QED  BY <1>1, <1>7, <2>2, <2>3, <2>4, <2>5 DEF TakenIsAccounted
<1> QED  BY PipeStep, <1>w, <1>3, <1>4, <1>5, <1>6, <1>7

LEMMA InitSinkInv ==
    ASSUME Init
    PROVE  RowsWhereTheyBelong /\ InStreamOrder /\ BatchesAreWhole /\ TakenIsAccounted
<1>1. /\ store = <<>> /\ cached = <<>> /\ writer = FALSE /\ midline = FALSE /\ pc = "closed"
      /\ Present = {}
      BY NoRows DEF Init, Present
<1>2. ~Active /\ ~Running
      BY <1>1 DEF Active, Running
<1>3. Below({}, {}) /\ Below({}, Coming(next)) /\ Whole({})
      BY DEF Below, Whole
<1> QED  BY <1>1, <1>2, <1>3, NoRows DEF RowsWhereTheyBelong, InStreamOrder, BatchesAreWhole,
             TakenIsAccounted

\* The inductive invariant, from which the three results follow: the parts of the
\* recording that the sink, the pipe and the stream hold make up one ascending
\* row of whole batches, and the pipe has accounted for its own part.
LEMMA SinkInvHolds == Spec => []SinkInv
<1>1. Init => SinkInv
      BY InitSinkTypes, InitSinkInv DEF SinkInv
<1>2. SinkInv /\ [Next]_vars => SinkInv'
      BY NextSinkTypes, PlacesStep, OrderStep, WholeStep, AccountStep DEF SinkInv
<1> QED  BY <1>1, <1>2, PTL DEF Spec

-----------------------------------------------------------------------------
(***************************************************************************)
(* The results                                                             *)
(***************************************************************************)

\* The rows that write_many has returned for, which pipe counts in the summary,
\* are in the table, and no failure, cancellation, second pipe, reopening or
\* death of the process takes them out again.
THEOREM CountedStaysDurable == Spec => []CountedIsDurable
<1>1. Init => TypeOK /\ CountedIsDurable
  <2>1. Init => CountedIsDurable
        BY DEF Init, CountedIsDurable
  <2> QED  BY <2>1, InitSinkTypes
<1>2. ASSUME TypeOK, CountedIsDurable, [Next]_vars
      PROVE  TypeOK' /\ CountedIsDurable'
  <2>1. SUFFICES ASSUME kind' \in Sql
                 PROVE  counted' \subseteq ToSet(store')
        BY <1>2, NextSinkTypes DEF CountedIsDurable
  <2>2. kind = kind'
        BY <1>2, <2>1, SqlStep DEF Kept
  <2>3. store \in Seq(Nat) /\ buffer \in Seq(Sample) /\ counted \subseteq ToSet(store)
        BY <1>2, <2>1, <2>2 DEF TypeOK, CountedIsDurable
  <2>4. ToSet(store \o IdSeq(buffer)) = ToSet(store) \cup Ids(buffer)
        BY <2>3, IdsOfRows, RowsAdded
  <2> QED  BY <1>2, <2>1, <2>3, <2>4, SqlStep DEF Kept
<1> QED  BY <1>1, <1>2, PTL DEF Spec

\* The rows a reader finds, those of several pipes, reopenings and processes among
\* them, have ids that rise along the recording: none is there twice, and none out
\* of its place.
THEOREM StoredOnceInOrder == Spec => []StoredOnce
<1>1. ASSUME SinkInv
      PROVE  StoredOnce
  <2>1. store \in Seq(Nat) /\ cached \in Seq(Nat)
    <3>1. cached \in Seq(Nat \ {Torn}) /\ Nat \ {Torn} \subseteq Nat /\ store \in Seq(Nat)
          BY <1>1 DEF SinkInv, TypeOK
    <3> QED  BY <3>1, SeqMonotonic
  <2>2. Ascending(store \o cached)
        BY <1>1, <2>1, AscendingConcat DEF SinkInv, InStreamOrder
  <2> QED  BY <2>2 DEF StoredOnce, Ascending
<1> QED  BY <1>1, SinkInvHolds, PTL

\* Of the samples of one tick a database, a Parquet file or a memory sink has all
\* or none, however flushes fail, are repeated or are cut short.
THEOREM TicksStayWhole == Spec => []TicksAreWhole
<1>1. ASSUME SinkInv
      PROVE  TicksAreWhole
  <2>1. kind \in Sql \cup {"parquet", "memory"} => kind \notin Text
        BY DEF Sql, Text
  <2> QED  BY <1>1, <2>1 DEF SinkInv, BatchesAreWhole, Whole, TicksAreWhole
<1> QED  BY <1>1, SinkInvHolds, PTL

\* The count a pipe returns with is the number of samples it took from the stream,
\* and all of these are where the sink keeps its rows: for a JSONL file that ended in
\* half a line when it was opened, all but one, the first row put behind that line.
THEOREM SummaryStaysTrue == Spec => []SummaryIsTrue
<1>1. ASSUME SinkInv
      PROVE  SummaryIsTrue
  <2>1. SUFFICES ASSUME pc = "returned"
                 PROVE  /\ emitted = Cardinality(taken)
                        /\ Cardinality(taken \ Present) <= (IF ragged THEN 1 ELSE 0)
        BY DEF SummaryIsTrue
  <2>2. /\ emitted + Len(buffer) = Cardinality(taken) /\ NothingIsLost
        /\ buffer = <<>> /\ emitted \in Nat
        BY <1>1, <2>1 DEF SinkInv, TakenIsAccounted, Running, TypeOK
  <2>3. Len(<<>>) = 0 /\ Ids(<<>>) = {}
        BY EmptySeq, NoRows
  <2>4. emitted = Cardinality(taken)
        BY <2>2, <2>3
  <2>5. CASE taken \ Present = {}
        BY <2>4, <2>5, FS_EmptySet
  <2>6. ASSUME ragged, NEW r \in Nat, taken \ Present \subseteq {r}
        PROVE  Cardinality(taken \ Present) <= 1
    <3>1. CASE taken \ Present = {}
          BY <3>1, FS_EmptySet
    <3>2. CASE taken \ Present = {r}
          BY <3>2, FS_Singleton
    <3> QED  BY <2>6, <3>1, <3>2
  <2> QED  BY <2>2, <2>3, <2>4, <2>5, <2>6 DEF NothingIsLost
<1> QED  BY <1>1, SinkInvHolds, PTL
=============================================================================
