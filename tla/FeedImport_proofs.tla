-------------------------- MODULE FeedImport_proofs --------------------------
(***************************************************************************)
(* Theorems about FeedImport, for every feed, flush limit and number of    *)
(* faults.                                                                 *)
(***************************************************************************)
EXTENDS FeedImport, WellFoundedInduction, FiniteSetTheorems, TLAPS

-----------------------------------------------------------------------------
(* The rows a flush leaves in a table *)

\* A flush adds no row to a table but its own.
LEMMA WrittenRows ==
    ASSUME NEW old, NEW a \in Actions, NEW rows
    PROVE  /\ Written(old, a, rows) \subseteq old \cup RowsOf(rows)
           /\ a = "Delete" => Written(old, a, rows) \subseteq old
  BY DEF Written, Actions, Insert, Replace, Remove, FirstPerKey, LastPerKey, RowsOf

\* Appending to a buffer adds one row to it.
LEMMA AppendedRows ==
    ASSUME NEW S, NEW rows \in Seq(S), NEW r \in S
    PROVE  /\ Append(rows, r) \in Seq(S)
           /\ RowsOf(Append(rows, r)) = RowsOf(rows) \cup {r}
<1> DEFINE more == Append(rows, r)
<1>1. /\ more \in Seq(S)
      /\ Len(more) = Len(rows) + 1
      /\ \A i \in 1..Len(rows) : more[i] = rows[i]
      /\ more[Len(rows) + 1] = r
  OBVIOUS
<1>2. DOMAIN rows = 1..Len(rows) /\ DOMAIN more = 1..(Len(rows) + 1) /\ Len(rows) \in Nat
  BY <1>1
<1> HIDE DEF more
<1>3. RowsOf(more) \subseteq RowsOf(rows) \cup {r}
  BY <1>1, <1>2 DEF RowsOf
<1>4. RowsOf(rows) \cup {r} \subseteq RowsOf(more)
  BY <1>1, <1>2 DEF RowsOf
<1> QED
  BY <1>1, <1>3, <1>4 DEF more

\* No rows, none of them.
LEMMA NoRowsOf == RowsOf(<< >>) = {}
  BY DEF RowsOf

\* A bounded set of ids that is not empty has a largest.
LEMMA LargestId ==
    ASSUME NEW ids, ids \subseteq Nat, ids # {}, NEW b \in Nat, \A i \in ids : i <= b
    PROVE  \E i \in ids : \A j \in ids : j <= i
<1> DEFINE gaps == {b - i : i \in ids}
<1>1. gaps \subseteq Nat /\ gaps # {}
  <2>1. \A i \in ids : b - i \in Nat
    OBVIOUS
  <2> QED
    BY <2>1
<1>2. PICK g \in gaps : \A h \in gaps : ~(<<h, g>> \in OpToRel(<, Nat))
  BY <1>1, NatLessThanWellFounded, WFMin
<1>3. \A h \in gaps : g <= h
  <2>1. \A m, n \in Nat : m < n => <<m, n>> \in OpToRel(<, Nat)
    BY DEF OpToRel
  <2>2. \A h \in gaps : ~(h < g)
    BY <1>1, <1>2, <2>1
  <2> HIDE DEF gaps
  <2> QED
    BY <1>1, <2>2
<1>4. PICK i \in ids : g = b - i
  BY <1>2
<1>5. \A j \in ids : b - i <= b - j
  BY <1>3, <1>4
<1> QED
  BY <1>4, <1>5

-----------------------------------------------------------------------------
(* Types *)

\* While an archive is imported it is one that was downloaded.
Importing == pc \notin {"idle", "next", "ending"}
InRange == Importing => next <= upto

\* The ids stored have a largest, from which the counters are restored.
Bounded == \E b \in Nat : \A t \in Tables : \A r \in stored[t] : r.id <= b

TypeInv == TypeOK /\ InRange /\ Bounded

\* Every file has its two tables, and every table is of a file.
LEMMA TableTypes ==
    /\ \A t \in Tables : t[1] \in Files
    /\ \A f \in Files : <<f, "schedule">> \in Tables /\ <<f, "stop_time">> \in Tables
    /\ NoRows \in [Tables -> [Actions -> Seq(Row)]]
    /\ Other = 0
    /\ Archive = 1..Len(Archives)
    /\ Len(Archives) \in Nat
<1>1. << >> \in Seq(Row)
  OBVIOUS
<1>2. NoRows \in [Tables -> [Actions -> Seq(Row)]]
  BY <1>1 DEF NoRows
<1> QED
  BY <1>2, ArchivesAssumption DEF Tables, Other, Archive

\* An element of a sequence.
LEMMA Element ==
    ASSUME NEW S, NEW elements \in Seq(S), NEW i \in DOMAIN elements
    PROVE  elements[i] \in S
  OBVIOUS

\* An archive is complete or not, and has lines for every file.
LEMMA ArchiveTypes ==
    ASSUME NEW n \in Archive, NEW f \in Files
    PROVE  /\ Archives[n].full \in BOOLEAN
           /\ Archives[n].lines[f] \in Seq(Line)
           /\ Len(Archives[n].lines[f]) \in Nat
<1> DEFINE S == [full : BOOLEAN, lines : [Files -> Seq(Line)]]
<1>1. Archives \in Seq(S)
  BY ArchivesAssumption
<1>2. n \in DOMAIN Archives
  BY DEF Archive
<1> HIDE DEF S
<1>3. Archives[n] \in S
  BY <1>1, <1>2, Element
<1> USE DEF S
<1>4. Archives[n].lines[f] \in Seq(Line) /\ Archives[n].full \in BOOLEAN
  BY <1>3
<1> QED
  BY <1>4

\* What the feed's files are made of, at any line of any of them.
LEMMA LineTypes ==
    ASSUME NEW n \in Archive, NEW f \in Files, NEW i \in 1..Len(Archives[n].lines[f])
    PROVE  /\ Archives[n].lines[f] \in Seq(Line)
           /\ Archives[n].lines[f][i] \in Line
           /\ OwnerLine(Archives[n].lines[f], i) \in 1..i
<1> DEFINE lines == Archives[n].lines[f]
<1>1. lines \in Seq(Line) /\ CallsFollowSchedules(lines)
  <2>2. lines \in Seq(Line)
    BY ArchiveTypes
  <2>3. CallsFollowSchedules(lines)
    BY ArchivesAssumption DEF Archive
  <2> QED
    BY <2>2, <2>3
<1>2. i \in DOMAIN lines /\ lines[i] \in Line
  BY <1>1
<1>3. \E j \in 1..i : /\ lines[j].table = "schedule"
                     /\ \A k \in (j + 1)..i : lines[k].table = "stop_time"
  BY <1>1, <1>2 DEF CallsFollowSchedules
<1> HIDE DEF lines
<1>4. OwnerLine(lines, i) \in 1..i
  BY <1>3 DEF OwnerLine
<1> QED
  BY <1>1, <1>2, <1>4 DEF lines

\* The row a line is read into.
LEMMA RowType ==
    ASSUME TypeInv, pc = "files", NEW f \in Files, NEW i \in 1..Len(LinesOf(f)),
           NEW id \in Nat
    PROVE  /\ RowOf(f, i, id) \in Row
           /\ LinesOf(f)[i] \in Line
           /\ <<f, LinesOf(f)[i].table>> \in Tables
           /\ ActionOf(f, LinesOf(f)[i]) \in Actions
           /\ RowOf(f, i, id).id = id
<1>1. next \in Archive
  BY TableTypes DEF TypeInv, TypeOK, InRange, Importing
<1>2. /\ LinesOf(f)[i] \in Line
      /\ OwnerLine(LinesOf(f), i) \in Nat
  <2>1. OwnerLine(LinesOf(f), i) \in 1..i /\ LinesOf(f)[i] \in Line
    BY <1>1, LineTypes DEF LinesOf
  <2>2. i \in Nat
    BY <1>1, LineTypes DEF LinesOf
  <2> QED
    BY <2>1, <2>2
<1>3. /\ LinesOf(f)[i].table \in {"schedule", "stop_time"}
      /\ LinesOf(f)[i].action \in Actions
      /\ LinesOf(f)[i].key \in Keys \cup {NoKey}
  BY <1>2 DEF Line, Actions
<1>4. lastId[<<f, "schedule">>] \in Nat
  BY TableTypes DEF TypeInv, TypeOK
<1>5. next \in Nat
  BY DEF TypeInv, TypeOK
<1>6. RowOf(f, i, id) \in Row
  BY <1>2, <1>3, <1>4, <1>5 DEF RowOf, Row
<1>7. ActionOf(f, LinesOf(f)[i]) \in Actions
  BY <1>3 DEF ActionOf, Actions
<1>8. <<f, LinesOf(f)[i].table>> \in Tables
  BY <1>3 DEF Tables
<1>9. RowOf(f, i, id).id = id
  BY DEF RowOf
<1> QED
  BY <1>2, <1>6, <1>7, <1>8, <1>9

\* The archives to process are among those listed, or none are.
LEMMA FirstToProcessType ==
    ASSUME TypeOK
    PROVE  /\ {FirstToProcess, FromRefresh} \subseteq 1..(Len(Archives) + 1)
           /\ LastRefresh \in 0..listed
           /\ LastRefresh # 0 => Archives[LastRefresh].full
<1> DEFINE full == {n \in 1..listed : Archives[n].full}
<1>1. listed \in Nat /\ Len(Archives) \in Nat /\ listed <= Len(Archives)
  BY TableTypes DEF TypeOK
<1>2. LastRefresh \in 0..listed /\ (LastRefresh # 0 => Archives[LastRefresh].full)
  <2>1. CASE full = {}
    BY <2>1, <1>1 DEF LastRefresh
  <2>2. CASE full # {}
    <3>1. /\ full \subseteq Nat
          /\ \A n \in full : n <= listed
      BY <1>1
    <3> HIDE DEF full
    <3>2. \E n \in full : \A m \in full : m <= n
      BY <3>1, <2>2, <1>1, LargestId
    <3> USE DEF full
    <3>3. LastRefresh \in full
      BY <3>2, <2>2 DEF LastRefresh
    <3> QED
      BY <3>3, <1>1
  <2> QED
    BY <2>1, <2>2
<1>3. LastProcessed \in Archive \cup {Other}
  <2>1. CASE log = << >>
    BY <2>1 DEF LastProcessed
  <2>2. CASE log # << >>
    <3>1. log \in Seq(Archive \cup {Other})
      BY DEF TypeOK
    <3>2. Len(log) \in 1..Len(log)
      BY <3>1, <2>2
    <3> QED
      BY <3>1, <3>2, <2>2 DEF LastProcessed
  <2> QED
    BY <2>1, <2>2
<1>4. LastProcessed \in 0..Len(Archives)
  BY <1>3, TableTypes
<1> HIDE DEF full
<1> QED
  BY <1>1, <1>2, <1>4, TableTypes DEF FirstToProcess, FromRefresh

\* A restored counter is past every id of its table.
LEMMA RestoredIdType ==
    ASSUME NEW t \in Tables, stored[t] \subseteq Row,
           NEW b \in Nat, \A r \in stored[t] : r.id <= b
    PROVE  RestoredId(t) \in Nat /\ \A r \in stored[t] : r.id <= RestoredId(t)
<1> DEFINE ids == {r.id : r \in stored[t]}
<1>1. ids \subseteq Nat /\ \A i \in ids : i <= b
  BY DEF Row
<1>2. CASE ids = {}
  <2>1. RestoredId(t) = 0 /\ stored[t] = {}
    BY <1>2 DEF RestoredId
  <2> QED
    BY <2>1
<1>3. CASE ids # {}
  <2> HIDE DEF ids
  <2>1. \E i \in ids : \A j \in ids : j <= i
    BY <1>1, <1>3, LargestId
  <2>2. RestoredId(t) = CHOOSE i \in ids : \A j \in ids : j <= i
    BY <1>3 DEF RestoredId, ids
  <2>3. RestoredId(t) \in ids /\ \A j \in ids : j <= RestoredId(t)
    BY <2>1, <2>2
  <2> USE DEF ids
  <2> QED
    BY <1>1, <2>3
<1> QED
  BY <1>2, <1>3

\* A step that reads a line, by the table and the buffer the row goes to.
ReadAs(f, t, a, id, rows) ==
    /\ pc = "files" /\ stream[f] = "reading" /\ at[f] < Len(LinesOf(f))
    /\ t[1] = f
    /\ id = IF a = "Delete" THEN 0 ELSE lastId[t] + 1
    /\ RowsOf(rows) \subseteq RowsOf(buffer[t][a]) \cup {r \in Row : r.id = id}
    /\ at' = [at EXCEPT ![f] = at[f] + 1]
    /\ lastId' = IF a = "Delete" THEN lastId ELSE [lastId EXCEPT ![t] = id]
    /\ \/ /\ buffer' = [buffer EXCEPT ![t][a] = rows]
          /\ UNCHANGED <<inflight, stream>>
       \/ /\ buffer' = [buffer EXCEPT ![t][a] = << >>]
          /\ inflight' = [inflight EXCEPT ![t][a] = rows]
          /\ stream' = [stream EXCEPT ![f] = "flushing"]
    /\ UNCHANGED <<server, database, pc, next, upto, faults>>

\* Reading a line is reading it into a table, by an action, with an id.
LEMMA ReadLineAs ==
    ASSUME TypeInv, NEW f \in Files, ReadLine(f)
    PROVE  \E t \in Tables, a \in Actions, id \in Nat, rows \in Seq(Row) :
              ReadAs(f, t, a, id, rows)
<1> USE TableTypes DEF TypeInv, TypeOK, InRange, Importing
<1> DEFINE i == at[f] + 1
           t == <<f, LinesOf(f)[i].table>>
           a == ActionOf(f, LinesOf(f)[i])
           id == IF a = "Delete" THEN 0 ELSE lastId[t] + 1
           rows == Append(buffer[t][a], RowOf(f, i, id))
<1>1. i \in 1..Len(LinesOf(f))
  <2>1. next \in Archive
    BY DEF ReadLine
  <2>2. Len(LinesOf(f)) \in Nat
    BY <2>1, ArchiveTypes DEF LinesOf
  <2>3. at[f] \in Nat /\ at[f] < Len(LinesOf(f))
    BY DEF ReadLine
  <2> QED
    BY <2>2, <2>3
<1>2. t \in Tables /\ a \in Actions
  BY <1>1, RowType DEF ReadLine
<1>3. id \in Nat
  BY <1>2
<1>4. RowOf(f, i, id) \in Row /\ RowOf(f, i, id).id = id
  <2>1. pc = "files"
    BY DEF ReadLine
  <2> HIDE DEF i, id
  <2> QED
    BY <1>1, <1>3, <2>1, RowType
<1>5. rows \in Seq(Row) /\ RowsOf(rows) = RowsOf(buffer[t][a]) \cup {RowOf(f, i, id)}
  <2> DEFINE r == RowOf(f, i, id)
             old == buffer[t][a]
  <2>1. old \in Seq(Row) /\ r \in Row /\ rows = Append(old, r)
    BY <1>2, <1>4
  <2> HIDE DEF r, old, rows
  <2>2. rows \in Seq(Row) /\ RowsOf(rows) = RowsOf(old) \cup {r}
    BY <2>1, AppendedRows
  <2> QED
    BY <2>2 DEF r, old
<1>6. /\ pc = "files" /\ stream[f] = "reading" /\ at[f] < Len(LinesOf(f))
      /\ at' = [at EXCEPT ![f] = i]
      /\ lastId' = IF a = "Delete" THEN lastId ELSE [lastId EXCEPT ![t] = id]
      /\ \/ /\ buffer' = [buffer EXCEPT ![t][a] = rows]
            /\ UNCHANGED <<inflight, stream>>
         \/ /\ buffer' = [buffer EXCEPT ![t][a] = << >>]
            /\ inflight' = [inflight EXCEPT ![t][a] = rows]
            /\ stream' = [stream EXCEPT ![f] = "flushing"]
      /\ UNCHANGED <<server, database, pc, next, upto, faults>>
  BY DEF ReadLine
<1>7. t[1] = f /\ RowsOf(rows) \subseteq RowsOf(buffer[t][a]) \cup {r \in Row : r.id = id}
  BY <1>4, <1>5
<1>8. id = IF a = "Delete" THEN 0 ELSE lastId[t] + 1
  OBVIOUS
<1>9. i = at[f] + 1
  OBVIOUS
<1> HIDE DEF i, t, a, id, rows
<1>10. ReadAs(f, t, a, id, rows)
  BY <1>6, <1>7, <1>8, <1>9 DEF ReadAs
<1> QED
  BY <1>2, <1>3, <1>5, <1>10

\* No step leaves the types, the range of the archives downloaded included.
LEMMA TypeStep ==
    ASSUME TypeInv, [Next]_vars
    PROVE  TypeOK' /\ InRange'
<1> USE TableTypes DEF TypeInv, TypeOK, InRange, Importing
<1>1. CASE Start \/ StartUnsure
  <2>1. {FirstToProcess, FromRefresh} \subseteq 1..(Len(Archives) + 1)
    BY FirstToProcessType
  <2> QED
    BY <1>1, <2>1 DEF Start, StartUnsure, server, database
<1>2. CASE Begin \/ Dropped \/ Created \/ FilesSettled \/ Swept
  BY <1>2 DEF Begin, Dropped, Created, FilesSettled, Swept, server, database
<1>3. CASE RestoreIds
  <2>1. \A t \in Tables : RestoredId(t) \in Nat
    BY RestoredIdType DEF Bounded
  <2> QED
    BY <1>3, <2>1 DEF RestoreIds, server, database
<1>4. CASE UpdateLastFile
  <2>1. next \in Archive
    BY <1>4 DEF UpdateLastFile
  <2>2. log' \in Seq(Archive \cup {Other})
    BY <1>4, <2>1 DEF UpdateLastFile
  <2> QED
    BY <1>4, <2>1, <2>2 DEF UpdateLastFile, server, database
<1>5. CASE End \/ Crash
  <2>1. Gone /\ faults' \in 0..MaxFaults
    BY <1>5, BoundsAssumption DEF End, Crash
  <2>2. /\ pc' = "idle" /\ next' = 1 /\ upto' = 0
        /\ lastId' \in [Tables -> Nat]
        /\ stream' = [f \in Files |-> "done"]
        /\ at' \in [Files -> Nat]
        /\ buffer' = NoRows /\ inflight' = NoRows
        /\ UNCHANGED <<listed, log, schema, stored>>
    BY <2>1 DEF Gone, NoProcess, server, database
  <2> QED
    BY <2>1, <2>2
<1>6. ASSUME NEW t \in Tables, DropTable(t) \/ CreateTable(t)
      PROVE  TypeOK' /\ InRange'
  BY <1>6 DEF DropTable, CreateTable, server, process
<1>7. ASSUME NEW f \in Files, ReadLine(f)
      PROVE  TypeOK' /\ InRange'
  <2>1. PICK t \in Tables, a \in Actions, id \in Nat, rows \in Seq(Row) :
           ReadAs(f, t, a, id, rows)
    BY <1>7, ReadLineAs
  <2>2. lastId' \in [Tables -> Nat] /\ at' \in [Files -> Nat]
    BY <2>1 DEF ReadAs
  <2>3. /\ buffer' \in [Tables -> [Actions -> Seq(Row)]]
        /\ inflight' \in [Tables -> [Actions -> Seq(Row)]]
    <3>1. << >> \in Seq(Row)
      OBVIOUS
    <3>2. \A r \in Seq(Row) :
             /\ [buffer EXCEPT ![t][a] = r] \in [Tables -> [Actions -> Seq(Row)]]
             /\ [inflight EXCEPT ![t][a] = r] \in [Tables -> [Actions -> Seq(Row)]]
      OBVIOUS
    <3> QED
      BY <2>1, <3>1, <3>2 DEF ReadAs
  <2>4. stream' \in [Files -> {"reading", "flushing", "closing", "done", "failed",
                               "swept"}]
    BY <2>1 DEF ReadAs
  <2>5. UNCHANGED <<listed, log, schema, stored, pc, next, upto, faults>>
    BY <2>1 DEF ReadAs, server, database
  <2> QED
    BY <2>2, <2>3, <2>4, <2>5
<1>8. ASSUME NEW f \in Files, RefuseLine(f) \/ CloseTables(f) \/ Closed(f)
      PROVE  TypeOK' /\ InRange'
  <2>1. CASE RefuseLine(f) \/ Closed(f)
    <3>1. faults' \in 0..MaxFaults
      BY <2>1, BoundsAssumption DEF RefuseLine, Closed
    <3>2. stream' \in [Files -> {"reading", "flushing", "closing", "done", "failed",
                                 "swept"}]
      BY <2>1 DEF RefuseLine, Closed
    <3>3. UNCHANGED <<listed, log, schema, stored, pc, next, upto, lastId, at, buffer,
                      inflight>>
      BY <2>1 DEF RefuseLine, Closed, server, database
    <3> QED
      BY <3>1, <3>2, <3>3
  <2>2. CASE CloseTables(f)
    <3>1. /\ inflight' \in [Tables -> [Actions -> Seq(Row)]]
          /\ buffer' \in [Tables -> [Actions -> Seq(Row)]]
      <4>1. \A t \in Tables : NoRows[t] \in [Actions -> Seq(Row)]
        OBVIOUS
      <4> QED
        BY <2>2, <4>1 DEF CloseTables
    <3>2. stream' \in [Files -> {"reading", "flushing", "closing", "done", "failed",
                                 "swept"}]
      BY <2>2 DEF CloseTables
    <3> QED
      BY <2>2, <3>1, <3>2 DEF CloseTables, server, database
  <2> QED
    BY <1>8, <2>1, <2>2
<1>9. ASSUME NEW f \in Files, Sweep(f)
      PROVE  TypeOK' /\ InRange'
  BY <1>9 DEF Sweep, server
<1>10. ASSUME NEW t \in Tables, NEW a \in Actions, Commit(t, a)
       PROVE  TypeOK' /\ InRange'
  <2>1. inflight[t][a] \in Seq(Row) /\ stored[t] \subseteq Row
    OBVIOUS
  <2>2. RowsOf(inflight[t][a]) \subseteq Row
    BY <2>1 DEF RowsOf
  <2>3. Written(stored[t], a, inflight[t][a]) \subseteq Row
    BY <2>1, <2>2, WrittenRows
  <2>4. stored' \in [Tables -> SUBSET Row]
    BY <1>10, <2>3 DEF Commit
  <2>5. inflight' \in [Tables -> [Actions -> Seq(Row)]]
    BY <1>10 DEF Commit
  <2> QED
    BY <1>10, <2>4, <2>5 DEF Commit, server
<1>11. ASSUME NEW t \in Tables, NEW a \in Actions, WriteFails(t, a)
       PROVE  TypeOK' /\ InRange'
  BY <1>11, BoundsAssumption DEF WriteFails, server, database
<1>12. CASE Publish
  BY <1>12 DEF Publish, database, process
<1>13. CASE ImportOther
  <2>1. log' \in Seq(Archive \cup {Other})
    BY <1>13 DEF ImportOther
  <2> QED
    BY <1>13, <2>1 DEF ImportOther, server, process
<1>14. CASE UNCHANGED vars
  BY <1>14 DEF vars, server, database, process
<1> QED
  BY <1>1, <1>2, <1>3, <1>4, <1>5, <1>6, <1>7, <1>8, <1>9, <1>10, <1>11, <1>12, <1>13,
     <1>14 DEF Next, Work, Fault

-----------------------------------------------------------------------------
(* What is waiting to be written, and where in an import it may wait *)

\* Nothing waits but while the files of an archive are read, or after one of
\* them failed.  A stream that reads on waits for no write, one that waits for
\* a write has no other, one that closes has emptied its buffers, and one that
\* is done has read every line and written it.
FileShape(f) ==
    /\ stream[f] \in {"reading", "flushing", "closing", "done", "failed"}
    /\ stream[f] \in {"reading", "done"} =>
          \A t \in TablesOf(f), a \in Actions : inflight[t][a] = << >>
    /\ stream[f] = "flushing" =>
          \A t1, t2 \in TablesOf(f), a1, a2 \in Actions :
             inflight[t1][a1] # << >> /\ inflight[t2][a2] # << >> => t1 = t2 /\ a1 = a2
    /\ stream[f] \in {"closing", "done"} =>
          \A t \in TablesOf(f), a \in Actions : buffer[t][a] = << >>
    /\ stream[f] \in {"closing", "done"} => at[f] = Len(LinesOf(f))
Quiet == \A t \in Tables, a \in Actions : buffer[t][a] = << >> /\ inflight[t][a] = << >>
Shape ==
    /\ pc \notin {"files", "ending"} => Quiet
    /\ pc = "files" => \A f \in Files : FileShape(f)
    /\ pc \in {"sweep", "log"} =>
          \A f \in Files : at[f] = Len(LinesOf(f)) /\ stream[f] \in {"done", "swept"}

\* A file that a step leaves alone keeps its shape.
LEMMA FileFrame ==
    ASSUME NEW f \in Files, FileShape(f),
           stream'[f] = stream[f], at'[f] = at[f], LinesOf(f)' = LinesOf(f),
           \A t \in TablesOf(f), a \in Actions :
              buffer'[t][a] = buffer[t][a] /\ inflight'[t][a] = inflight[t][a]
    PROVE  FileShape(f)'
<1>1. stream[f] \in {"reading", "done"} =>
         \A t \in TablesOf(f), a \in Actions : inflight'[t][a] = << >>
  BY DEF FileShape
<1>2. stream[f] = "flushing" =>
         \A t1, t2 \in TablesOf(f), a1, a2 \in Actions :
            inflight'[t1][a1] # << >> /\ inflight'[t2][a2] # << >> => t1 = t2 /\ a1 = a2
  <2> SUFFICES ASSUME stream[f] = "flushing",
                      NEW t1 \in TablesOf(f), NEW t2 \in TablesOf(f),
                      NEW a1 \in Actions, NEW a2 \in Actions,
                      inflight'[t1][a1] # << >>, inflight'[t2][a2] # << >>
               PROVE  t1 = t2 /\ a1 = a2
    OBVIOUS
  <2>1. inflight[t1][a1] # << >> /\ inflight[t2][a2] # << >>
    OBVIOUS
  <2> QED
    BY <2>1 DEF FileShape
<1>3. stream[f] \in {"closing", "done"} =>
         \A t \in TablesOf(f), a \in Actions : buffer'[t][a] = << >>
  BY DEF FileShape
<1>4. /\ stream[f] \in {"reading", "flushing", "closing", "done", "failed"}
      /\ stream[f] \in {"closing", "done"} => at[f] = Len(LinesOf(f))
  BY DEF FileShape
<1> QED
  BY <1>1, <1>2, <1>3, <1>4 DEF FileShape

\* Every step keeps what the states of the streams exclude.
LEMMA ShapeStep ==
    ASSUME TypeInv, TypeInv', Shape, [Next]_vars
    PROVE  Shape'
<1> USE TableTypes
<1>0. /\ \A t \in Tables, a \in Actions : NoRows[t][a] = << >>
      /\ \A f \in Files : TablesOf(f) \subseteq Tables /\ \A t \in TablesOf(f) : t[1] = f
      /\ pc = pc' /\ next = next' => \A f \in Files : LinesOf(f) = LinesOf(f)'
  BY DEF NoRows, TablesOf, LinesOf
<1>1. CASE Start \/ StartUnsure \/ Begin \/ Dropped \/ Created \/ UpdateLastFile
  <2>1. pc' \notin {"files", "ending", "sweep", "log"} /\ UNCHANGED <<buffer, inflight>>
        /\ pc \notin {"files", "ending"}
    BY <1>1 DEF Start, StartUnsure, Begin, Dropped, Created, UpdateLastFile
  <2> QED
    BY <2>1 DEF Shape, Quiet
<1>2. CASE RestoreIds
  <2>1. CASE schema = Tables
    <3>1. Quiet /\ UNCHANGED <<buffer, inflight>> /\ pc' = "files"
          /\ stream' = [f \in Files |-> "reading"]
      BY <1>2, <2>1 DEF RestoreIds, Shape
    <3> QED
      BY <1>0, <3>1 DEF Shape, Quiet, FileShape
  <2>2. CASE schema # Tables
    <3>1. pc' = "ending"
      BY <1>2, <2>2 DEF RestoreIds
    <3> QED
      BY <3>1 DEF Shape
  <2> QED
    BY <2>1, <2>2
<1>3. CASE FilesSettled
  <2>1. /\ \A f \in Files : FileShape(f)
        /\ UNCHANGED <<next, stream, at, buffer, inflight>>
        /\ pc' \in {"sweep", "ending"}
        /\ pc' = "sweep" => \A f \in Files : stream[f] = "done"
    BY <1>3 DEF FilesSettled, Shape
  <2>2. CASE pc' = "ending"
    BY <2>2 DEF Shape
  <2>3. CASE pc' = "sweep"
    <3>1. \A f \in Files : \A t \in TablesOf(f), a \in Actions :
             buffer[t][a] = << >> /\ inflight[t][a] = << >>
      BY <2>1, <2>3 DEF FileShape
    <3>2. \A t \in Tables : t[1] \in Files /\ t \in TablesOf(t[1])
      BY DEF TablesOf
    <3>3. Quiet
      BY <3>1, <3>2 DEF Quiet
    <3>4. \A f \in Files : at'[f] = Len(LinesOf(f)') /\ stream'[f] = "done"
      BY <2>1, <2>3 DEF FileShape, LinesOf
    <3> QED
      BY <2>1, <2>3, <3>3, <3>4 DEF Shape, Quiet
  <2> QED
    BY <2>1, <2>2, <2>3
<1>4. CASE Swept
  BY <1>4 DEF Swept, Shape, Quiet, LinesOf
<1>5. CASE End \/ Crash
  <2>1. pc' = "idle" /\ buffer' = NoRows /\ inflight' = NoRows
    BY <1>5 DEF End, Crash, Gone, NoProcess
  <2> QED
    BY <1>0, <2>1 DEF Shape, Quiet
<1>6. ASSUME NEW t \in Tables, DropTable(t) \/ CreateTable(t)
      PROVE  Shape'
  <2>1. UNCHANGED <<pc, next, stream, at, buffer, inflight>> /\ pc \in {"drop", "create"}
    BY <1>6 DEF DropTable, CreateTable, process
  <2> QED
    BY <2>1 DEF Shape, Quiet
<1>7. ASSUME NEW f \in Files, ReadLine(f)
      PROVE  Shape'
  <2>0. PICK t \in Tables, a \in Actions, id \in Nat, rows \in Seq(Row) :
           ReadAs(f, t, a, id, rows)
    BY <1>7, ReadLineAs
  <2>1. /\ t \in TablesOf(f) /\ t[1] = f
        /\ stream[f] = "reading" /\ pc = "files"
        /\ UNCHANGED <<pc, next>>
        /\ at' = [at EXCEPT ![f] = at[f] + 1]
        /\ \/ /\ buffer' = [buffer EXCEPT ![t][a] = rows]
              /\ UNCHANGED <<inflight, stream>>
           \/ /\ buffer' = [buffer EXCEPT ![t][a] = << >>]
              /\ inflight' = [inflight EXCEPT ![t][a] = rows]
              /\ stream' = [stream EXCEPT ![f] = "flushing"]
    BY <2>0 DEF ReadAs, TablesOf
  <2>2. \A g \in Files : FileShape(g)
    BY <2>1 DEF Shape
  <2>3. ASSUME NEW g \in Files, g # f
        PROVE  FileShape(g)'
    <3>1. \A s \in TablesOf(g) : s \in Tables /\ s # t
      BY <1>0, <2>1, <2>3
    <3>2. \A s \in TablesOf(g) : buffer'[s] = buffer[s] /\ inflight'[s] = inflight[s]
      BY <2>1, <3>1 DEF TypeInv, TypeOK
    <3>3. stream'[g] = stream[g] /\ at'[g] = at[g] /\ LinesOf(g)' = LinesOf(g)
      BY <2>1, <2>3 DEF TypeInv, TypeOK, LinesOf
    <3> QED
      BY <2>2, <3>2, <3>3, FileFrame
  <2>4. FileShape(f)'
    <3>1. \A s \in TablesOf(f), b \in Actions : inflight[s][b] = << >>
      BY <2>1, <2>2 DEF FileShape
    <3>2. CASE stream'[f] = "reading"
      <4>1. inflight' = inflight
        BY <2>1, <3>2 DEF TypeInv, TypeOK
      <4> QED
        BY <3>1, <3>2, <4>1 DEF FileShape
    <3>3. CASE stream'[f] = "flushing"
      <4>1. inflight' = [inflight EXCEPT ![t][a] = rows]
        BY <2>1, <3>3 DEF TypeInv, TypeOK
      <4>2. ASSUME NEW s \in TablesOf(f), NEW b \in Actions, ~(s = t /\ b = a)
            PROVE  inflight'[s][b] = << >>
        <5>1. s \in Tables /\ inflight \in [Tables -> [Actions -> Seq(Row)]]
          BY <1>0 DEF TypeInv, TypeOK
        <5>2. inflight'[s][b] = inflight[s][b]
          BY <4>1, <4>2, <5>1
        <5> QED
          BY <3>1, <5>2
      <4>3. \A t1, t2 \in TablesOf(f), a1, a2 \in Actions :
               inflight'[t1][a1] # << >> /\ inflight'[t2][a2] # << >> => t1 = t2 /\ a1 = a2
        BY <4>2
      <4> QED
        BY <3>3, <4>3 DEF FileShape
    <3> QED
      BY <2>1, <3>2, <3>3 DEF TypeInv, TypeOK
  <2> QED
    BY <2>1, <2>3, <2>4 DEF Shape
<1>8. ASSUME NEW f \in Files, RefuseLine(f)
      PROVE  Shape'
  <2>1. /\ pc = "files" /\ stream' = [stream EXCEPT ![f] = "failed"]
        /\ UNCHANGED <<pc, next, at, buffer, inflight>>
    BY <1>8 DEF RefuseLine
  <2>2. ASSUME NEW g \in Files
        PROVE  FileShape(g)'
    <3>1. FileShape(g) /\ stream'[g] = (IF g = f THEN "failed" ELSE stream[g])
      BY <2>1 DEF Shape, TypeInv, TypeOK
    <3> QED
      BY <2>1, <3>1 DEF FileShape, LinesOf
  <2> QED
    BY <2>1, <2>2 DEF Shape
<1>9. ASSUME NEW f \in Files, CloseTables(f)
      PROVE  Shape'
  <2>1. /\ pc = "files" /\ stream[f] = "reading" /\ at[f] = Len(LinesOf(f))
        /\ stream' = [stream EXCEPT ![f] = "closing"]
        /\ inflight' = [t \in Tables |-> IF t[1] = f THEN buffer[t] ELSE inflight[t]]
        /\ buffer' = [t \in Tables |-> IF t[1] = f THEN NoRows[t] ELSE buffer[t]]
        /\ UNCHANGED <<pc, next, at>>
    BY <1>9 DEF CloseTables
  <2>2. ASSUME NEW g \in Files
        PROVE  FileShape(g)'
    <3>1. FileShape(g) /\ stream'[g] = (IF g = f THEN "closing" ELSE stream[g])
      BY <2>1 DEF Shape, TypeInv, TypeOK
    <3>2. CASE g = f
      <4>1. \A t \in TablesOf(f), a \in Actions : buffer'[t][a] = << >>
        BY <1>0, <2>1
      <4> QED
        BY <2>1, <3>1, <3>2, <4>1 DEF FileShape, LinesOf
    <3>3. CASE g # f
      <4>1. \A t \in TablesOf(g) : buffer'[t] = buffer[t] /\ inflight'[t] = inflight[t]
        BY <1>0, <2>1, <3>3
      <4>2. stream'[g] = stream[g] /\ at'[g] = at[g] /\ LinesOf(g)' = LinesOf(g)
        BY <2>1, <3>1, <3>3 DEF LinesOf
      <4> QED
        BY <3>1, <4>1, <4>2, FileFrame
    <3> QED
      BY <3>2, <3>3
  <2> QED
    BY <2>1, <2>2 DEF Shape
<1>10. ASSUME NEW f \in Files, Closed(f)
       PROVE  Shape'
  <2>1. /\ pc = "files" /\ stream[f] = "closing"
        /\ \A t \in TablesOf(f) : inflight[t] = NoRows[t]
        /\ stream' = [stream EXCEPT ![f] = "done"]
        /\ UNCHANGED <<pc, next, at, buffer, inflight>>
    BY <1>10 DEF Closed
  <2>2. ASSUME NEW g \in Files
        PROVE  FileShape(g)'
    <3>1. FileShape(g) /\ stream'[g] = (IF g = f THEN "done" ELSE stream[g])
      BY <2>1 DEF Shape, TypeInv, TypeOK
    <3>2. g = f => \A t \in TablesOf(g), a \in Actions : inflight[t][a] = << >>
      BY <1>0, <2>1
    <3> QED
      BY <2>1, <3>1, <3>2 DEF FileShape, LinesOf
  <2> QED
    BY <2>1, <2>2 DEF Shape
<1>11. ASSUME NEW f \in Files, Sweep(f)
       PROVE  Shape'
  <2>1. pc = "sweep" /\ stream' = [stream EXCEPT ![f] = "swept"]
        /\ UNCHANGED <<pc, next, at, buffer, inflight>>
    BY <1>11 DEF Sweep
  <2>2. \A g \in Files : stream'[g] \in {"done", "swept"}
    BY <2>1 DEF Shape, TypeInv, TypeOK
  <2> QED
    BY <2>1, <2>2 DEF Shape, Quiet, LinesOf
<1>12. ASSUME NEW t \in Tables, NEW a \in Actions, Commit(t, a) \/ WriteFails(t, a)
       PROVE  Shape'
  <2>1. /\ inflight[t][a] # << >>
        /\ inflight' = [inflight EXCEPT ![t][a] = << >>]
        /\ stream' = [stream EXCEPT ![t[1]] = stream'[t[1]]]
        /\ \/ /\ stream'[t[1]] = (IF stream[t[1]] = "flushing" THEN "reading"
                                                           ELSE stream[t[1]])
           \/ stream'[t[1]] = "failed"
        /\ UNCHANGED <<pc, next, at, buffer>>
    BY <1>12 DEF Commit, WriteFails, TypeInv, TypeOK
  <2>2. pc \in {"files", "ending"}
    BY <2>1 DEF Shape, Quiet
  <2>3. ASSUME NEW g \in Files, pc = "files"
        PROVE  FileShape(g)'
    <3>1. FileShape(g) /\ LinesOf(g)' = LinesOf(g) /\ at'[g] = at[g]
      BY <2>1, <2>3 DEF Shape, LinesOf
    <3>2. \A s \in TablesOf(g), b \in Actions :
             /\ inflight'[s][b] = (IF s = t /\ b = a THEN << >> ELSE inflight[s][b])
             /\ buffer'[s][b] = buffer[s][b]
      BY <1>0, <2>1 DEF TypeInv, TypeOK
    <3>3. CASE g # t[1]
      <4>1. stream'[g] = stream[g]
        BY <2>1, <3>3 DEF TypeInv, TypeOK
      <4>2. \A s \in TablesOf(g), b \in Actions : inflight'[s][b] = inflight[s][b]
        BY <1>0, <3>2, <3>3
      <4> QED
        BY <3>1, <3>2, <4>1, <4>2, FileFrame
    <3>4. CASE g = t[1]
      <4>0. t \in TablesOf(g)
        BY <3>4 DEF TablesOf
      <4>1. stream[g] \notin {"reading", "done"}
        BY <2>1, <3>1, <4>0 DEF FileShape
      <4>2. stream[g] = "flushing" =>
               \A s \in TablesOf(g), b \in Actions : inflight'[s][b] = << >>
        BY <2>1, <3>1, <3>2, <4>0 DEF FileShape
      <4>3. stream'[g] = "failed" \/ stream'[g] = (IF stream[g] = "flushing" THEN "reading"
                                                                       ELSE stream[g])
        BY <2>1, <3>4
      <4>4. stream'[g] = "reading" =>
               \A s \in TablesOf(g), b \in Actions : inflight'[s][b] = << >>
        BY <4>1, <4>2, <4>3
      <4>5. stream'[g] \in {"reading", "closing", "failed"}
        BY <3>1, <4>1, <4>3 DEF FileShape
      <4>6. stream'[g] = "closing" =>
               /\ \A s \in TablesOf(g), b \in Actions : buffer'[s][b] = << >>
               /\ at'[g] = Len(LinesOf(g)')
        <5>1. stream'[g] = "closing" => stream[g] = "closing"
          BY <4>3
        <5> QED
          BY <3>1, <3>2, <5>1 DEF FileShape
      <4> QED
        BY <4>4, <4>5, <4>6 DEF FileShape
    <3> QED
      BY <3>3, <3>4
  <2> QED
    BY <2>1, <2>2, <2>3 DEF Shape
<1>13. CASE Publish \/ ImportOther \/ UNCHANGED vars
  <2>1. UNCHANGED <<pc, next, stream, at, buffer, inflight>>
    BY <1>13 DEF Publish, ImportOther, vars, process
  <2> QED
    BY <2>1 DEF Shape, Quiet, FileShape, LinesOf
<1> QED
  BY <1>1, <1>2, <1>3, <1>4, <1>5, <1>6, <1>7, <1>8, <1>9, <1>10, <1>11, <1>12, <1>13
     DEF Next, Work, Fault

-----------------------------------------------------------------------------
(* Ids *)

Waiting(t, a) == RowsOf(buffer[t][a]) \cup RowsOf(inflight[t][a])
Adding == {"Insert", "Update"}

\* The counter of a table has passed every id that waits for the table and,
\* while lines are read, every id in it.
Counted ==
    /\ \A t \in Tables, a \in Actions : \A r \in Waiting(t, a) : r.id <= lastId[t]
    /\ pc = "files" => \A t \in Tables : \A s \in stored[t] : s.id <= lastId[t]

\* No id waits for a table twice.
OnceWaiting ==
    \A t \in Tables : \A a, b \in Adding :
        /\ a # b => \A r \in Waiting(t, a), s \in Waiting(t, b) : r.id # s.id
        /\ \A r \in RowsOf(buffer[t][a]), s \in RowsOf(inflight[t][b]) : r.id # s.id

IdInv == Counted /\ OnceWaiting /\ IdsUnused

\* With nothing waiting there is nothing to show but that the stored ids are
\* counted.
LEMMA IdsQuiet ==
    ASSUME Quiet, pc = "files" => \A t \in Tables : \A s \in stored[t] : s.id <= lastId[t]
    PROVE  IdInv
<1>1. \A t \in Tables, a \in Actions : Waiting(t, a) = {}
  BY NoRowsOf DEF Quiet, Waiting
<1>2. Adding \subseteq Actions
  BY DEF Adding, Actions
<1> QED
  BY <1>1, <1>2 DEF IdInv, Counted, OnceWaiting, IdsUnused, Waiting, Adding

\* A step that only takes rows away keeps the ids in order.
LEMMA IdsFewer ==
    ASSUME IdInv, lastId' = lastId, pc' = "files" => pc = "files",
           \A t \in Tables : stored'[t] \subseteq stored[t],
           \A t \in Tables, a \in Actions :
              /\ RowsOf(buffer'[t][a]) \subseteq RowsOf(buffer[t][a])
              /\ RowsOf(inflight'[t][a]) \subseteq RowsOf(inflight[t][a])
    PROVE  IdInv'
<1>1. \A t \in Tables, a \in Actions : Waiting(t, a)' \subseteq Waiting(t, a)
  BY DEF Waiting
<1>2. Counted'
  BY <1>1 DEF IdInv, Counted
<1>3. Adding \subseteq Actions
  BY DEF Adding, Actions
<1>4. OnceWaiting'
  BY <1>1, <1>3 DEF IdInv, OnceWaiting
<1>5. IdsUnused'
  BY <1>3 DEF IdInv, IdsUnused, Adding
<1> QED
  BY <1>2, <1>4, <1>5 DEF IdInv

\* A step that moves every row it takes from a buffer into an empty flight.
LEMMA IdsMoved ==
    ASSUME IdInv, lastId' = lastId, stored' = stored, pc' = pc,
           \A t \in Tables :
              \/ \A a \in Actions :
                    /\ RowsOf(buffer'[t][a]) = RowsOf(buffer[t][a])
                    /\ RowsOf(inflight'[t][a]) = RowsOf(inflight[t][a])
              \/ \A a \in Actions :
                    /\ RowsOf(buffer'[t][a]) = {}
                    /\ RowsOf(inflight'[t][a]) = RowsOf(buffer[t][a])
    PROVE  IdInv'
<1>1. \A t \in Tables, a \in Actions : Waiting(t, a)' \subseteq Waiting(t, a)
  BY DEF Waiting
<1>2. Counted'
  BY <1>1 DEF IdInv, Counted
<1>3. Adding \subseteq Actions
  BY DEF Adding, Actions
<1>4. ASSUME NEW t \in Tables, NEW a \in Adding, NEW b \in Adding
      PROVE  /\ a # b => \A r \in Waiting(t, a)', s \in Waiting(t, b)' : r.id # s.id
             /\ \A r \in RowsOf(buffer'[t][a]), s \in RowsOf(inflight'[t][b]) : r.id # s.id
  <2>1. a # b => \A r \in Waiting(t, a)', s \in Waiting(t, b)' : r.id # s.id
    BY <1>1, <1>3 DEF IdInv, OnceWaiting
  <2>2. \A r \in RowsOf(buffer'[t][a]), s \in RowsOf(inflight'[t][b]) : r.id # s.id
    BY <1>3 DEF IdInv, OnceWaiting
  <2> QED
    BY <2>1, <2>2
<1>5. OnceWaiting'
  BY <1>4 DEF OnceWaiting
<1>6. IdsUnused'
  BY <1>1, <1>3 DEF IdInv, IdsUnused, Waiting, Adding
<1> QED
  BY <1>2, <1>5, <1>6 DEF IdInv

\* Reading a line: the row it makes has an id above all those of its table.
LEMMA IdsRead ==
    ASSUME TypeInv, Shape, IdInv, NEW f \in Files, ReadLine(f)
    PROVE  IdInv'
<1>0. PICK t \in Tables, a \in Actions, id \in Nat, rows \in Seq(Row) :
         ReadAs(f, t, a, id, rows)
  BY ReadLineAs
<1>1. /\ pc = "files" /\ t \in TablesOf(f) /\ stored' = stored /\ pc' = pc
      /\ a # "Delete" => id = lastId[t] + 1
      /\ lastId' = IF a = "Delete" THEN lastId ELSE [lastId EXCEPT ![t] = id]
      /\ RowsOf(rows) \subseteq RowsOf(buffer[t][a]) \cup {r \in Row : r.id = id}
  BY <1>0 DEF ReadAs, TablesOf, database
<1>2. /\ lastId \in [Tables -> Nat]
      /\ buffer \in [Tables -> [Actions -> Seq(Row)]]
      /\ inflight \in [Tables -> [Actions -> Seq(Row)]]
      /\ \A u \in Tables : \A r \in stored[u] : r.id \in Nat
      /\ \A u \in Tables, b \in Actions : \A r \in Waiting(u, b) : r.id \in Nat
  <2>1. \A u \in Tables, b \in Actions : buffer[u][b] \in Seq(Row) /\ inflight[u][b] \in Seq(Row)
    BY DEF TypeInv, TypeOK
  <2>2. \A u \in Tables, b \in Actions : Waiting(u, b) \subseteq Row
    BY <2>1 DEF Waiting, RowsOf
  <2>3. \A r \in Row : r.id \in Nat
    BY DEF Row
  <2> QED
    BY <2>2, <2>3 DEF TypeInv, TypeOK
<1>3. \A b \in Actions : RowsOf(inflight[t][b]) = {}
  <2>1. FileShape(f) /\ stream[f] = "reading"
    BY <1>0, <1>1 DEF Shape, ReadAs
  <2> QED
    BY <1>1, <2>1, NoRowsOf DEF FileShape
<1>4. \A u \in Tables, b \in Actions : ~(u = t /\ b = a) =>
         buffer'[u][b] = buffer[u][b] /\ inflight'[u][b] = inflight[u][b]
  BY <1>0, <1>2 DEF ReadAs
<1>5. \/ RowsOf(buffer'[t][a]) = RowsOf(rows) /\ RowsOf(inflight'[t][a]) = {}
      \/ RowsOf(buffer'[t][a]) = {} /\ RowsOf(inflight'[t][a]) = RowsOf(rows)
  <2>1. \/ buffer'[t][a] = rows /\ inflight'[t][a] = inflight[t][a]
        \/ buffer'[t][a] = << >> /\ inflight'[t][a] = rows
    BY <1>0, <1>2 DEF ReadAs
  <2> QED
    BY <1>3, <2>1, NoRowsOf
<1>6. \A u \in Tables, b \in Actions : ~(u = t /\ b = a) => Waiting(u, b)' = Waiting(u, b)
  BY <1>4 DEF Waiting
<1>7. Waiting(t, a)' \subseteq Waiting(t, a) \cup {r \in Row : r.id = id}
  BY <1>1, <1>5 DEF Waiting
<1>8. \A u \in Tables : lastId[u] <= lastId'[u]
  BY <1>1, <1>2
<1>9. a # "Delete" => lastId'[t] = id
  BY <1>1, <1>2
<1>10. a = "Delete" => id = 0
  BY <1>0 DEF ReadAs
<1>11. Adding \subseteq Actions /\ "Delete" \notin Adding
  BY DEF Adding, Actions
<1>12. /\ \A u \in Tables : lastId[u] \in Nat /\ lastId'[u] \in Nat
       /\ \A u \in Tables, b \in Actions : \A r \in Waiting(u, b) : r.id <= lastId[u]
       /\ \A u \in Tables : \A s \in stored[u] : s.id <= lastId[u]
  BY <1>1, <1>2 DEF IdInv, Counted
<1>13. Counted'
  <2>1. ASSUME NEW u \in Tables, NEW b \in Actions, NEW r \in Waiting(u, b)'
        PROVE  r.id <= lastId'[u]
    <3>1. CASE r \in Waiting(u, b)
      <4>1. r.id \in Nat /\ r.id <= lastId[u] /\ lastId[u] <= lastId'[u]
        BY <1>2, <1>8, <1>12, <3>1
      <4> QED
        BY <1>12, <4>1
    <3>2. CASE r \notin Waiting(u, b)
      <4>1. u = t /\ b = a /\ r.id = id
        BY <1>6, <1>7, <3>2
      <4> QED
        BY <1>9, <1>10, <1>12, <4>1
    <3> QED
      BY <3>1, <3>2
  <2>2. \A u \in Tables : \A s \in stored'[u] : s.id <= lastId'[u]
    BY <1>1, <1>2, <1>8, <1>12
  <2> QED
    BY <2>1, <2>2 DEF Counted
<1>14. a \in Adding => /\ \A b \in Actions : \A r \in Waiting(t, b) : r.id # id
                       /\ \A s \in stored[t] : s.id # id
  BY <1>1, <1>2, <1>11, <1>12
<1>15. ASSUME NEW u \in Tables, NEW b \in Adding, NEW c \in Adding
       PROVE  /\ b # c => \A r \in Waiting(u, b)', s \in Waiting(u, c)' : r.id # s.id
              /\ \A r \in RowsOf(buffer'[u][b]), s \in RowsOf(inflight'[u][c]) : r.id # s.id
  <2>1. /\ b # c => \A r \in Waiting(u, b), s \in Waiting(u, c) : r.id # s.id
        /\ \A r \in RowsOf(buffer[u][b]), s \in RowsOf(inflight[u][c]) : r.id # s.id
    BY DEF IdInv, OnceWaiting
  <2>2. b \in Actions /\ c \in Actions
    BY <1>11
  <2>3. b # c => \A r \in Waiting(u, b)', s \in Waiting(u, c)' : r.id # s.id
    <3>1. CASE u # t \/ (b # a /\ c # a)
      BY <1>6, <2>1, <2>2, <3>1
    <3>2. CASE u = t /\ b = a /\ c # a
      BY <1>6, <1>7, <1>14, <2>1, <2>2, <3>2
    <3>3. CASE u = t /\ b # a /\ c = a
      BY <1>6, <1>7, <1>14, <2>1, <2>2, <3>3
    <3> QED
      BY <3>1, <3>2, <3>3
  <2>4. \A r \in RowsOf(buffer'[u][b]), s \in RowsOf(inflight'[u][c]) : r.id # s.id
    <3>1. CASE u # t
      BY <1>4, <2>1, <2>2, <3>1
    <3>2. CASE u = t /\ c # a
      BY <1>3, <1>4, <2>2, <3>2
    <3>3. CASE u = t /\ c = a /\ b = a
      BY <1>5, <3>3
    <3>4. CASE u = t /\ c = a /\ b # a
      BY <2>3, <3>4 DEF Waiting
    <3> QED
      BY <3>1, <3>2, <3>3, <3>4
  <2> QED
    BY <2>3, <2>4
<1>16. OnceWaiting'
  BY <1>15 DEF OnceWaiting
<1>17. IdsUnused'
  <2>1. \A u \in Tables, b \in Adding : \A r \in Waiting(u, b) : \A s \in stored[u] : r.id # s.id
    BY DEF IdInv, IdsUnused, Waiting, Adding
  <2>2. \A u \in Tables, b \in Adding : \A r \in Waiting(u, b)' : \A s \in stored'[u] : r.id # s.id
    BY <1>1, <1>6, <1>7, <1>11, <1>14, <2>1
  <2> QED
    BY <2>2 DEF IdsUnused, Waiting, Adding
<1> QED
  BY <1>13, <1>16, <1>17 DEF IdInv

\* Committing a write: only the rows it writes join the table, and they no
\* longer wait.
LEMMA IdsCommitted ==
    ASSUME TypeInv, IdInv, NEW t \in Tables, NEW a \in Actions, Commit(t, a)
    PROVE  IdInv'
<1>1. /\ stored' = [stored EXCEPT ![t] = Written(stored[t], a, inflight[t][a])]
      /\ inflight' = [inflight EXCEPT ![t][a] = << >>]
      /\ UNCHANGED <<pc, lastId, buffer>>
  BY DEF Commit
<1>2. /\ \A u \in Tables, b \in Actions :
            /\ buffer'[u][b] = buffer[u][b]
            /\ u = t /\ b = a => inflight'[u][b] = << >>
            /\ ~(u = t /\ b = a) => inflight'[u][b] = inflight[u][b]
      /\ \A u \in Tables : u # t => stored'[u] = stored[u]
      /\ stored'[t] = Written(stored[t], a, inflight[t][a])
  BY <1>1 DEF TypeInv, TypeOK
<1>3. \A u \in Tables, b \in Actions : Waiting(u, b)' \subseteq Waiting(u, b)
  BY <1>2, NoRowsOf DEF Waiting
<1>4. /\ stored'[t] \subseteq stored[t] \cup RowsOf(inflight[t][a])
      /\ a = "Delete" => stored'[t] \subseteq stored[t]
  BY <1>2, WrittenRows
<1>5. Adding \subseteq Actions /\ (a \in Adding \/ a = "Delete")
  BY DEF Adding, Actions
<1>6. Counted'
  <2>1. \A r \in RowsOf(inflight[t][a]) : r.id <= lastId[t]
    BY DEF IdInv, Counted, Waiting
  <2>2. pc = "files" => \A u \in Tables : \A s \in stored'[u] : s.id <= lastId[u]
    BY <1>2, <1>4, <2>1 DEF IdInv, Counted
  <2> QED
    BY <1>1, <1>3, <2>2 DEF IdInv, Counted
<1>7. OnceWaiting'
  <2>1. ASSUME NEW u \in Tables, NEW b \in Adding, NEW c \in Adding
        PROVE  /\ b # c => \A r \in Waiting(u, b)', s \in Waiting(u, c)' : r.id # s.id
               /\ \A r \in RowsOf(buffer'[u][b]), s \in RowsOf(inflight'[u][c]) : r.id # s.id
    <3>1. b \in Actions /\ c \in Actions
      BY <1>5
    <3>2. RowsOf(inflight'[u][c]) \subseteq RowsOf(inflight[u][c])
      BY <1>2, <3>1, NoRowsOf
    <3>3. RowsOf(buffer'[u][b]) = RowsOf(buffer[u][b])
      BY <1>2, <3>1
    <3>4. /\ b # c => \A r \in Waiting(u, b), s \in Waiting(u, c) : r.id # s.id
          /\ \A r \in RowsOf(buffer[u][b]), s \in RowsOf(inflight[u][c]) : r.id # s.id
      BY DEF IdInv, OnceWaiting
    <3>5. Waiting(u, b)' \subseteq Waiting(u, b) /\ Waiting(u, c)' \subseteq Waiting(u, c)
      BY <1>3, <3>1
    <3> QED
      BY <3>2, <3>3, <3>4, <3>5
  <2> QED
    BY <2>1 DEF OnceWaiting
<1>8. ASSUME NEW u \in Tables, NEW b \in Adding, NEW r \in Waiting(u, b)', NEW s \in stored'[u]
      PROVE  r.id # s.id
  <2>0. b \in Actions /\ r \in Waiting(u, b)
    BY <1>3, <1>5
  <2>1. CASE s \in stored[u]
    BY <2>0, <2>1 DEF IdInv, IdsUnused, Waiting, Adding
  <2>2. CASE s \notin stored[u]
    <3>1. u = t /\ s \in RowsOf(inflight[t][a]) /\ a \in Adding
      BY <1>2, <1>4, <1>5, <2>2
    <3>2. CASE b # a
      BY <2>0, <3>1, <3>2 DEF IdInv, OnceWaiting, Waiting
    <3>3. CASE b = a
      <4>1. r \in RowsOf(buffer[t][a])
        BY <1>2, <3>1, <3>3, NoRowsOf DEF Waiting
      <4> QED
        BY <3>1, <4>1 DEF IdInv, OnceWaiting
    <3> QED
      BY <3>2, <3>3
  <2> QED
    BY <2>1, <2>2
<1>9. IdsUnused'
  BY <1>8 DEF IdsUnused, Waiting, Adding
<1> QED
  BY <1>6, <1>7, <1>9 DEF IdInv

\* Every step keeps the ids in order.
LEMMA IdStep ==
    ASSUME TypeInv, TypeInv', Shape, Shape', IdInv, [Next]_vars
    PROVE  IdInv'
<1>1. CASE \/ Start \/ StartUnsure \/ Begin \/ Dropped \/ Created
           \/ FilesSettled \/ Swept \/ UpdateLastFile
  <2>1. UNCHANGED <<lastId, stored, buffer, inflight>> /\ pc' # "files"
    BY <1>1 DEF Start, StartUnsure, Begin, Dropped, Created, FilesSettled, Swept, UpdateLastFile, database
  <2> QED
    BY <2>1, IdsFewer
<1>2. CASE RestoreIds
  <2>1. /\ Quiet /\ UNCHANGED <<buffer, inflight, stored>>
        /\ pc' = "files" => lastId' = [t \in Tables |-> RestoredId(t)]
    BY <1>2 DEF RestoreIds, Shape, database
  <2>2. Quiet'
    BY <2>1 DEF Quiet
  <2>3. \A t \in Tables : \A r \in stored[t] : r.id <= RestoredId(t)
    BY RestoredIdType DEF TypeInv, TypeOK, Bounded
  <2>4. (pc = "files" => \A t \in Tables : \A s \in stored[t] : s.id <= lastId[t])'
    BY <2>1, <2>3
  <2> QED
    BY <2>2, <2>4, IdsQuiet, PTL
<1>3. CASE End \/ Crash
  <2>1. pc' = "idle"
    BY <1>3 DEF End, Crash, Gone, NoProcess
  <2>2. Quiet'
    BY <2>1 DEF Shape
  <2>3. (pc = "files" => \A t \in Tables : \A s \in stored[t] : s.id <= lastId[t])'
    BY <2>1
  <2> QED
    BY <2>2, <2>3, IdsQuiet, PTL
<1>4. ASSUME NEW t \in Tables, DropTable(t) \/ CreateTable(t)
      PROVE  IdInv'
  <2>1. /\ UNCHANGED <<pc, lastId, buffer, inflight>>
        /\ stored' = stored \/ stored' = [stored EXCEPT ![t] = {}]
    BY <1>4 DEF DropTable, CreateTable, process
  <2>2. \A u \in Tables : stored'[u] \subseteq stored[u]
    BY <2>1 DEF TypeInv, TypeOK
  <2> QED
    BY <2>1, <2>2, IdsFewer
<1>5. ASSUME NEW f \in Files, ReadLine(f)
      PROVE  IdInv'
  BY <1>5, IdsRead
<1>6. ASSUME NEW f \in Files, RefuseLine(f) \/ Closed(f)
      PROVE  IdInv'
  <2>1. UNCHANGED <<pc, lastId, stored, buffer, inflight>>
    BY <1>6 DEF RefuseLine, Closed, database
  <2> QED
    BY <2>1, IdsFewer
<1>7. ASSUME NEW f \in Files, CloseTables(f)
      PROVE  IdInv'
  <2>1. /\ UNCHANGED <<pc, lastId, stored>>
        /\ \A t \in Tables :
              /\ t[1] = f => inflight'[t] = buffer[t] /\ buffer'[t] = NoRows[t]
              /\ t[1] # f => inflight'[t] = inflight[t] /\ buffer'[t] = buffer[t]
    BY <1>7 DEF CloseTables, database
  <2>2. \A t \in Tables, a \in Actions : NoRows[t][a] = << >>
    BY DEF NoRows
  <2>3. \A t \in Tables :
           \/ \A a \in Actions :
                 /\ RowsOf(buffer'[t][a]) = RowsOf(buffer[t][a])
                 /\ RowsOf(inflight'[t][a]) = RowsOf(inflight[t][a])
           \/ \A a \in Actions :
                 /\ RowsOf(buffer'[t][a]) = {}
                 /\ RowsOf(inflight'[t][a]) = RowsOf(buffer[t][a])
    BY <2>1, <2>2, NoRowsOf
  <2> QED
    BY <2>1, <2>3, IdsMoved
<1>8. ASSUME NEW f \in Files, Sweep(f)
      PROVE  IdInv'
  <2>1. UNCHANGED <<pc, lastId, buffer, inflight>>
    BY <1>8 DEF Sweep
  <2>2. \A u \in Tables : stored'[u] \subseteq stored[u]
    BY <1>8 DEF Sweep, TypeInv, TypeOK
  <2> QED
    BY <2>1, <2>2, IdsFewer
<1>9. ASSUME NEW t \in Tables, NEW a \in Actions, Commit(t, a)
      PROVE  IdInv'
  BY <1>9, IdsCommitted
<1>10. ASSUME NEW t \in Tables, NEW a \in Actions, WriteFails(t, a)
       PROVE  IdInv'
  <2>1. /\ UNCHANGED <<pc, lastId, buffer, stored>>
        /\ inflight' = [inflight EXCEPT ![t][a] = << >>]
    BY <1>10 DEF WriteFails, database
  <2>2. \A u \in Tables, b \in Actions : RowsOf(inflight'[u][b]) \subseteq RowsOf(inflight[u][b])
    BY <2>1, NoRowsOf DEF TypeInv, TypeOK
  <2> QED
    BY <2>1, <2>2, IdsFewer
<1>11. CASE Publish \/ ImportOther \/ UNCHANGED vars
  <2>1. UNCHANGED <<pc, lastId, buffer, inflight, stored>>
    BY <1>11 DEF Publish, ImportOther, vars, database, process
  <2> QED
    BY <2>1, IdsFewer
<1> QED
  BY <1>1, <1>2, <1>3, <1>4, <1>5, <1>6, <1>7, <1>8, <1>9, <1>10, <1>11
     DEF Next, Work, Fault

\* The ids stored stay bounded: a write adds the rows of a buffer, and the
\* counters have passed those.
LEMMA BoundedStep ==
    ASSUME TypeInv, IdInv, [Next]_vars
    PROVE  Bounded'
<1>1. PICK b \in Nat : \A t \in Tables : \A r \in stored[t] : r.id <= b
  BY DEF TypeInv, Bounded
<1>2. CASE \A t \in Tables : stored'[t] \subseteq stored[t]
  BY <1>1, <1>2 DEF Bounded
<1>3. ASSUME NEW t \in Tables, NEW a \in Actions, Commit(t, a)
      PROVE  Bounded'
  <2>1. /\ \A u \in Tables : u # t => stored'[u] = stored[u]
        /\ stored'[t] = Written(stored[t], a, inflight[t][a])
    BY <1>3 DEF Commit, TypeInv, TypeOK
  <2>2. stored'[t] \subseteq stored[t] \cup RowsOf(inflight[t][a])
    BY <2>1, WrittenRows
  <2>3. lastId[t] \in Nat /\ \A r \in RowsOf(inflight[t][a]) : r.id <= lastId[t]
    BY DEF IdInv, Counted, Waiting, TypeInv, TypeOK
  <2>4. \A r \in Row : r.id \in Nat
    BY DEF Row
  <2>5. inflight[t][a] \in Seq(Row) /\ \A u \in Tables : stored[u] \subseteq Row
    BY DEF TypeInv, TypeOK
  <2>6. RowsOf(inflight[t][a]) \subseteq Row
    BY <2>5 DEF RowsOf
  <2>7. \A u \in Tables : \A r \in stored'[u] : r.id <= b + lastId[t]
    <3>1. \A u \in Tables : \A r \in stored[u] : r.id <= b + lastId[t]
      BY <1>1, <2>3, <2>4, <2>5
    <3>2. \A r \in RowsOf(inflight[t][a]) : r.id <= b + lastId[t]
      BY <2>3, <2>4, <2>6
    <3> QED
      BY <2>1, <2>2, <3>1, <3>2
  <2>8. b + lastId[t] \in Nat
    BY <2>3
  <2> QED
    BY <2>7, <2>8 DEF Bounded
<1>4. CASE UNCHANGED stored
  BY <1>2, <1>4
<1>5. ASSUME NEW t \in Tables, DropTable(t)
      PROVE  Bounded'
  BY <1>2, <1>5 DEF DropTable, TypeInv, TypeOK
<1>6. ASSUME NEW f \in Files, Sweep(f)
      PROVE  Bounded'
  <2>1. \A t \in Tables : stored'[t] \subseteq stored[t]
    BY <1>6 DEF Sweep, TypeInv, TypeOK
  <2> QED
    BY <1>2, <2>1
<1>7. \/ UNCHANGED stored
      \/ \E t \in Tables : DropTable(t)
      \/ \E f \in Files : Sweep(f)
      \/ \E t \in Tables, a \in Actions : Commit(t, a)
  <2>1. CASE \/ Start \/ StartUnsure \/ Begin \/ Dropped \/ Created \/ RestoreIds
             \/ FilesSettled \/ Swept \/ UpdateLastFile \/ End \/ Crash
             \/ Publish \/ ImportOther \/ UNCHANGED vars
    BY <2>1 DEF Start, StartUnsure, Begin, Dropped, Created, RestoreIds, FilesSettled, Swept,
                UpdateLastFile, End, Crash, Gone, Publish, ImportOther, vars, database
  <2>2. \A t \in Tables : CreateTable(t) => UNCHANGED stored
    BY DEF CreateTable
  <2>3. \A f \in Files : ReadLine(f) \/ CloseTables(f) \/ Closed(f) \/ RefuseLine(f)
                            => UNCHANGED stored
    BY DEF ReadLine, CloseTables, Closed, RefuseLine, database
  <2>4. \A t \in Tables, a \in Actions : WriteFails(t, a) => UNCHANGED stored
    BY DEF WriteFails, database
  <2> QED
    BY <2>1, <2>2, <2>3, <2>4 DEF Next, Work, Fault
<1> QED
  BY <1>3, <1>4, <1>5, <1>6, <1>7

-----------------------------------------------------------------------------
(* The invariant of an import *)

IInv == TypeInv /\ Shape /\ IdInv

\* The invariant holds before anything is imported.
LEMMA InitIInv == Init => IInv
<1> SUFFICES ASSUME Init PROVE IInv
  OBVIOUS
<1> USE TableTypes, ArchivesAssumption, BoundsAssumption
<1>1. /\ listed = 0 /\ log = << >> /\ schema = {} /\ faults = 0
      /\ stored = [t \in Tables |-> {}]
      /\ pc = "idle" /\ next = 1 /\ upto = 0
      /\ lastId = [t \in Tables |-> 0]
      /\ stream = [f \in Files |-> "done"]
      /\ at = [f \in Files |-> 0]
      /\ buffer = NoRows /\ inflight = NoRows
  BY DEF Init, NoProcess
<1>2. TypeOK
  <2>1. << >> \in Seq(Archive \cup {Other})
    OBVIOUS
  <2> QED
    BY <1>1, <2>1 DEF TypeOK
<1>3. InRange /\ Bounded
  <2>1. 0 \in Nat /\ \A t \in Tables : stored[t] = {}
    BY <1>1
  <2> QED
    BY <1>1, <2>1 DEF InRange, Importing, Bounded
<1>4. Quiet
  BY <1>1 DEF Quiet, NoRows
<1>5. Shape
  BY <1>1, <1>4 DEF Shape
<1>6. IdInv
  BY <1>1, <1>4, IdsQuiet
<1> QED
  BY <1>2, <1>3, <1>5, <1>6 DEF IInv, TypeInv

\* Every step keeps the invariant.
LEMMA NextIInv == IInv /\ [Next]_vars => IInv'
<1> SUFFICES ASSUME IInv, [Next]_vars PROVE IInv'
  OBVIOUS
<1>1. TypeInv'
  BY TypeStep, BoundedStep DEF IInv, TypeInv
<1>2. Shape'
  BY <1>1, ShapeStep DEF IInv
<1>3. IdInv'
  BY <1>1, <1>2, IdStep DEF IInv
<1> QED
  BY <1>1, <1>2, <1>3 DEF IInv

\* The inductive invariant holds in every state the importer reaches.
THEOREM Invariance == Spec => []IInv
  BY InitIInv, NextIInv, PTL DEF Spec

\* Every variable of the importer keeps its type: the archive being imported is
\* one that was published and downloaded, and every row is one a line of it was
\* read into (ImportFeedCommand, TableWriter).
THEOREM TypeCorrect == Spec => []TypeOK
<1>1. IInv => TypeOK
  BY DEF IInv, TypeInv
<1> QED
  BY <1>1, Invariance, PTL

\* However an import is interrupted and retried, and whatever order its writes
\* are committed in, no row waits to be inserted with an id that its table
\* already holds (restoreIdCounters, ImportFeedCommand.ts:104-138).
THEOREM IdsUnusedCorrect == Spec => []IdsUnused
<1>1. IInv => IdsUnused
  BY DEF IInv, IdInv
<1> QED
  BY <1>1, Invariance, PTL

-----------------------------------------------------------------------------
(* An archive that is recorded is whole *)

\* A file that has been swept stays without orphans until the import ends.
OrphanFree(f) ==
    \A c \in stored[<<f, "stop_time">>] :
        \E s \in stored[<<f, "schedule">>] : c.schedule = s.id
SweptInv ==
    /\ pc \in {"sweep", "log"} => \A f \in Files : stream[f] = "swept" => OrphanFree(f)
    /\ pc = "log" => \A f \in Files : stream[f] = "swept"

\* Every step keeps the files swept before an archive is recorded.
LEMMA SweptStep ==
    ASSUME IInv, SweptInv, [Next]_vars
    PROVE  SweptInv'
<1> USE TableTypes DEF SweptInv
<1>1. CASE UNCHANGED <<pc, stream, stored>>
  BY <1>1 DEF OrphanFree
<1>2. CASE Publish \/ ImportOther \/ UNCHANGED vars
  BY <1>1, <1>2 DEF Publish, ImportOther, vars, database, process
<1>3. CASE pc' \notin {"sweep", "log"}
  BY <1>3
<1>4. CASE \/ Start \/ StartUnsure \/ Begin \/ Dropped \/ Created \/ RestoreIds
           \/ UpdateLastFile \/ End \/ Crash
  BY <1>3, <1>4 DEF Start, StartUnsure, Begin, Dropped, Created, RestoreIds, UpdateLastFile, End, Crash,
                    Gone, NoProcess
<1>5. CASE FilesSettled
  <2>1. \A f \in Files : pc' = "sweep" => stream'[f] # "swept"
    BY <1>5 DEF FilesSettled
  <2>2. pc' \in {"sweep", "ending"}
    BY <1>5 DEF FilesSettled
  <2> QED
    BY <2>1, <2>2
<1>6. CASE Swept
  BY <1>6 DEF Swept, OrphanFree, database
<1>7. ASSUME NEW f \in Files, Sweep(f)
      PROVE  SweptInv'
  <2>1. /\ pc = "sweep" /\ pc' = "sweep"
        /\ stream' = [stream EXCEPT ![f] = "swept"]
        /\ stored' = [stored EXCEPT ![<<f, "stop_time">>] =
                        {r \in stored[<<f, "stop_time">>] :
                            \E s \in stored[<<f, "schedule">>] : r.schedule = s.id}]
    BY <1>7 DEF Sweep
  <2>2. stored \in [Tables -> SUBSET Row]
    BY DEF IInv, TypeInv, TypeOK
  <2>3. \A g \in Files : stored'[<<g, "schedule">>] = stored[<<g, "schedule">>]
    BY <2>1, <2>2
  <2>4. ASSUME NEW g \in Files, stream'[g] = "swept"
        PROVE  OrphanFree(g)'
    <3>1. CASE g = f
      BY <2>1, <2>2, <2>3, <3>1 DEF OrphanFree
    <3>2. CASE g # f
      <4>1. stream[g] = "swept" /\ stored'[<<g, "stop_time">>] = stored[<<g, "stop_time">>]
        BY <2>1, <2>2, <2>4, <3>2 DEF IInv, TypeInv, TypeOK
      <4> QED
        BY <2>1, <2>3, <4>1 DEF OrphanFree
    <3> QED
      BY <3>1, <3>2
  <2> QED
    BY <2>1, <2>4
<1>8. ASSUME NEW t \in Tables, DropTable(t) \/ CreateTable(t)
      PROVE  SweptInv'
  BY <1>3, <1>8 DEF DropTable, CreateTable, process
<1>9. ASSUME NEW f \in Files, ReadLine(f) \/ RefuseLine(f) \/ CloseTables(f) \/ Closed(f)
      PROVE  SweptInv'
  BY <1>3, <1>9 DEF ReadLine, RefuseLine, CloseTables, Closed
<1>10. ASSUME NEW t \in Tables, NEW a \in Actions, Commit(t, a) \/ WriteFails(t, a)
       PROVE  SweptInv'
  <2>1. inflight[t][a] # << >> /\ pc' = pc
    BY <1>10 DEF Commit, WriteFails
  <2>2. pc \in {"files", "ending"}
    BY <2>1 DEF IInv, Shape, Quiet
  <2> QED
    BY <1>3, <2>1, <2>2
<1> QED
  BY <1>2, <1>4, <1>5, <1>6, <1>7, <1>8, <1>9, <1>10 DEF Next, Work, Fault

\* An archive reaches the log only when every line of every one of its files
\* has been read and written and every call stored has its schedule, however
\* the files and their writes were interleaved and whatever failed before
\* (importExtracted, reportFailures, removeOrphanStopTimes).
THEOREM RecordedWholeCorrect == Spec => []RecordedWhole
<1>1. Init => SweptInv
  BY DEF Init, NoProcess, SweptInv
<1>2. IInv /\ SweptInv /\ [Next]_vars => SweptInv'
  BY SweptStep
<1>3. IInv /\ SweptInv => RecordedWhole
  <2> SUFFICES ASSUME IInv, SweptInv, pc = "log"
               PROVE  NothingPending /\ AllRead /\ NoOrphans
    BY DEF RecordedWhole
  <2>1. Quiet /\ AllRead
    BY DEF IInv, Shape, AllRead
  <2>2. NothingPending
    <3>1. /\ buffer \in [Tables -> [Actions -> Seq(Row)]]
          /\ inflight \in [Tables -> [Actions -> Seq(Row)]]
      BY DEF IInv, TypeInv, TypeOK
    <3>2. \A t \in Tables : buffer[t] = [a \in Actions |-> << >>]
                            /\ inflight[t] = [a \in Actions |-> << >>]
      BY <2>1, <3>1 DEF Quiet
    <3> QED
      BY <3>1, <3>2 DEF NothingPending, NoRows
  <2>3. NoOrphans
    BY DEF SweptInv, OrphanFree, NoOrphans
  <2> QED
    BY <2>1, <2>2, <2>3
<1> QED
  BY <1>1, <1>2, <1>3, Invariance, PTL DEF Spec

-----------------------------------------------------------------------------
(* What the log promises *)

LA == ImportLog!LastArchive(log)

\* Recording an archive makes it the last one, recording another feed does not
\* change which is, and the last row of the log is the last archive if it is one.
LEMMA LastArchiveOf ==
    ASSUME NEW rows \in Seq(Archive \cup {Other}), NEW n \in Archive \cup {Other}
    PROVE  /\ n # Other => ImportLog!LastArchive(Append(rows, n)) = n
           /\ n = Other => ImportLog!LastArchive(Append(rows, n)) =
                              ImportLog!LastArchive(rows)
           /\ rows # << >> /\ rows[Len(rows)] # Other =>
                 ImportLog!LastArchive(rows) = rows[Len(rows)]
<1> DEFINE more == Append(rows, n)
           own(r) == {i \in DOMAIN r : r[i] # Other}
           last(r) == CHOOSE i \in own(r) : \A j \in own(r) : j <= i
<1>0. /\ more \in Seq(Archive \cup {Other})
      /\ Len(rows) \in Nat
      /\ DOMAIN rows = 1..Len(rows)
      /\ DOMAIN more = 1..(Len(rows) + 1)
      /\ Len(more) = Len(rows) + 1
      /\ \A i \in 1..Len(rows) : more[i] = rows[i]
      /\ more[Len(rows) + 1] = n
      /\ rows # << >> => Len(rows) \in 1..Len(rows)
  OBVIOUS
<1>1. \A r : ImportLog!LastArchive(r) = IF own(r) = {} THEN 0 ELSE r[last(r)]
  BY DEF ImportLog!LastArchive
<1> HIDE DEF more
<1>2. ASSUME NEW r \in Seq(Archive \cup {Other}), NEW k \in Nat, k > 0,
             DOMAIN r = 1..k, r[k] # Other
      PROVE  ImportLog!LastArchive(r) = r[k]
  <2>1. k \in own(r) /\ \A j \in own(r) : j \in Nat /\ j <= k
    BY <1>2
  <2> HIDE DEF own
  <2>2. last(r) \in own(r) /\ \A j \in own(r) : j <= last(r)
    BY <2>1
  <2>3. last(r) = k
    <3>1. last(r) \in Nat /\ last(r) <= k /\ k <= last(r)
      BY <2>1, <2>2
    <3> HIDE DEF last
    <3> QED
      BY <1>2, <3>1
  <2> QED
    BY <1>1, <2>1, <2>3
<1>3. n # Other => ImportLog!LastArchive(more) = n
  <2>1. Len(rows) + 1 \in Nat /\ Len(rows) + 1 > 0
    BY <1>0
  <2> QED
    BY <1>0, <1>2, <2>1
<1>4. rows # << >> /\ rows[Len(rows)] # Other =>
         ImportLog!LastArchive(rows) = rows[Len(rows)]
  <2>1. rows # << >> => Len(rows) > 0
    BY <1>0
  <2> QED
    BY <1>0, <1>2, <2>1
<1>5. n = Other => ImportLog!LastArchive(more) = ImportLog!LastArchive(rows)
  <2> SUFFICES ASSUME n = Other
               PROVE  ImportLog!LastArchive(more) = ImportLog!LastArchive(rows)
    OBVIOUS
  <2>1. own(more) = own(rows)
    BY <1>0
  <2>2. \A i \in own(rows) : more[i] = rows[i]
    BY <1>0
  <2>3. own(rows) = {} \/ last(rows) \in own(rows)
    <3>1. own(rows) \subseteq 1..Len(rows)
      BY <1>0
    <3>2. own(rows) # {} => \E i \in own(rows) : \A j \in own(rows) : j <= i
      <4>1. own(rows) \subseteq Nat /\ \A i \in own(rows) : i <= Len(rows)
        BY <1>0, <3>1
      <4> HIDE DEF own
      <4> QED
        BY <1>0, <4>1, LargestId
    <3> HIDE DEF own
    <3> QED
      BY <3>2
  <2>4. last(more) = last(rows)
    BY <2>1
  <2> HIDE DEF own, last
  <2> QED
    BY <1>1, <2>1, <2>2, <2>3, <2>4
<1> QED
  BY <1>3, <1>4, <1>5 DEF more

\* The archive a process is about to import, or is importing, may follow those
\* that are recorded.
MayNext ==
    pc \notin {"idle", "ending"} /\ next <= upto =>
        Archives[next].full \/ next = LA + 1

\* Every step keeps an import due, and records only one that is.
LEMMA MayNextStep ==
    ASSUME IInv, MayNext, [Next]_vars
    PROVE  MayNext' /\ [ImportLog!Next]_log
<1> USE TableTypes
<1>0. /\ log \in Seq(Archive \cup {Other}) /\ next \in Nat /\ upto \in Nat
      /\ listed \in Nat /\ upto <= listed /\ listed <= Len(Archives)
  BY DEF IInv, TypeInv, TypeOK
<1>1. CASE UNCHANGED <<log, next, upto>> /\ (pc' = pc \/ pc' \in {"idle", "ending"}
                                             \/ pc \notin {"idle", "ending"})
  BY <1>1 DEF MayNext, LA
<1>2. CASE Start \/ StartUnsure
  <2>1. next' \in {FirstToProcess, FromRefresh} /\ upto' = listed /\ log' = log
    BY <1>2 DEF Start, StartUnsure, database
  <2>2. CASE next' # FromRefresh
    <3>1. /\ next' = LastProcessed + 1
          /\ log # << >> /\ log[Len(log)] # Other /\ LastProcessed = log[Len(log)]
      BY <2>1, <2>2 DEF LastProcessed, FirstToProcess
    <3>2. ImportLog!LastArchive(log) = log[Len(log)]
      BY <1>0, <3>1, LastArchiveOf
    <3> QED
      BY <2>1, <3>1, <3>2 DEF MayNext, LA
  <2>3. CASE next' = FromRefresh
    <3>1. /\ LastRefresh \in 0..listed
          /\ LastRefresh # 0 => Archives[LastRefresh].full
      BY FirstToProcessType DEF IInv, TypeInv
    <3>2. next' <= upto' => Archives[next'].full
      BY <1>0, <2>1, <2>3, <3>1 DEF FromRefresh
    <3> QED
      BY <2>1, <3>2 DEF MayNext
  <2> QED
    BY <2>2, <2>3
<1>3. CASE UpdateLastFile
  <2>1. /\ pc = "log" /\ log' = Append(log, next) /\ next' = next + 1
    BY <1>3 DEF UpdateLastFile
  <2>2. next <= upto /\ next \in Archive
    <3>1. next <= upto /\ next \in 1..(Len(Archives) + 1)
      BY <2>1 DEF IInv, TypeInv, TypeOK, InRange, Importing
    <3> QED
      BY <1>0, <3>1
  <2>3. Archives[next].full \/ next = LA + 1
    BY <2>1, <2>2 DEF MayNext
  <2>4. LA' = next
    <3>1. next # Other /\ next \in Archive \cup {Other}
      BY <2>2
    <3>2. ImportLog!LastArchive(Append(log, next)) = next
      BY <1>0, <3>1, LastArchiveOf
    <3> QED
      BY <2>1, <3>2 DEF LA
  <2>5. ImportLog!Record
    <3>1. next \in ImportLog!Archive
      BY <2>2 DEF ImportLog!Archive
    <3>2. ImportLog!MayFollow(next, log)
      BY <2>2, <2>3 DEF ImportLog!MayFollow, LA
    <3> QED
      BY <2>1, <3>1, <3>2 DEF ImportLog!Record
  <2> QED
    BY <2>1, <2>4, <2>5 DEF MayNext, ImportLog!Next
<1>4. CASE ImportOther
  <2>1. log' = Append(log, Other) /\ UNCHANGED <<pc, next, upto>>
    BY <1>4 DEF ImportOther, process
  <2>2. LA' = LA
    BY <1>0, <2>1, LastArchiveOf DEF LA
  <2> QED
    BY <2>1, <2>2 DEF MayNext, ImportLog!Next, ImportLog!RecordOther
<1>5. CASE Begin \/ Dropped \/ Created \/ RestoreIds \/ FilesSettled \/ Swept
  BY <1>1, <1>5 DEF Begin, Dropped, Created, RestoreIds, FilesSettled, Swept, database
<1>6. CASE End \/ Crash
  <2>1. pc' = "idle" /\ log' = log
    BY <1>6 DEF End, Crash, Gone, NoProcess, database
  <2> QED
    BY <2>1 DEF MayNext
<1>7. CASE Publish \/ UNCHANGED vars
  BY <1>1, <1>7 DEF Publish, vars, database, process
<1>8. ASSUME NEW t \in Tables, DropTable(t) \/ CreateTable(t)
      PROVE  MayNext' /\ [ImportLog!Next]_log
  BY <1>1, <1>8 DEF DropTable, CreateTable, process
<1>9. ASSUME NEW f \in Files,
             ReadLine(f) \/ RefuseLine(f) \/ CloseTables(f) \/ Closed(f) \/ Sweep(f)
      PROVE  MayNext' /\ [ImportLog!Next]_log
  BY <1>1, <1>9 DEF ReadLine, RefuseLine, CloseTables, Closed, Sweep, database
<1>10. ASSUME NEW t \in Tables, NEW a \in Actions, Commit(t, a) \/ WriteFails(t, a)
       PROVE  MayNext' /\ [ImportLog!Next]_log
  BY <1>1, <1>10 DEF Commit, WriteFails, database
<1> QED
  BY <1>2, <1>3, <1>4, <1>5, <1>6, <1>7, <1>8, <1>9, <1>10 DEF Next, Work, Fault

\* The importer implements ImportLog: whatever fails, however often it is
\* started again, and whatever other feed is recorded in between, no changes
\* archive is recorded that does not directly follow the last recorded archive
\* (getFilesToProcess, DownloadAndProcessCommand.run, updateLastFile).
THEOREM StepsOverNothingCorrect == Spec => StepsOverNothing
<1>1. Init => MayNext /\ ImportLog!Init
  BY DEF Init, NoProcess, MayNext, ImportLog!Init
<1>2. IInv /\ MayNext /\ [Next]_vars => MayNext' /\ [ImportLog!Next]_log
  BY MayNextStep
<1> QED
  BY <1>1, <1>2, Invariance, PTL DEF Spec, StepsOverNothing, ImportLog!Spec
-----------------------------------------------------------------------------
(* What an archive leaves in force *)

\* The schedule lines of one archive, and its last line of a key.
OfArchive(f, n) ==
    {n} \X {i \in DOMAIN Archives[n].lines[f] : Archives[n].lines[f][i].table = "schedule"}
SameLineKey(f, m, o) == LineAt(f, m).key = LineAt(f, o).key
LastOfKey(f, m) == \A o \in OfArchive(f, m[1]) : SameLineKey(f, m, o) => o[2] <= m[2]

\* What is in force before an archive is applied.
Before(f, n) == IF Archives[n].full THEN {} ELSE InForce(f, n - 1)

\* A schedule line is its own owner.
LEMMA OwnLine ==
    ASSUME NEW n \in Archive, NEW f \in Files, NEW i \in DOMAIN Archives[n].lines[f],
           Archives[n].lines[f][i].table = "schedule"
    PROVE  OwnerLine(Archives[n].lines[f], i) = i
<1> DEFINE lines == Archives[n].lines[f]
<1>1. lines \in Seq(Line) /\ CallsFollowSchedules(lines) /\ i \in 1..Len(lines)
  <2>1. lines \in Seq(Line)
    BY ArchiveTypes
  <2>2. CallsFollowSchedules(lines)
    BY ArchivesAssumption DEF Archive
  <2> QED
    BY <2>1, <2>2
<1> HIDE DEF lines
<1>2. \E j \in 1..i : /\ lines[j].table = "schedule"
                     /\ \A k \in (j + 1)..i : lines[k].table = "stop_time"
  BY <1>1 DEF CallsFollowSchedules
<1>3. lines[i].table = "schedule"
  BY DEF lines
<1>4. \A j \in 1..i : (\A k \in (j + 1)..i : lines[k].table = "stop_time") => j = i
  <2> SUFFICES ASSUME NEW j \in 1..i, \A k \in (j + 1)..i : lines[k].table = "stop_time", j # i
               PROVE  FALSE
    OBVIOUS
  <2>1. i \in (j + 1)..i
    BY <1>1
  <2> QED
    BY <1>3, <2>1
<1> QED
  BY <1>2, <1>4 DEF OwnerLine, lines

\* A line of an archive, and what the feed says of it.
LEMMA LineOfArchive ==
    ASSUME NEW n \in Archive, NEW f \in Files, NEW m \in OfArchive(f, n)
    PROVE  /\ m = <<n, m[2]>> /\ m[1] = n /\ m[2] \in 1..Len(Archives[n].lines[f]) /\ m[2] \in Nat
           /\ LineAt(f, m) = Archives[n].lines[f][m[2]]
           /\ LineAt(f, m).table = "schedule" /\ LineAt(f, m).action \in Actions
           /\ LineAt(f, m).key \in Keys /\ LineAt(f, m).key # NoKey
<1>1. /\ m = <<n, m[2]>> /\ m[1] = n /\ m[2] \in DOMAIN Archives[n].lines[f]
      /\ Archives[n].lines[f][m[2]].table = "schedule"
  BY DEF OfArchive
<1>2. m[2] \in 1..Len(Archives[n].lines[f]) /\ m[2] \in Nat
  BY <1>1, ArchiveTypes
<1>3. LineAt(f, m) = Archives[n].lines[f][m[2]]
  BY <1>1 DEF LineAt
<1>4. LineAt(f, m) \in Line
  BY <1>2, <1>3, LineTypes
<1> QED
  BY <1>1, <1>2, <1>3, <1>4, NoKeyAssumption DEF Line

\* The last refresh up to an archive of an orderly feed.
LEMMA BaseIsRefresh ==
    ASSUME OrderlyFeed, NEW n \in Archive
    PROVE  /\ BaseOf(n) \in 1..n /\ Archives[BaseOf(n)].full
           /\ \A m \in (BaseOf(n) + 1)..n : ~Archives[m].full
<1> DEFINE full == {b \in 1..n : Archives[b].full}
<1>1. n \in Nat /\ n >= 1 /\ 1 \in full
  BY TableTypes DEF OrderlyFeed
<1>2. full \subseteq Nat /\ \A b \in full : b <= n
  BY <1>1
<1> HIDE DEF full
<1>3. PICK b \in full : \A m \in full : m <= b
  BY <1>1, <1>2, LargestId
<1> USE DEF full
<1>4. b \in 1..n /\ Archives[b].full /\ \A m \in (b + 1)..n : ~Archives[m].full
  BY <1>1, <1>3
<1> QED
  BY <1>4 DEF BaseOf

\* A refresh is its own base.
LEMMA BaseOfRefresh ==
    ASSUME OrderlyFeed, NEW n \in Archive, Archives[n].full
    PROVE  BaseOf(n) = n
<1>1. n \in Nat
  BY TableTypes
<1> QED
  BY <1>1, BaseIsRefresh

\* The base of a changes archive is that of the archive before.
LEMMA BaseOfChanges ==
    ASSUME OrderlyFeed, NEW n \in Archive, ~Archives[n].full
    PROVE  n - 1 \in Archive /\ BaseOf(n) = BaseOf(n - 1)
<1>1. n \in Nat /\ n # 1 /\ n - 1 \in Archive
  BY TableTypes DEF OrderlyFeed
<1>2. \A b, c \in 1..n : /\ Archives[b].full /\ \A m \in (b + 1)..n : ~Archives[m].full
                         /\ Archives[c].full /\ \A m \in (c + 1)..n : ~Archives[m].full
                         => b = c
  BY <1>1
<1>3. /\ BaseOf(n - 1) \in 1..n /\ Archives[BaseOf(n - 1)].full
      /\ \A m \in (BaseOf(n - 1) + 1)..n : ~Archives[m].full
  BY <1>1, BaseIsRefresh
<1> QED
  BY <1>1, <1>2, <1>3, BaseIsRefresh

\* The schedule lines since the last refresh, archive by archive.
LEMMA LinesSoFar ==
    ASSUME OrderlyFeed, NEW n \in Archive, NEW f \in Files
    PROVE  /\ Archives[n].full => ScheduleLines(f, n) = OfArchive(f, n)
           /\ ~Archives[n].full => ScheduleLines(f, n) = ScheduleLines(f, n - 1) \cup OfArchive(f, n)
           /\ OfArchive(f, n) \subseteq ScheduleLines(f, n)
           /\ \A m \in ScheduleLines(f, n) :
                 /\ m[1] \in 1..n /\ m[1] \in Archive /\ m \in OfArchive(f, m[1])
                 /\ m[1] = n => m \in OfArchive(f, n)
<1>1. \A k, m : m \in ScheduleLines(f, k) <=> \E a \in BaseOf(k)..k : m \in OfArchive(f, a)
  BY DEF ScheduleLines, OfArchive
<1>2. n \in Nat /\ BaseOf(n) \in 1..n
  BY TableTypes, BaseIsRefresh
<1>3. ASSUME Archives[n].full
      PROVE  ScheduleLines(f, n) = OfArchive(f, n)
  <2>1. \A a : a \in BaseOf(n)..n <=> a = n
    BY <1>2, <1>3, BaseOfRefresh
  <2>2. \A m : m \in ScheduleLines(f, n) <=> m \in OfArchive(f, n)
    BY <1>1, <2>1
  <2> QED
    BY <2>2, Zenon
<1>4. ASSUME ~Archives[n].full
      PROVE  ScheduleLines(f, n) = ScheduleLines(f, n - 1) \cup OfArchive(f, n)
  <2>1. n - 1 \in Archive /\ BaseOf(n) = BaseOf(n - 1) /\ BaseOf(n) \in 1..(n - 1)
    BY <1>4, BaseOfChanges, BaseIsRefresh
  <2>2. \A a : a \in BaseOf(n)..n <=> a \in BaseOf(n - 1)..(n - 1) \/ a = n
    BY <1>2, <2>1
  <2>3. \A m : m \in ScheduleLines(f, n) <=> m \in ScheduleLines(f, n - 1) \/ m \in OfArchive(f, n)
    BY <1>1, <2>2
  <2> QED
    BY <2>3, Zenon
<1>5. \A m \in ScheduleLines(f, n) : m[1] \in 1..n /\ m \in OfArchive(f, m[1])
  <2> SUFFICES ASSUME NEW a \in BaseOf(n)..n, NEW m \in OfArchive(f, a)
               PROVE  m[1] \in 1..n /\ m \in OfArchive(f, m[1])
    BY <1>1
  <2>1. m[1] = a
    BY DEF OfArchive
  <2> QED
    BY <1>2, <2>1
<1>6. \A a \in 1..n : a \in Archive
  BY TableTypes
<1> QED
  BY <1>3, <1>4, <1>5, <1>6

\* What is in force after an archive: what was before, where the archive says nothing
\* of it, and the last line of each key that is not a deletion.
LEMMA ForceAfter ==
    ASSUME OrderlyFeed, NEW n \in Archive, NEW f \in Files, NEW m
    PROVE  m \in InForce(f, n) <=>
              \/ m \in Before(f, n) /\ \A o \in OfArchive(f, n) : ~SameLineKey(f, m, o)
              \/ m \in OfArchive(f, n) /\ LastOfKey(f, m) /\ LineAt(f, m).action # "Delete"
<1>1. /\ \A o \in OfArchive(f, n) : o[1] = n /\ o[2] \in Nat
      /\ n \in Nat
  BY TableTypes, LineOfArchive
<1>2. CASE m \in OfArchive(f, n) /\ (m \in ScheduleLines(f, n) => \A o \in ScheduleLines(f, n) : Later(o, m) => o \in OfArchive(f, n))
  <2>1. \A o \in OfArchive(f, n) : Later(o, m) <=> ~(o[2] <= m[2])
    BY <1>1, <1>2 DEF Later
  <2>2. LastOfKey(f, m) <=> \A o \in ScheduleLines(f, n) : LineAt(f, o).key = LineAt(f, m).key => ~Later(o, m)
    BY <1>1, <1>2, <2>1, LinesSoFar DEF LastOfKey, SameLineKey
  <2>3. m \in InForce(f, n) <=> LastOfKey(f, m) /\ LineAt(f, m).action # "Delete"
    BY <1>2, <2>2, LinesSoFar DEF InForce
  <2>4. ~(m \in Before(f, n) /\ \A o \in OfArchive(f, n) : ~SameLineKey(f, m, o))
    BY <1>2 DEF SameLineKey
  <2> QED
    BY <1>2, <2>3, <2>4
<1>3. CASE Archives[n].full
  <2>1. ScheduleLines(f, n) = OfArchive(f, n) /\ Before(f, n) = {}
    BY <1>3, LinesSoFar DEF Before
  <2>2. m \in InForce(f, n) => m \in OfArchive(f, n)
    BY <2>1 DEF InForce
  <2> QED
    BY <1>2, <2>1, <2>2
<1>4. CASE ~Archives[n].full
  <2>1. /\ ScheduleLines(f, n) = ScheduleLines(f, n - 1) \cup OfArchive(f, n)
        /\ Before(f, n) = InForce(f, n - 1) /\ n - 1 \in Archive
    BY <1>4, LinesSoFar, BaseOfChanges DEF Before
  <2>2. \A o \in ScheduleLines(f, n - 1) : o[1] \in Nat /\ o[1] < n
    BY <1>1, <2>1, LinesSoFar
  <2>3. CASE m \in OfArchive(f, n)
    <3>1. \A o \in ScheduleLines(f, n - 1) : ~Later(o, m)
      BY <1>1, <2>2, <2>3 DEF Later
    <3> QED
      BY <1>2, <2>1, <2>3, <3>1
  <2>4. CASE m \notin OfArchive(f, n)
    <3>1. m \in ScheduleLines(f, n - 1) => \A o \in OfArchive(f, n) : Later(o, m)
      BY <1>1, <2>2 DEF Later
    <3>2. m \in InForce(f, n) => m \in InForce(f, n - 1) /\ \A o \in OfArchive(f, n) : ~SameLineKey(f, m, o)
      BY <2>1, <2>4, <3>1 DEF InForce, SameLineKey
    <3>3. m \in InForce(f, n - 1) /\ (\A o \in OfArchive(f, n) : ~SameLineKey(f, m, o)) => m \in InForce(f, n)
      BY <2>1 DEF InForce, SameLineKey
    <3> QED
      BY <2>1, <2>4, <3>2, <3>3
  <2> QED
    BY <2>3, <2>4
<1> QED
  BY <1>3, <1>4

\* Of the lines of a key one is the last.
LEMMA LastLine ==
    ASSUME NEW n \in Archive, NEW f \in Files, NEW m \in OfArchive(f, n)
    PROVE  \E o \in OfArchive(f, n) : SameLineKey(f, m, o) /\ LastOfKey(f, o)
<1> DEFINE same == {o \in OfArchive(f, n) : SameLineKey(f, m, o)}
           places == {o[2] : o \in same}
<1>1. /\ Len(Archives[n].lines[f]) \in Nat
      /\ \A o \in OfArchive(f, n) : o[1] = n /\ o[2] \in Nat /\ o[2] <= Len(Archives[n].lines[f])
  BY ArchiveTypes, LineOfArchive
<1>2. m \in same
  BY DEF SameLineKey
<1>3. places \subseteq Nat /\ places # {} /\ \A p \in places : p <= Len(Archives[n].lines[f])
  BY <1>1, <1>2
<1> HIDE DEF places
<1>4. PICK p \in places : \A q \in places : q <= p
  BY <1>1, <1>3, LargestId
<1>5. PICK o \in same : o[2] = p
  BY <1>4 DEF places
<1>6. \A u \in same : u[2] <= o[2]
  BY <1>4, <1>5 DEF places
<1>7. LastOfKey(f, o)
  BY <1>1, <1>5, <1>6 DEF LastOfKey, SameLineKey
<1> QED
  BY <1>5, <1>7

\* What an orderly feed does not do: insert what is in force, go on after a deletion,
\* or follow a line with anything but a revision.
LEMMA OrderlyLine ==
    ASSUME OrderlyFeed, NEW n \in Archive, NEW f \in Files, NEW m \in OfArchive(f, n)
    PROVE  /\ LineAt(f, m).action = "Insert" => \A o \in Before(f, n) : ~SameLineKey(f, m, o)
           /\ \A o \in OfArchive(f, n) : SameLineKey(f, m, o) /\ o[2] < m[2] =>
                 LineAt(f, m).action = "Update" /\ LineAt(f, o).action # "Delete"
<1>1. m \in ScheduleLines(f, n) /\ m[1] = n /\ \A o \in OfArchive(f, n) : o \in ScheduleLines(f, n) /\ o[1] = n
  BY LinesSoFar, LineOfArchive
<1>2. /\ LineAt(f, m).action = "Insert" =>
            Archives[n].full \/ \A o \in InForce(f, n - 1) : LineAt(f, o).key # LineAt(f, m).key
      /\ \A o \in ScheduleLines(f, n) :
            o[1] = n /\ Later(m, o) /\ LineAt(f, o).key = LineAt(f, m).key
               => LineAt(f, m).action = "Update" /\ LineAt(f, o).action # "Delete"
  BY <1>1 DEF OrderlyFeed, Archive
<1>3. \A o \in OfArchive(f, n) : o[2] < m[2] => Later(m, o)
  BY <1>1, LineOfArchive DEF Later
<1> QED
  BY <1>1, <1>2, <1>3 DEF Before, SameLineKey

-----------------------------------------------------------------------------
(* What a table holds, and what a write makes of it *)

Schedules(f) == stored[<<f, "schedule">>]

\* A table on the way from what was in force before to what is after a set of lines:
\* one schedule to a key, each of one or the other, and all that no line speaks of.
Content(f, table, before, lines) ==
    /\ \A s \in table :
          /\ s.key = LineAt(f, s.of).key
          /\ s.of \in before \cup {m \in lines : LineAt(f, m).action # "Delete"}
    /\ \A s, u \in table : s.key = u.key => s = u
    /\ \A m \in before :
          (\A o \in lines : ~SameLineKey(f, m, o)) => \E s \in table : s.of = m

\* The table does what a line says, where it is the last of its key.
Done(f, table, m) ==
    IF LineAt(f, m).action = "Delete"
      THEN \A s \in table : s.key # LineAt(f, m).key
      ELSE \E s \in table : s.of = m

\* Where every last line is done, the table holds what is in force.
LEMMA AllDone ==
    ASSUME OrderlyFeed, NEW n \in Archive, NEW f \in Files, NEW table,
           Content(f, table, Before(f, n), OfArchive(f, n)),
           \A m \in OfArchive(f, n) : LastOfKey(f, m) => Done(f, table, m)
    PROVE  {s.of : s \in table} = InForce(f, n)
<1>1. ASSUME NEW s \in table
      PROVE  s.of \in InForce(f, n)
  <2>1. /\ s.key = LineAt(f, s.of).key
        /\ s.of \in Before(f, n) \cup {m \in OfArchive(f, n) : LineAt(f, m).action # "Delete"}
    BY DEF Content
  <2>2. CASE s.of \in Before(f, n) /\ \A o \in OfArchive(f, n) : ~SameLineKey(f, s.of, o)
    BY <2>2, ForceAfter
  <2>3. ASSUME NEW o \in OfArchive(f, n), SameLineKey(f, s.of, o)
        PROVE  s.of \in InForce(f, n)
    <3>1. PICK l \in OfArchive(f, n) : SameLineKey(f, o, l) /\ LastOfKey(f, l)
      BY LastLine
    <3>2. Done(f, table, l) /\ s.key = LineAt(f, l).key
      BY <2>1, <2>3, <3>1 DEF SameLineKey
    <3>3. LineAt(f, l).action # "Delete"
      BY <3>2 DEF Done
    <3>4. PICK u \in table : u.of = l
      BY <3>2, <3>3 DEF Done
    <3>5. u = s
      BY <3>2, <3>4 DEF Content
    <3> QED
      BY <3>1, <3>3, <3>4, <3>5, ForceAfter
  <2>4. s.of \in OfArchive(f, n) => SameLineKey(f, s.of, s.of)
    BY DEF SameLineKey
  <2> QED
    BY <2>1, <2>2, <2>3, <2>4
<1>2. ASSUME NEW m \in InForce(f, n)
      PROVE  \E s \in table : s.of = m
  <2>1. CASE m \in Before(f, n) /\ \A o \in OfArchive(f, n) : ~SameLineKey(f, m, o)
    BY <2>1 DEF Content
  <2>2. CASE m \in OfArchive(f, n) /\ LastOfKey(f, m) /\ LineAt(f, m).action # "Delete"
    BY <2>2 DEF Done
  <2> QED
    BY <2>1, <2>2, ForceAfter
<1> QED
  BY <1>1, <1>2

\* And it is what was in force before the next archive, of which nothing is written yet.
LEMMA ContentOfForce ==
    ASSUME NEW f, NEW table, NEW before, NEW lines, Content(f, table, before, lines),
           NEW n, {s.of : s \in table} = InForce(f, n), NEW more
    PROVE  Content(f, table, InForce(f, n), more)
<1>1. \A s \in table : s.of \in InForce(f, n) /\ s.key = LineAt(f, s.of).key
  BY DEF Content
<1>2. \A m \in InForce(f, n) : \E s \in table : s.of = m
  OBVIOUS
<1> QED
  BY <1>1, <1>2 DEF Content

\* The rows of one write: of lines of an archive, all of its action, in their order.
RowsOfLines(f, n, a, rows) ==
    /\ \A p \in DOMAIN rows :
          /\ rows[p].of \in OfArchive(f, n) /\ LineAt(f, rows[p].of).action = a
          /\ rows[p].key = LineAt(f, rows[p].of).key
    /\ \A p, q \in DOMAIN rows : p < q => rows[p].of[2] < rows[q].of[2]

\* The rows of a write that reach the table have a key each.
LEMMA KeysApart ==
    ASSUME NEW rows, DOMAIN rows \subseteq Nat
    PROVE  /\ \A r, u \in FirstPerKey(rows) : SameKey(r, u) => r = u
           /\ \A r, u \in LastPerKey(rows) : SameKey(r, u) => r = u
<1>1. \A i, j \in DOMAIN rows : i = j \/ i < j \/ j < i
  OBVIOUS
<1>2. ASSUME NEW r \in FirstPerKey(rows), NEW u \in FirstPerKey(rows), SameKey(r, u)
      PROVE  r = u
  <2>1. PICK i \in DOMAIN rows : r = rows[i] /\ \A k \in DOMAIN rows : k < i => ~SameKey(rows[k], rows[i])
    BY DEF FirstPerKey
  <2>2. PICK j \in DOMAIN rows : u = rows[j] /\ \A k \in DOMAIN rows : k < j => ~SameKey(rows[k], rows[j])
    BY DEF FirstPerKey
  <2>3. SameKey(u, r)
    BY <1>2 DEF SameKey
  <2> QED
    BY <1>1, <1>2, <2>1, <2>2, <2>3
<1>3. ASSUME NEW r \in LastPerKey(rows), NEW u \in LastPerKey(rows), SameKey(r, u)
      PROVE  r = u
  <2>1. PICK i \in DOMAIN rows : r = rows[i] /\ \A k \in DOMAIN rows : k > i => ~SameKey(rows[k], rows[i])
    BY DEF LastPerKey
  <2>2. PICK j \in DOMAIN rows : u = rows[j] /\ \A k \in DOMAIN rows : k > j => ~SameKey(rows[k], rows[j])
    BY DEF LastPerKey
  <2>3. SameKey(u, r) /\ (i < j => j > i) /\ (j < i => i > j)
    BY <1>3 DEF SameKey
  <2> QED
    BY <1>1, <1>3, <2>1, <2>2, <2>3
<1> QED
  BY <1>2, <1>3

\* What a write does, by its action.
LEMMA WrittenAs ==
    ASSUME NEW table, NEW rows
    PROVE  /\ Written(table, "Insert", rows) = Insert(table, rows)
           /\ Written(table, "Update", rows) = Replace(table, rows)
           /\ Written(table, "Delete", rows) = Remove(table, rows)
  BY DEF Written

\* Whatever is written of an archive, in whatever order, the table stays on its way.
LEMMA WrittenContent ==
    ASSUME NEW n \in Archive, NEW f \in Files, NEW a \in Actions, NEW table, NEW before,
           NEW rows \in Seq(Row), RowsOfLines(f, n, a, rows),
           Content(f, table, before, OfArchive(f, n))
    PROVE  Content(f, Written(table, a, rows), before, OfArchive(f, n))
<1> DEFINE new == Written(table, a, rows)
           lines == OfArchive(f, n)
<1>1. DOMAIN rows \subseteq Nat
  OBVIOUS
<1>2. ASSUME NEW r \in RowsOf(rows)
      PROVE  /\ r.of \in lines /\ LineAt(f, r.of).action = a /\ r.key = LineAt(f, r.of).key
             /\ r.key # NoKey
  <2>1. PICK p \in DOMAIN rows : r = rows[p]
    BY DEF RowsOf
  <2> QED
    BY <2>1, LineOfArchive DEF RowsOfLines
<1>3. FirstPerKey(rows) \subseteq RowsOf(rows) /\ LastPerKey(rows) \subseteq RowsOf(rows)
  BY DEF FirstPerKey, LastPerKey, RowsOf
<1>4. \A s \in new : s \in table \/ (s \in RowsOf(rows) /\ a # "Delete")
  BY WrittenRows
<1>5. \A s \in table : s \in new \/ \E r \in RowsOf(rows) : r.key = s.key
  BY DEF Written, Actions, Insert, Replace, Remove, SameKey
<1>6. \A s, u \in new : s.key = u.key => s = u
  <2>1. CASE a = "Insert"
    <3>1. new = Insert(table, rows)
      BY <2>1 DEF Written
    <3>2. \A s \in new : s \in table \/ (s \in FirstPerKey(rows) /\ \A u \in table : ~SameKey(s, u))
      BY <3>1 DEF Insert, Clash
    <3>3. \A s, u \in table : s.key = u.key => s = u
      BY DEF Content
    <3>4. \A s \in FirstPerKey(rows) : s.key # NoKey
      BY <1>2, <1>3
    <3> HIDE DEF new
    <3> QED
      BY <1>1, <3>2, <3>3, <3>4, KeysApart DEF SameKey
  <2>2. CASE a = "Update"
    <3>1. new = Replace(table, rows)
      BY <2>2 DEF Written
    <3>2. \A s \in new : s \in Remove(table, rows)
                         \/ (s \in LastPerKey(rows) /\ \A u \in Remove(table, rows) : ~SameKey(s, u))
      BY <3>1 DEF Replace, Clash
    <3>3. \A s, u \in Remove(table, rows) : s.key = u.key => s = u
      BY DEF Content, Remove
    <3>4. \A s \in LastPerKey(rows) : s.key # NoKey
      BY <1>2, <1>3
    <3> HIDE DEF new
    <3> QED
      BY <1>1, <3>2, <3>3, <3>4, KeysApart DEF SameKey
  <2>3. CASE a = "Delete"
    <3>1. new \subseteq table
      BY <2>3, WrittenRows
    <3> QED
      BY <3>1 DEF Content
  <2> QED
    BY <2>1, <2>2, <2>3 DEF Actions
<1> HIDE DEF new, lines
<1>7. ASSUME NEW s \in new
      PROVE  /\ s.key = LineAt(f, s.of).key
             /\ s.of \in before \cup {m \in lines : LineAt(f, m).action # "Delete"}
  <2>1. CASE s \in table
    BY <2>1 DEF Content, lines
  <2>2. CASE s \in RowsOf(rows) /\ a # "Delete"
    BY <1>2, <2>2
  <2> QED
    BY <1>4, <2>1, <2>2
<1>8. ASSUME NEW m \in before, \A o \in lines : ~SameLineKey(f, m, o)
      PROVE  \E s \in new : s.of = m
  <2>1. PICK s \in table : s.of = m /\ s.key = LineAt(f, m).key
    BY <1>8 DEF Content, lines
  <2>2. \A r \in RowsOf(rows) : r.key # s.key
    BY <1>2, <1>8, <2>1 DEF SameLineKey
  <2> QED
    BY <1>5, <2>1, <2>2
<1> QED
  BY <1>6, <1>7, <1>8 DEF Content, new, lines

\* A write that has the row of the last line of a key does what the line says.
LEMMA WrittenDoes ==
    ASSUME OrderlyFeed, NEW n \in Archive, NEW f \in Files, NEW a \in Actions, NEW table,
           NEW rows \in Seq(Row), RowsOfLines(f, n, a, rows),
           Content(f, table, Before(f, n), OfArchive(f, n)),
           a # "Delete" => \A r \in RowsOf(rows), s \in table : r.id # s.id,
           NEW r \in RowsOf(rows), LastOfKey(f, r.of)
    PROVE  Done(f, Written(table, a, rows), r.of)
<1> DEFINE m == r.of
<1>1. PICK p \in DOMAIN rows : r = rows[p]
  BY DEF RowsOf
<1>2. /\ m \in OfArchive(f, n) /\ LineAt(f, m).action = a /\ r.key = LineAt(f, m).key
      /\ r.key # NoKey /\ m[1] = n /\ m[2] \in Nat /\ p \in Nat
  BY <1>1, LineOfArchive DEF RowsOfLines
<1>3. ASSUME NEW q \in DOMAIN rows, SameKey(rows[q], r)
      PROVE  /\ rows[q].of \in OfArchive(f, n) /\ SameLineKey(f, m, rows[q].of)
             /\ q \in Nat /\ rows[q].of[2] <= m[2] /\ rows[q].of[2] \in Nat
             /\ LineAt(f, rows[q].of).action = a
  BY <1>1, <1>2, <1>3, LineOfArchive DEF RowsOfLines, SameKey, SameLineKey, LastOfKey
<1>4. CASE a = "Delete"
  <2>1. \A s \in Written(table, a, rows) : ~SameKey(r, s)
    BY <1>4, WrittenAs DEF Remove
  <2>2. \A s \in Written(table, a, rows) : s.key # LineAt(f, m).key
    BY <1>2, <2>1 DEF SameKey
  <2> HIDE DEF m
  <2>3. Done(f, Written(table, a, rows), m)
    BY <1>2, <1>4, <2>2 DEF Done
  <2> QED
    BY <2>3 DEF m
<1>5. CASE a = "Insert"
  <2>1. r \in FirstPerKey(rows)
    <3>1. ASSUME NEW q \in DOMAIN rows, q < p, SameKey(rows[q], r)
          PROVE  FALSE
      <4>1. rows[q].of[2] < m[2]
        BY <1>1, <3>1 DEF RowsOfLines
      <4>2. LineAt(f, m).action = "Update"
        BY <1>2, <1>3, <3>1, <4>1, OrderlyLine
      <4> QED
        BY <1>2, <1>5, <4>2
    <3> QED
      BY <1>1, <3>1 DEF FirstPerKey
  <2>2. CASE \A s \in table : ~Clash(r, s)
    <3>1. r \in Written(table, a, rows)
      BY <1>5, <2>1, <2>2 DEF Written, Insert
    <3> QED
      BY <1>2, <1>5, <3>1 DEF Done
  <2>3. ASSUME NEW s \in table, Clash(r, s)
        PROVE  Done(f, Written(table, a, rows), m)
    <3>1. s.key = r.key
      BY <1>5, <2>3 DEF Clash, SameKey
    <3>2. s.key = LineAt(f, s.of).key /\ s.of \in Before(f, n) \cup OfArchive(f, n)
      BY DEF Content
    <3>3. SameLineKey(f, m, s.of)
      BY <1>2, <3>1, <3>2 DEF SameLineKey
    <3>4. s.of \in OfArchive(f, n)
      BY <1>2, <1>5, <3>2, <3>3, OrderlyLine
    <3>5. s.of[2] <= m[2] /\ s.of[2] \in Nat /\ s.of = <<n, s.of[2]>> /\ m = <<n, m[2]>>
      BY <1>2, <3>3, <3>4, LineOfArchive DEF LastOfKey
    <3>6. ~(s.of[2] < m[2])
      BY <1>2, <1>5, <3>3, <3>4, OrderlyLine
    <3>7. s.of = m
      BY <1>2, <3>5, <3>6
    <3>8. s \in Written(table, a, rows)
      BY <1>5 DEF Written, Insert
    <3> QED
      BY <1>2, <1>5, <3>7, <3>8 DEF Done
  <2> QED
    BY <2>2, <2>3
<1>6. CASE a = "Update"
  <2>1. r \in LastPerKey(rows)
    <3>1. ASSUME NEW q \in DOMAIN rows, q > p, SameKey(rows[q], r)
          PROVE  FALSE
      <4>1. m[2] < rows[q].of[2]
        BY <1>1, <1>2, <1>3, <3>1 DEF RowsOfLines
      <4> QED
        BY <1>2, <1>3, <3>1, <4>1
    <3> QED
      BY <1>1, <3>1 DEF LastPerKey
  <2>2. \A s \in Remove(table, rows) : ~Clash(r, s)
    BY <1>6 DEF Remove, Clash, SameKey
  <2>3. r \in Written(table, a, rows)
    BY <1>6, <2>1, <2>2 DEF Written, Replace
  <2> QED
    BY <1>2, <1>6, <2>3 DEF Done
<1> QED
  BY <1>4, <1>5, <1>6 DEF Actions

\* And what a line has done a later write leaves, unless it writes an earlier line of
\* the same action.
LEMMA WrittenLeaves ==
    ASSUME OrderlyFeed, NEW n \in Archive, NEW f \in Files, NEW a \in Actions, NEW table,
           NEW rows \in Seq(Row), RowsOfLines(f, n, a, rows),
           Content(f, table, Before(f, n), OfArchive(f, n)),
           NEW m \in OfArchive(f, n), LastOfKey(f, m), Done(f, table, m),
           \A r \in RowsOf(rows) : r.of # m /\ ~(r.of[2] < m[2] /\ LineAt(f, m).action = a)
    PROVE  Done(f, Written(table, a, rows), m)
<1>1. m = <<n, m[2]>> /\ m[1] = n /\ m[2] \in Nat
  BY LineOfArchive
<1>2. ASSUME NEW r \in RowsOf(rows), r.key = LineAt(f, m).key
      PROVE  /\ a # "Delete" /\ a # "Update" /\ LineAt(f, m).action = "Update"
  <2>1. PICK p \in DOMAIN rows : r = rows[p]
    BY DEF RowsOf
  <2>2. /\ r.of \in OfArchive(f, n) /\ LineAt(f, r.of).action = a
        /\ SameLineKey(f, m, r.of) /\ r.of # m
    BY <1>2, <2>1 DEF RowsOfLines, SameLineKey
  <2>3. r.of[2] <= m[2] /\ r.of = <<n, r.of[2]>> /\ r.of[2] \in Nat
    BY <1>1, <2>2, LineOfArchive DEF LastOfKey
  <2>4. r.of[2] < m[2]
    BY <1>1, <2>2, <2>3
  <2>5. LineAt(f, m).action = "Update" /\ a # "Delete"
    BY <2>2, <2>4, OrderlyLine
  <2> QED
    BY <2>4, <2>5
<1>3. CASE LineAt(f, m).action = "Delete"
  <2>1. \A s \in Written(table, a, rows) : s \in table \/ s \in RowsOf(rows)
    BY WrittenRows
  <2> QED
    BY <1>2, <1>3, <2>1 DEF Done
<1>4. CASE LineAt(f, m).action # "Delete"
  <2>1. PICK s \in table : s.of = m /\ s.key = LineAt(f, m).key
    BY <1>4 DEF Done, Content
  <2>2. s \in Written(table, a, rows)
    <3>1. CASE a = "Insert"
      BY <3>1 DEF Written, Insert
    <3>2. CASE a # "Insert"
      <4>1. \A r \in RowsOf(rows) : ~SameKey(r, s)
        BY <1>2, <2>1, <3>2 DEF SameKey, Actions
      <4>2. s \in Remove(table, rows)
        BY <2>1, <4>1 DEF Remove
      <4>3. a = "Delete" => s \in Written(table, a, rows)
        BY <4>2, WrittenAs
      <4>4. a = "Update" => s \in Written(table, a, rows)
        BY <4>2, WrittenAs DEF Replace
      <4> QED
        BY <3>2, <4>3, <4>4 DEF Actions
    <3> QED
      BY <3>1, <3>2
  <2> QED
    BY <1>4, <2>1, <2>2 DEF Done
<1> QED
  BY <1>3, <1>4

-----------------------------------------------------------------------------
(* What waits to be written *)

\* The files whose schedules have no action to read only ever insert.
LEMMA ActionIsTheLines ==
    ASSUME OnlyInserted, NEW n \in Archive, NEW f \in Files, NEW i \in DOMAIN Archives[n].lines[f]
    PROVE  ActionOf(f, Archives[n].lines[f][i]) = Archives[n].lines[f][i].action
  BY DEF OnlyInserted, ActionOf, Archive

\* The rows that wait for a file's schedule table, of each action: in the order of
\* their lines, in the buffer or in flight, and from some line on all that were read.
QueueOf(f, a) ==
    LET t == <<f, "schedule">>
    IN  /\ RowsOfLines(f, next, a, buffer[t][a]) /\ RowsOfLines(f, next, a, inflight[t][a])
        /\ buffer[t][a] = << >> \/ inflight[t][a] = << >>
        /\ \A r \in Waiting(t, a) :
              /\ r.of[2] <= at[f]
              /\ \A m \in OfArchive(f, next) :
                    m[2] <= at[f] /\ r.of[2] < m[2] /\ LineAt(f, m).action = a =>
                       \E u \in Waiting(t, a) : u.of = m
Queue(f) == \A a \in Actions : QueueOf(f, a)
InQueue == pc \in {"files", "ending"} => next <= upto /\ \A f \in Files : Queue(f)

\* A step that leaves the rows of a file alone leaves their order.
LEMMA QueueFrame ==
    ASSUME NEW f \in Files, Queue(f), next' = next, at'[f] = at[f],
           buffer'[<<f, "schedule">>] = buffer[<<f, "schedule">>],
           inflight'[<<f, "schedule">>] = inflight[<<f, "schedule">>]
    PROVE  Queue(f)'
  BY DEF Queue, QueueOf, Waiting

\* Where nothing waits nothing is out of order.
LEMMA QuietQueue == Quiet => \A f \in Files : Queue(f)
<1> SUFFICES ASSUME Quiet, NEW f \in Files, NEW a \in Actions
             PROVE  LET t == <<f, "schedule">>
                    IN  /\ buffer[t][a] = << >> /\ inflight[t][a] = << >>
                        /\ RowsOfLines(f, next, a, << >>) /\ Waiting(t, a) = {}
  BY DEF Queue, QueueOf
<1>1. buffer[<<f, "schedule">>][a] = << >> /\ inflight[<<f, "schedule">>][a] = << >>
  BY TableTypes DEF Quiet
<1>2. RowsOfLines(f, next, a, << >>)
  BY DEF RowsOfLines
<1>3. Waiting(<<f, "schedule">>, a) = {}
  BY <1>1, NoRowsOf DEF Waiting
<1> QED
  BY <1>1, <1>2, <1>3

\* Reading a line that is a schedule: its row joins those that wait of its action.
LEMMA ReadSchedule ==
    ASSUME OnlyInserted, IInv, NEW f \in Files, ReadLine(f)
    PROVE  LET t == <<f, "schedule">>
               i == at[f] + 1
               line == LinesOf(f)[i]
               m == <<next, i>>
           IN  /\ next \in Archive /\ i \in DOMAIN LinesOf(f) /\ i \in Nat
               /\ at' = [at EXCEPT ![f] = i] /\ stream[f] = "reading"
               /\ line.table # "schedule" =>
                     /\ m \notin OfArchive(f, next)
                     /\ buffer'[t] = buffer[t] /\ inflight'[t] = inflight[t]
               /\ line.table = "schedule" =>
                     \E a \in Actions, r \in Row :
                        /\ m \in OfArchive(f, next) /\ r.of = m /\ r.key = LineAt(f, m).key
                        /\ LineAt(f, m).action = a
                        /\ inflight[t][a] = << >>
                        /\ \/ /\ buffer'[t][a] = Append(buffer[t][a], r)
                              /\ inflight'[t][a] = << >>
                           \/ /\ buffer'[t][a] = << >>
                              /\ inflight'[t][a] = Append(buffer[t][a], r)
                        /\ \A b \in Actions \ {a} :
                              buffer'[t][b] = buffer[t][b] /\ inflight'[t][b] = inflight[t][b]
<1> DEFINE s == <<f, "schedule">>
           i == at[f] + 1
           line == LinesOf(f)[i]
           m == <<next, i>>
           t == <<f, line.table>>
           a == ActionOf(f, line)
           id == IF a = "Delete" THEN 0 ELSE lastId[t] + 1
           r == RowOf(f, i, id)
           rows == Append(buffer[t][a], r)
<1>1. /\ pc = "files" /\ stream[f] = "reading" /\ at[f] < Len(LinesOf(f))
      /\ at' = [at EXCEPT ![f] = i]
      /\ \/ /\ buffer' = [buffer EXCEPT ![t][a] = rows]
            /\ UNCHANGED inflight
         \/ /\ buffer' = [buffer EXCEPT ![t][a] = << >>]
            /\ inflight' = [inflight EXCEPT ![t][a] = rows]
  BY DEF ReadLine
<1>2. next \in Archive /\ i \in DOMAIN LinesOf(f) /\ i \in Nat /\ i \in 1..Len(LinesOf(f))
  <2>1. next \in Archive
    BY <1>1, TableTypes DEF IInv, TypeInv, TypeOK, InRange, Importing
  <2>2. LinesOf(f) \in Seq(Line) /\ at[f] \in Nat
    BY <2>1, ArchiveTypes DEF LinesOf, IInv, TypeInv, TypeOK
  <2>3. Len(LinesOf(f)) \in Nat /\ DOMAIN LinesOf(f) = 1..Len(LinesOf(f))
    BY <2>2
  <2>4. at[f] + 1 \in 1..Len(LinesOf(f))
    <3>1. at[f] < Len(LinesOf(f))
      BY <1>1
    <3> QED
      BY <2>2, <2>3, <3>1
  <2>5. i = at[f] + 1 /\ at[f] + 1 \in Nat
    BY <2>2
  <2> HIDE DEF i
  <2> QED
    BY <2>1, <2>3, <2>4, <2>5
<1>3. t \in Tables /\ s \in Tables /\ a \in Actions /\ id \in Nat
  <2>1. t \in Tables /\ a \in Actions
    BY <1>1, <1>2, RowType DEF IInv
  <2>2. lastId[t] \in Nat
    BY <2>1 DEF IInv, TypeInv, TypeOK
  <2>3. s \in Tables
    BY TableTypes
  <2> HIDE DEF t, a, s
  <2> QED
    BY <2>1, <2>2, <2>3
<1>4. r \in Row
  <2> HIDE DEF i, id
  <2> QED
    BY <1>1, <1>2, <1>3, RowType DEF IInv
<1>5. /\ buffer \in [Tables -> [Actions -> Seq(Row)]]
      /\ inflight \in [Tables -> [Actions -> Seq(Row)]]
  BY DEF IInv, TypeInv, TypeOK
<1>6. \A b \in Actions : inflight[s][b] = << >>
  BY <1>1, <1>3 DEF IInv, Shape, FileShape, TablesOf
<1>7. m \in OfArchive(f, next) <=> line.table = "schedule"
  BY <1>2 DEF OfArchive, LinesOf
<1>8. ASSUME line.table # "schedule"
      PROVE  buffer'[s] = buffer[s] /\ inflight'[s] = inflight[s]
  <2>1. t # s
    BY <1>8
  <2> HIDE DEF t, a, rows, s
  <2> QED
    BY <1>1, <1>3, <1>5, <2>1
<1>9. ASSUME line.table = "schedule"
      PROVE  /\ r.of = m /\ r.key = LineAt(f, m).key /\ LineAt(f, m).action = a
             /\ t = s
  <2>1. LineAt(f, m) = line /\ LinesOf(f) = Archives[next].lines[f]
    BY DEF LineAt, LinesOf
  <2>2. OwnerLine(LinesOf(f), i) = i
    BY <1>2, <1>9, OwnLine DEF LinesOf
  <2>3. a = line.action
    BY <1>2, <2>1, ActionIsTheLines
  <2> QED
    BY <1>9, <2>1, <2>2, <2>3 DEF RowOf
<1>10. ASSUME line.table = "schedule"
       PROVE  /\ \/ buffer'[s][a] = rows /\ inflight'[s][a] = << >>
                 \/ buffer'[s][a] = << >> /\ inflight'[s][a] = rows
              /\ \A b \in Actions \ {a} :
                    buffer'[s][b] = buffer[s][b] /\ inflight'[s][b] = inflight[s][b]
  <2>1. t = s
    BY <1>9, <1>10
  <2> HIDE DEF t, a, rows, s
  <2> QED
    BY <1>1, <1>3, <1>5, <1>6, <2>1
<1>11. ASSUME line.table = "schedule"
       PROVE  rows = Append(buffer[s][a], r)
  BY <1>9, <1>11
<1> HIDE DEF a, r, rows, t, s, line, id, m
<1>12. ASSUME line.table = "schedule"
       PROVE  \E b \in Actions, u \in Row :
                 /\ m \in OfArchive(f, next) /\ u.of = m /\ u.key = LineAt(f, m).key
                 /\ LineAt(f, m).action = b
                 /\ inflight[s][b] = << >>
                 /\ \/ buffer'[s][b] = Append(buffer[s][b], u) /\ inflight'[s][b] = << >>
                    \/ buffer'[s][b] = << >> /\ inflight'[s][b] = Append(buffer[s][b], u)
                 /\ \A c \in Actions \ {b} :
                       buffer'[s][c] = buffer[s][c] /\ inflight'[s][c] = inflight[s][c]
  <2>1. m \in OfArchive(f, next)
    BY <1>7, <1>12
  <2>2. r.of = m /\ r.key = LineAt(f, m).key /\ LineAt(f, m).action = a
    BY <1>9, <1>12
  <2>3. /\ \/ buffer'[s][a] = Append(buffer[s][a], r) /\ inflight'[s][a] = << >>
           \/ buffer'[s][a] = << >> /\ inflight'[s][a] = Append(buffer[s][a], r)
        /\ \A c \in Actions \ {a} :
              buffer'[s][c] = buffer[s][c] /\ inflight'[s][c] = inflight[s][c]
    BY <1>10, <1>11, <1>12
  <2>4. a \in Actions /\ r \in Row /\ inflight[s][a] = << >>
    BY <1>3, <1>4, <1>6
  <2> QED
    BY <2>1, <2>2, <2>3, <2>4
<1> QED
  BY <1>1, <1>2, <1>7, <1>8, <1>12 DEF m, s, line

\* A row joins rows of earlier lines.
LEMMA RowsOfLinesAppend ==
    ASSUME NEW n \in Archive, NEW f \in Files, NEW a, NEW rows \in Seq(Row), NEW r \in Row,
           RowsOfLines(f, n, a, rows),
           r.of \in OfArchive(f, n), LineAt(f, r.of).action = a, r.key = LineAt(f, r.of).key,
           \A u \in RowsOf(rows) : u.of[2] < r.of[2]
    PROVE  RowsOfLines(f, n, a, Append(rows, r))
<1> DEFINE more == Append(rows, r)
<1>1. /\ Len(rows) \in Nat /\ DOMAIN rows = 1..Len(rows) /\ DOMAIN more = 1..(Len(rows) + 1)
      /\ \A p \in DOMAIN rows : more[p] = rows[p]
      /\ more[Len(rows) + 1] = r
  OBVIOUS
<1> HIDE DEF more
<1>2. \A p \in DOMAIN more : (p \in DOMAIN rows /\ more[p] = rows[p]) \/ (p = Len(rows) + 1 /\ more[p] = r)
  BY <1>1
<1>3. \A p \in DOMAIN rows : rows[p].of[2] < r.of[2]
  BY DEF RowsOf
<1>4. ASSUME NEW p \in DOMAIN more
      PROVE  /\ more[p].of \in OfArchive(f, n) /\ LineAt(f, more[p].of).action = a
             /\ more[p].key = LineAt(f, more[p].of).key
  BY <1>2 DEF RowsOfLines
<1>5. ASSUME NEW p \in DOMAIN more, NEW q \in DOMAIN more, p < q
      PROVE  more[p].of[2] < more[q].of[2]
  <2>1. p \in DOMAIN rows /\ more[p] = rows[p]
    BY <1>1, <1>2, <1>5
  <2>2. CASE q \in DOMAIN rows
    BY <1>1, <1>5, <2>1, <2>2 DEF RowsOfLines
  <2>3. CASE q \notin DOMAIN rows
    BY <1>2, <1>3, <2>1, <2>3
  <2> QED
    BY <2>2, <2>3
<1> QED
  BY <1>4, <1>5 DEF RowsOfLines, more

\* The rows that wait are of lines of the archive that were read.
LEMMA WaitingRows ==
    ASSUME NEW f \in Files, Queue(f), next \in Archive, NEW a \in Actions,
           NEW r \in Waiting(<<f, "schedule">>, a)
    PROVE  /\ r.of \in OfArchive(f, next) /\ LineAt(f, r.of).action = a
           /\ r.of = <<next, r.of[2]>> /\ r.of[2] \in Nat /\ r.of[2] <= at[f]
<1> DEFINE t == <<f, "schedule">>
<1>1. /\ RowsOfLines(f, next, a, buffer[t][a]) /\ RowsOfLines(f, next, a, inflight[t][a])
      /\ r.of[2] <= at[f]
  BY DEF Queue, QueueOf
<1>2. r.of \in OfArchive(f, next) /\ LineAt(f, r.of).action = a
  <2>1. CASE r \in RowsOf(buffer[t][a])
    BY <1>1, <2>1 DEF RowsOf, RowsOfLines
  <2>2. CASE r \in RowsOf(inflight[t][a])
    BY <1>1, <2>2 DEF RowsOf, RowsOfLines
  <2> QED
    BY <2>1, <2>2 DEF Waiting
<1> QED
  BY <1>1, <1>2, LineOfArchive

\* Reading a line keeps the queue of its file.
LEMMA QueueRead ==
    ASSUME OnlyInserted, IInv, NEW f \in Files, ReadLine(f), Queue(f)
    PROVE  Queue(f)'
<1> DEFINE t == <<f, "schedule">>
           i == at[f] + 1
           n == <<next, i>>
<1>0. /\ buffer \in [Tables -> [Actions -> Seq(Row)]] /\ t \in Tables
      /\ at \in [Files -> Nat]
  BY TableTypes DEF IInv, TypeInv, TypeOK
<1>1. /\ next \in Archive /\ i \in Nat /\ at'[f] = i /\ next' = next
  BY <1>0, ReadSchedule DEF ReadLine
<1>2. ASSUME NEW m \in OfArchive(f, next), m[2] <= i, m # n
      PROVE  m[2] <= at[f]
  <2>1. m = <<next, m[2]>> /\ m[2] \in Nat
    BY <1>1, LineOfArchive
  <2> QED
    BY <1>0, <1>1, <1>2, <2>1
<1>3. ASSUME NEW b \in Actions, buffer'[t][b] = buffer[t][b], inflight'[t][b] = inflight[t][b],
             n \in OfArchive(f, next) => LineAt(f, n).action # b
      PROVE  QueueOf(f, b)'
  <2>1. Waiting(t, b)' = Waiting(t, b)
    BY <1>3 DEF Waiting
  <2>2. ASSUME NEW r \in Waiting(t, b)
        PROVE  r.of[2] <= i
    BY <1>0, <1>1, WaitingRows
  <2>3. ASSUME NEW r \in Waiting(t, b), NEW m \in OfArchive(f, next),
               m[2] <= i, r.of[2] < m[2], LineAt(f, m).action = b
        PROVE  \E u \in Waiting(t, b) : u.of = m
    <3>1. m[2] <= at[f]
      BY <1>2, <1>3, <2>3
    <3> QED
      BY <2>3, <3>1 DEF Queue, QueueOf
  <2>4. /\ RowsOfLines(f, next, b, buffer'[t][b]) /\ RowsOfLines(f, next, b, inflight'[t][b])
        /\ buffer'[t][b] = << >> \/ inflight'[t][b] = << >>
    BY <1>3 DEF Queue, QueueOf
  <2> HIDE DEF i
  <2> QED
    BY <1>1, <2>1, <2>2, <2>3, <2>4 DEF QueueOf
<1>4. CASE LinesOf(f)[i].table # "schedule"
  <2>1. n \notin OfArchive(f, next) /\ buffer'[t] = buffer[t] /\ inflight'[t] = inflight[t]
    BY <1>4, ReadSchedule
  <2> QED
    BY <1>1, <1>3, <2>1 DEF Queue
<1>5. CASE LinesOf(f)[i].table = "schedule"
  <2>1. PICK a \in Actions, r \in Row :
           /\ n \in OfArchive(f, next) /\ r.of = n /\ r.key = LineAt(f, n).key
           /\ LineAt(f, n).action = a
           /\ inflight[t][a] = << >>
           /\ \/ /\ buffer'[t][a] = Append(buffer[t][a], r)
                 /\ inflight'[t][a] = << >>
              \/ /\ buffer'[t][a] = << >>
                 /\ inflight'[t][a] = Append(buffer[t][a], r)
           /\ \A b \in Actions \ {a} :
                 buffer'[t][b] = buffer[t][b] /\ inflight'[t][b] = inflight[t][b]
    BY <1>5, ReadSchedule
  <2> DEFINE old == buffer[t][a]
             rows == Append(old, r)
  <2>2. old \in Seq(Row) /\ RowsOf(rows) = RowsOf(old) \cup {r} /\ Waiting(t, a) = RowsOf(old)
    <3>1. old \in Seq(Row)
      BY <1>0
    <3> HIDE DEF old
    <3>2. RowsOf(rows) = RowsOf(old) \cup {r}
      BY <3>1, AppendedRows
    <3>3. Waiting(t, a) = RowsOf(old)
      BY <2>1, NoRowsOf DEF Waiting, old
    <3> QED
      BY <3>1, <3>2, <3>3
  <2> HIDE DEF old, rows
  <2>3. Waiting(t, a)' = RowsOf(old) \cup {r}
    BY <2>1, <2>2, NoRowsOf DEF Waiting, rows, old
  <2>4. RowsOfLines(f, next, a, rows) /\ RowsOfLines(f, next, a, << >>)
    <3>1. RowsOfLines(f, next, a, old)
      BY DEF Queue, QueueOf, old
    <3>2. ASSUME NEW u \in RowsOf(old)
          PROVE  u.of[2] < r.of[2]
      <4>1. u.of[2] \in Nat /\ u.of[2] <= at[f] /\ r.of[2] = i
        BY <1>1, <2>1, <2>2, WaitingRows
      <4> QED
        BY <1>0, <4>1
    <3>3. RowsOfLines(f, next, a, rows)
      BY <1>1, <2>1, <2>2, <3>1, <3>2, RowsOfLinesAppend DEF rows
    <3> QED
      BY <3>3 DEF RowsOfLines
  <2>5. ASSUME NEW u \in Waiting(t, a)'
        PROVE  /\ u.of[2] <= i
               /\ \A m \in OfArchive(f, next) :
                     m[2] <= i /\ u.of[2] < m[2] /\ LineAt(f, m).action = a =>
                        \E v \in Waiting(t, a)' : v.of = m
    <3>1. CASE u = r
      <4>1. u.of[2] = i
        BY <2>1, <3>1
      <4>2. \A m \in OfArchive(f, next) : m[2] \in Nat
        BY <1>1, LineOfArchive
      <4> HIDE DEF i
      <4> QED
        BY <1>1, <4>1, <4>2
    <3>2. CASE u \in RowsOf(old)
      <4>1. u \in Waiting(t, a) /\ u.of[2] \in Nat /\ u.of[2] <= at[f]
        BY <1>1, <2>2, <3>2, WaitingRows
      <4>2. u.of[2] <= i
        BY <1>0, <4>1
      <4>3. ASSUME NEW m \in OfArchive(f, next), m[2] <= i, u.of[2] < m[2], LineAt(f, m).action = a
            PROVE  \E v \in Waiting(t, a)' : v.of = m
        <5>1. CASE m = n
          BY <2>1, <2>3, <5>1
        <5>2. CASE m # n
          <6>1. m[2] <= at[f]
            BY <1>2, <4>3, <5>2
          <6>2. \E v \in Waiting(t, a) : v.of = m
            BY <4>1, <4>3, <6>1 DEF Queue, QueueOf
          <6> QED
            BY <2>2, <2>3, <6>2
        <5> QED
          BY <5>1, <5>2
      <4> QED
        BY <4>2, <4>3
    <3> QED
      BY <2>3, <3>1, <3>2
  <2>6. /\ RowsOfLines(f, next, a, buffer'[t][a]) /\ RowsOfLines(f, next, a, inflight'[t][a])
        /\ buffer'[t][a] = << >> \/ inflight'[t][a] = << >>
    BY <2>1, <2>4 DEF rows, old
  <2> HIDE DEF i
  <2>7. QueueOf(f, a)'
    BY <1>1, <2>5, <2>6 DEF QueueOf
  <2> USE DEF i
  <2>8. \A b \in Actions \ {a} : QueueOf(f, b)'
    BY <1>3, <2>1
  <2> QED
    BY <2>7, <2>8 DEF Queue
<1> QED
  BY <1>4, <1>5

\* Closing its tables moves what a file has buffered, in its order.
LEMMA QueueClosed ==
    ASSUME IInv, NEW f \in Files, CloseTables(f)
    PROVE  /\ \A a \in Actions : LET t == <<f, "schedule">>
                                 IN  /\ inflight[t][a] = << >> /\ inflight'[t][a] = buffer[t][a]
                                     /\ buffer'[t][a] = << >>
                                     /\ Waiting(t, a)' = Waiting(t, a)
           /\ Queue(f) => Queue(f)'
<1> DEFINE t == <<f, "schedule">>
<1>1. /\ pc = "files" /\ stream[f] = "reading" /\ t \in Tables /\ t \in TablesOf(f)
      /\ inflight'[t] = buffer[t] /\ buffer'[t] = NoRows[t]
      /\ next' = next /\ at' = at
  BY TableTypes DEF CloseTables, TablesOf
<1>2. \A a \in Actions : inflight[t][a] = << >> /\ NoRows[t][a] = << >>
  BY <1>1 DEF IInv, Shape, FileShape, NoRows
<1>3. \A a \in Actions : inflight'[t][a] = buffer[t][a] /\ buffer'[t][a] = << >>
  BY <1>1, <1>2
<1>4. \A a \in Actions : Waiting(t, a)' = Waiting(t, a)
  BY <1>2, <1>3, NoRowsOf DEF Waiting
<1>5. ASSUME Queue(f), NEW a \in Actions
      PROVE  QueueOf(f, a)'
  <2>1. QueueOf(f, a)
    BY <1>5 DEF Queue
  <2>2. RowsOfLines(f, next, a, << >>)
    BY DEF RowsOfLines
  <2> QED
    BY <1>1, <1>3, <1>4, <2>1, <2>2 DEF QueueOf
<1> QED
  BY <1>2, <1>3, <1>4, <1>5 DEF Queue

\* A write that ends, well or not, was all that waited of its action.
LEMMA QueueWritten ==
    ASSUME IInv, NEW t \in Tables, NEW a \in Actions, Commit(t, a) \/ WriteFails(t, a)
    PROVE  /\ next' = next /\ at' = at /\ pc' = pc /\ pc \in {"files", "ending"}
           /\ \A f \in Files : LET s == <<f, "schedule">>
                               IN  Queue(f) => /\ Queue(f)'
                                               /\ t # s => buffer'[s] = buffer[s] /\ inflight'[s] = inflight[s]
                                               /\ t = s => /\ Waiting(s, a)' = {}
                                                           /\ Waiting(s, a) = RowsOf(inflight[s][a])
                                                           /\ \A b \in Actions \ {a} : Waiting(s, b)' = Waiting(s, b)
<1>1. /\ inflight[t][a] # << >> /\ inflight' = [inflight EXCEPT ![t][a] = << >>]
      /\ UNCHANGED <<pc, next, at, buffer>>
  BY DEF Commit, WriteFails
<1>2. pc \in {"files", "ending"}
  BY <1>1 DEF IInv, Shape, Quiet
<1>3. inflight \in [Tables -> [Actions -> Seq(Row)]]
  BY DEF IInv, TypeInv, TypeOK
<1>4. ASSUME NEW f \in Files, Queue(f)
      PROVE  LET s == <<f, "schedule">>
             IN  /\ Queue(f)'
                 /\ t # s => buffer'[s] = buffer[s] /\ inflight'[s] = inflight[s]
                 /\ t = s => /\ Waiting(s, a)' = {}
                             /\ Waiting(s, a) = RowsOf(inflight[s][a])
                             /\ \A b \in Actions \ {a} : Waiting(s, b)' = Waiting(s, b)
  <2> DEFINE s == <<f, "schedule">>
  <2>0. s \in Tables
    BY TableTypes
  <2>1. CASE t # s
    <3>1. buffer'[s] = buffer[s] /\ inflight'[s] = inflight[s]
      BY <1>1, <1>3, <2>0, <2>1
    <3>2. Queue(f)'
      BY <1>1, <1>4, <3>1, QueueFrame
    <3> QED
      BY <2>1, <3>1, <3>2
  <2>2. CASE t = s
    <3>1. buffer[s][a] = << >>
      BY <1>1, <1>4, <2>2 DEF Queue, QueueOf
    <3>2. /\ buffer' = buffer /\ inflight'[s][a] = << >>
          /\ \A b \in Actions \ {a} : inflight'[s][b] = inflight[s][b]
      BY <1>1, <1>3, <2>2
    <3>3. /\ Waiting(s, a)' = {} /\ Waiting(s, a) = RowsOf(inflight[s][a])
          /\ \A b \in Actions \ {a} : Waiting(s, b)' = Waiting(s, b)
      BY <3>1, <3>2, NoRowsOf DEF Waiting
    <3>4. RowsOfLines(f, next, a, << >>)
      BY DEF RowsOfLines
    <3>5. QueueOf(f, a)'
      BY <1>1, <3>1, <3>2, <3>3, <3>4 DEF QueueOf
    <3>6. \A b \in Actions \ {a} : QueueOf(f, b)'
      BY <1>1, <1>4, <3>2, <3>3 DEF Queue, QueueOf
    <3> QED
      BY <2>2, <3>3, <3>5, <3>6 DEF Queue
  <2> QED
    BY <2>1, <2>2
<1> QED
  BY <1>1, <1>2, <1>4

\* What one file does to its own rows, it does not to another's.
LEMMA OtherFiles ==
    ASSUME IInv, NEW f \in Files, NEW g \in Files, g # f,
           ReadLine(f) \/ CloseTables(f)
    PROVE  LET t == <<g, "schedule">>
           IN  buffer'[t] = buffer[t] /\ inflight'[t] = inflight[t] /\ at'[g] = at[g] /\ next' = next
<1> DEFINE t == <<g, "schedule">>
<1>1. t \in Tables /\ t[1] # f /\ at \in [Files -> Nat]
  BY TableTypes DEF IInv, TypeInv, TypeOK
<1>2. CASE ReadLine(f)
  <2>1. PICK s \in Tables, a \in Actions, id \in Nat, rows \in Seq(Row) :
           ReadAs(f, s, a, id, rows)
    BY <1>2, ReadLineAs DEF IInv
  <2>2. /\ s # t
        /\ UNCHANGED inflight \/ inflight' = [inflight EXCEPT ![s][a] = rows]
        /\ \/ buffer' = [buffer EXCEPT ![s][a] = rows]
           \/ buffer' = [buffer EXCEPT ![s][a] = << >>]
        /\ at' = [at EXCEPT ![f] = at[f] + 1] /\ next' = next
    BY <1>1, <2>1 DEF ReadAs
  <2>3. /\ buffer \in [Tables -> [Actions -> Seq(Row)]]
        /\ inflight \in [Tables -> [Actions -> Seq(Row)]]
    BY DEF IInv, TypeInv, TypeOK
  <2> HIDE DEF t
  <2> QED
    BY <1>1, <2>2, <2>3 DEF t
<1>3. CASE CloseTables(f)
  BY <1>1, <1>3 DEF CloseTables
<1> QED
  BY <1>2, <1>3

\* Every step keeps the rows that wait in the order of their lines.
LEMMA InQueueStep ==
    ASSUME OnlyInserted, IInv, IInv', InQueue, [Next]_vars
    PROVE  InQueue'
<1> USE TableTypes
<1>1. CASE pc' \notin {"files", "ending"}
  BY <1>1 DEF InQueue
<1>2. CASE /\ pc \in {"files", "ending"} /\ UNCHANGED <<next, upto>>
           /\ \A f \in Files : Queue(f) => Queue(f)'
  BY <1>2 DEF InQueue
<1>3. CASE UNCHANGED <<next, upto, at, buffer, inflight>> /\ pc \in {"files", "ending"}
  <2>1. \A f \in Files : Queue(f) => Queue(f)'
    BY <1>3, QueueFrame
  <2> QED
    BY <1>2, <1>3, <2>1
<1>4. CASE RestoreIds
  <2>1. Quiet /\ UNCHANGED <<buffer, inflight, next, upto>> /\ next <= upto
    BY <1>4 DEF RestoreIds, IInv, Shape, TypeInv, InRange, Importing
  <2>2. Quiet'
    BY <2>1 DEF Quiet
  <2>3. (\A f \in Files : Queue(f))'
    BY <2>2, QuietQueue, PTL
  <2>4. next' <= upto'
    BY <2>1
  <2> QED
    BY <2>3, <2>4 DEF InQueue
<1>5. CASE \/ Start \/ StartUnsure \/ Begin \/ Dropped \/ Created \/ Swept
           \/ UpdateLastFile \/ End \/ Crash
  BY <1>1, <1>5 DEF Start, StartUnsure, Begin, Dropped, Created, Swept, UpdateLastFile,
                    End, Crash, Gone, NoProcess
<1>6. CASE FilesSettled
  BY <1>3, <1>6 DEF FilesSettled
<1>7. CASE Publish \/ ImportOther \/ UNCHANGED vars
  <2>1. UNCHANGED <<pc, next, upto, at, buffer, inflight>>
    BY <1>7 DEF Publish, ImportOther, vars, process
  <2> QED
    BY <1>1, <1>3, <2>1
<1>8. ASSUME NEW t \in Tables, DropTable(t) \/ CreateTable(t)
      PROVE  InQueue'
  BY <1>1, <1>8 DEF DropTable, CreateTable, process
<1>9. ASSUME NEW f \in Files, RefuseLine(f) \/ Closed(f)
      PROVE  InQueue'
  BY <1>3, <1>9 DEF RefuseLine, Closed
<1>10. ASSUME NEW f \in Files, Sweep(f)
       PROVE  InQueue'
  BY <1>1, <1>10 DEF Sweep
<1>11. ASSUME NEW f \in Files, ReadLine(f) \/ CloseTables(f)
       PROVE  InQueue'
  <2>1. pc \in {"files", "ending"} /\ UNCHANGED <<next, upto>>
    BY <1>11 DEF ReadLine, CloseTables
  <2>2. ASSUME NEW g \in Files, Queue(g)
        PROVE  Queue(g)'
    <3>1. CASE g = f
      BY <1>11, <2>2, <3>1, QueueRead, QueueClosed
    <3>2. CASE g # f
      BY <1>11, <2>2, <3>2, OtherFiles, QueueFrame
    <3> QED
      BY <3>1, <3>2
  <2> QED
    BY <1>2, <2>1, <2>2
<1>12. ASSUME NEW t \in Tables, NEW a \in Actions, Commit(t, a) \/ WriteFails(t, a)
       PROVE  InQueue'
  <2>1. UNCHANGED <<next, upto>>
    BY <1>12 DEF Commit, WriteFails
  <2>2. pc \in {"files", "ending"} /\ \A f \in Files : Queue(f) => Queue(f)'
    BY <1>12, QueueWritten
  <2> QED
    BY <1>2, <2>1, <2>2
<1> QED
  BY <1>4, <1>5, <1>6, <1>7, <1>8, <1>9, <1>10, <1>11, <1>12 DEF Next, Work, Fault

-----------------------------------------------------------------------------
(* What an import does to the schedules *)

\* Only a reset of the schema and a write change them.
LEMMA SchedulesKept ==
    ASSUME IInv, [Next]_vars
    PROVE  \/ \A f \in Files : Schedules(f)' = Schedules(f)
           \/ \E t \in Tables : DropTable(t)
           \/ \E f \in Files, a \in Actions : Commit(<<f, "schedule">>, a)
<1> USE TableTypes
<1>0. stored \in [Tables -> SUBSET Row]
  BY DEF IInv, TypeInv, TypeOK
<1>1. CASE \/ Start \/ StartUnsure \/ Begin \/ Dropped \/ Created \/ RestoreIds
           \/ FilesSettled \/ Swept \/ UpdateLastFile \/ End \/ Crash
           \/ Publish \/ ImportOther \/ UNCHANGED vars
  <2>1. UNCHANGED stored
    BY <1>1 DEF Start, StartUnsure, Begin, Dropped, Created, RestoreIds, FilesSettled, Swept,
                UpdateLastFile, End, Crash, Gone, Publish, ImportOther, vars, database
  <2> QED
    BY <2>1 DEF Schedules
<1>2. ASSUME NEW t \in Tables, CreateTable(t)
      PROVE  \A f \in Files : Schedules(f)' = Schedules(f)
  BY <1>2 DEF CreateTable, Schedules
<1>3. ASSUME NEW f \in Files, ReadLine(f) \/ CloseTables(f) \/ Closed(f) \/ RefuseLine(f)
      PROVE  \A g \in Files : Schedules(g)' = Schedules(g)
  BY <1>3 DEF ReadLine, CloseTables, Closed, RefuseLine, database, Schedules
<1>4. ASSUME NEW f \in Files, Sweep(f)
      PROVE  \A g \in Files : Schedules(g)' = Schedules(g)
  BY <1>0, <1>4 DEF Sweep, Schedules
<1>5. ASSUME NEW t \in Tables, NEW a \in Actions, WriteFails(t, a)
      PROVE  \A f \in Files : Schedules(f)' = Schedules(f)
  BY <1>5 DEF WriteFails, database, Schedules
<1>6. ASSUME NEW t \in Tables, NEW a \in Actions, Commit(t, a), \A f \in Files : t # <<f, "schedule">>
      PROVE  \A f \in Files : Schedules(f)' = Schedules(f)
  BY <1>0, <1>6 DEF Commit, Schedules
<1> QED
  BY <1>1, <1>2, <1>3, <1>4, <1>5, <1>6 DEF Next, Work, Fault

\* A write of schedules, as the lemmas on tables have it.
LEMMA CommitAs ==
    ASSUME IInv, NEW f \in Files, NEW a \in Actions, Commit(<<f, "schedule">>, a), Queue(f)
    PROVE  LET rows == inflight[<<f, "schedule">>][a]
           IN  /\ rows \in Seq(Row) /\ RowsOfLines(f, next, a, rows)
               /\ Schedules(f)' = Written(Schedules(f), a, rows)
               /\ a # "Delete" => \A r \in RowsOf(rows), s \in Schedules(f) : r.id # s.id
               /\ \A g \in Files \ {f} : Schedules(g)' = Schedules(g)
<1> DEFINE t == <<f, "schedule">>
           rows == inflight[t][a]
<1>1. /\ t \in Tables /\ stored \in [Tables -> SUBSET Row]
      /\ rows \in Seq(Row)
  BY TableTypes DEF IInv, TypeInv, TypeOK
<1>2. stored' = [stored EXCEPT ![t] = Written(stored[t], a, rows)]
  BY DEF Commit
<1>3. RowsOfLines(f, next, a, rows)
  BY DEF Queue, QueueOf
<1>4. a # "Delete" => \A r \in RowsOf(rows), s \in stored[t] : r.id # s.id
  BY <1>1 DEF IInv, IdInv, IdsUnused, Actions
<1>5. \A g \in Files \ {f} : <<g, "schedule">> # t
  OBVIOUS
<1> HIDE DEF t, rows
<1>6. stored'[t] = Written(stored[t], a, rows)
  BY <1>1, <1>2
<1>7. \A g \in Files \ {f} : stored'[<<g, "schedule">>] = stored[<<g, "schedule">>]
  BY <1>1, <1>2, <1>5
<1> QED
  BY <1>1, <1>3, <1>4, <1>6, <1>7 DEF Schedules, t, rows

\* Whatever is written of an archive, the tables stay on their way.
LEMMA CommitContent ==
    ASSUME IInv, InQueue, NEW g \in Files, NEW a \in Actions, Commit(<<g, "schedule">>, a),
           NEW f \in Files, NEW before, Content(f, Schedules(f), before, OfArchive(f, next))
    PROVE  Content(f, Schedules(f)', before, OfArchive(f, next))
<1>1. pc \in {"files", "ending"}
  BY QueueWritten, TableTypes
<1>2. next \in Archive /\ Queue(g)
  BY <1>1, TableTypes DEF InQueue, IInv, TypeInv, TypeOK
<1>3. CASE f = g
  BY <1>2, <1>3, CommitAs, WrittenContent
<1>4. CASE f # g
  BY <1>2, <1>4, CommitAs
<1> QED
  BY <1>3, <1>4

\* A reset leaves nothing of what was there, and only a refresh resets.
Emptied ==
    /\ \A t \in Tables : t \notin schema => stored[t] = {}
    /\ pc = "create" => \A t \in Tables : stored[t] = {}
    /\ pc \in {"files", "sweep", "log"} \/ ~Quiet => schema = Tables
    /\ pc \in {"drop", "create"} => Archives[next].full

\* Every step keeps a dropped table empty.
LEMMA EmptiedStep ==
    ASSUME IInv, IInv', Emptied, [Next]_vars
    PROVE  Emptied'
<1> USE TableTypes DEF Emptied
<1>0. /\ stored \in [Tables -> SUBSET Row] /\ schema \subseteq Tables
      /\ Quiet' \/ pc' \in {"files", "ending"}
      /\ Quiet \/ pc \in {"files", "ending"}
  <2>1. Quiet \/ pc \in {"files", "ending"}
    BY DEF IInv, Shape
  <2>2. Quiet' \/ pc' \in {"files", "ending"}
    BY DEF IInv, Shape
  <2> QED
    BY <2>1, <2>2 DEF IInv, TypeInv, TypeOK
<1>1. CASE /\ UNCHANGED <<schema, stored, next>>
           /\ Quiet' \/ ~Quiet
           /\ pc' = pc \/ pc' \notin {"create", "files", "drop"}
           /\ pc' \in {"sweep", "log"} => pc \in {"files", "sweep", "log"}
  BY <1>0, <1>1
<1>2. CASE Start \/ StartUnsure \/ UpdateLastFile \/ End \/ Crash
  <2>1. /\ UNCHANGED <<schema, stored>> /\ pc' \in {"idle", "next"}
    BY <1>2 DEF Start, StartUnsure, UpdateLastFile, End, Crash, Gone, NoProcess, database
  <2> QED
    BY <1>0, <2>1
<1>3. CASE Begin
  <2>1. /\ UNCHANGED <<schema, stored, next>> /\ pc' \in {"drop", "restore"}
        /\ pc' = "drop" => Archives[next].full
    BY <1>3 DEF Begin, database
  <2> QED
    BY <1>0, <2>1
<1>4. CASE Dropped \/ Created
  <2>1. /\ UNCHANGED <<schema, stored, next>>
        /\ \/ pc = "drop" /\ schema = {} /\ pc' = "create"
           \/ pc = "create" /\ pc' = "restore"
    BY <1>4 DEF Dropped, Created, database
  <2> QED
    BY <1>0, <2>1
<1>5. CASE RestoreIds
  <2>1. /\ UNCHANGED <<schema, stored, next, buffer, inflight>> /\ pc = "restore"
        /\ \/ pc' = "files" /\ schema = Tables
           \/ pc' = "ending"
    BY <1>5 DEF RestoreIds, database
  <2>2. Quiet'
    BY <1>0, <2>1 DEF Quiet
  <2> QED
    BY <2>1, <2>2
<1>6. CASE FilesSettled \/ Swept \/ Publish \/ ImportOther \/ UNCHANGED vars
  <2>1. /\ UNCHANGED <<schema, stored, next, buffer, inflight>>
        /\ \/ pc = "files" /\ pc' \in {"sweep", "ending"}
           \/ pc = "sweep" /\ pc' = "log"
           \/ pc' = pc
    BY <1>6 DEF FilesSettled, Swept, Publish, ImportOther, vars, database, process
  <2>2. Quiet' \/ ~Quiet
    BY <2>1 DEF Quiet
  <2> QED
    BY <1>1, <2>1, <2>2
<1>7. ASSUME NEW t \in Tables, DropTable(t)
      PROVE  Emptied'
  <2>1. /\ pc = "drop" /\ schema' = schema \ {t} /\ stored' = [stored EXCEPT ![t] = {}]
        /\ pc' = pc /\ next' = next
    BY <1>7 DEF DropTable, process
  <2> QED
    BY <1>0, <2>1
<1>8. ASSUME NEW t \in Tables, CreateTable(t)
      PROVE  Emptied'
  <2>1. /\ pc = "create" /\ schema' = schema \cup {t} /\ stored' = stored
        /\ pc' = pc /\ next' = next
    BY <1>8 DEF CreateTable, process
  <2> QED
    BY <1>0, <2>1
<1>9. CASE pc \in {"files", "sweep"} /\ pc' = pc /\ UNCHANGED <<schema, next>>
  BY <1>9
<1>10. ASSUME NEW f \in Files, ReadLine(f) \/ RefuseLine(f) \/ CloseTables(f) \/ Closed(f) \/ Sweep(f)
       PROVE  Emptied'
  BY <1>9, <1>10 DEF ReadLine, RefuseLine, CloseTables, Closed, Sweep, database
<1>11. ASSUME NEW t \in Tables, NEW a \in Actions, Commit(t, a) \/ WriteFails(t, a)
       PROVE  Emptied'
  <2>1. inflight[t][a] # << >> /\ pc' = pc /\ UNCHANGED <<schema, next>>
    BY <1>11 DEF Commit, WriteFails, database
  <2>2. pc \in {"files", "ending"} /\ schema = Tables
    BY <1>0, <2>1 DEF Quiet
  <2> QED
    BY <2>1, <2>2
<1> QED
  BY <1>2, <1>3, <1>4, <1>5, <1>6, <1>7, <1>8, <1>10, <1>11 DEF Next, Work, Fault

\* From a refresh on the tables are on their way from nothing to what it leaves.
Refreshed ==
    pc \in {"restore", "files", "sweep", "log"} /\ Archives[next].full =>
        \A f \in Files : Content(f, Schedules(f), {}, OfArchive(f, next))

\* Every step keeps the tables of a refresh to what the refresh has.
LEMMA RefreshedStep ==
    ASSUME IInv, InQueue, Emptied, Refreshed, [Next]_vars
    PROVE  Refreshed'
<1> USE TableTypes DEF Refreshed
<1>1. CASE pc' \notin {"restore", "files", "sweep", "log"}
  BY <1>1
<1>2. CASE /\ pc \in {"restore", "files", "sweep", "log"} /\ UNCHANGED next
           /\ \A f \in Files : Schedules(f)' = Schedules(f)
  BY <1>2
<1>3. CASE UNCHANGED <<stored, next>> /\ (pc' = pc \/ pc \in {"restore", "files", "sweep", "log"})
  BY <1>1, <1>2, <1>3 DEF Schedules
<1>4. CASE \/ Start \/ StartUnsure \/ Dropped \/ UpdateLastFile \/ End \/ Crash
  BY <1>1, <1>4 DEF Start, StartUnsure, Dropped, UpdateLastFile, End, Crash, Gone, NoProcess
<1>5. CASE Begin
  <2>1. pc' = "drop" \/ ~Archives[next].full
    BY <1>5 DEF Begin
  <2>2. next' = next /\ (pc' = "drop" \/ pc' = "restore")
    BY <1>5 DEF Begin
  <2> QED
    BY <1>1, <2>1, <2>2
<1>6. CASE Created
  <2>1. pc = "create" /\ UNCHANGED <<stored, next>>
    BY <1>6 DEF Created, database
  <2>2. \A f \in Files : Schedules(f)' = {}
    BY <2>1 DEF Emptied, Schedules
  <2>3. \A f \in Files : Content(f, {}, {}, OfArchive(f, next))
    BY DEF Content
  <2> QED
    BY <2>1, <2>2, <2>3
<1>7. CASE RestoreIds \/ FilesSettled \/ Swept \/ Publish \/ ImportOther \/ UNCHANGED vars
  BY <1>3, <1>7 DEF RestoreIds, FilesSettled, Swept, Publish, ImportOther, vars, database, process
<1>8. ASSUME NEW t \in Tables, DropTable(t) \/ CreateTable(t)
      PROVE  Refreshed'
  BY <1>1, <1>8 DEF DropTable, CreateTable, process
<1>9. ASSUME NEW f \in Files, ReadLine(f) \/ RefuseLine(f) \/ CloseTables(f) \/ Closed(f)
      PROVE  Refreshed'
  BY <1>3, <1>9 DEF ReadLine, RefuseLine, CloseTables, Closed, database
<1>10. ASSUME NEW f \in Files, Sweep(f)
       PROVE  Refreshed'
  <2>1. pc' = pc /\ next' = next /\ pc = "sweep"
    BY <1>10 DEF Sweep
  <2>2. \A g \in Files : Schedules(g)' = Schedules(g)
    BY <1>10 DEF Sweep, Schedules, IInv, TypeInv, TypeOK
  <2> QED
    BY <1>2, <2>1, <2>2
<1>11. ASSUME NEW t \in Tables, NEW a \in Actions, Commit(t, a) \/ WriteFails(t, a)
       PROVE  Refreshed'
  <2>1. pc' = pc /\ next' = next /\ pc \in {"files", "ending"}
    BY <1>11, QueueWritten
  <2>2. CASE \A f \in Files : Schedules(f)' = Schedules(f)
    BY <1>1, <1>2, <2>1, <2>2
  <2>3. ASSUME NEW g \in Files, t = <<g, "schedule">>, Commit(t, a), pc = "files", Archives[next].full
        PROVE  \A f \in Files : Content(f, Schedules(f)', {}, OfArchive(f, next))
    BY <2>3, CommitContent
  <2>4. WriteFails(t, a) \/ (\A f \in Files : t # <<f, "schedule">>) => \A f \in Files : Schedules(f)' = Schedules(f)
    <3>1. stored \in [Tables -> SUBSET Row]
      BY DEF IInv, TypeInv, TypeOK
    <3> QED
      BY <1>11, <3>1 DEF Commit, WriteFails, database, Schedules
  <2> QED
    BY <1>11, <2>1, <2>2, <2>3, <2>4
<1> QED
  BY <1>4, <1>5, <1>6, <1>7, <1>8, <1>9, <1>10, <1>11 DEF Next, Work, Fault

-----------------------------------------------------------------------------
(* Where a run starts *)

\* The last refresh is as late as any.
LEMMA LastRefreshIsLast ==
    TypeOK => \A n \in 1..listed : Archives[n].full => n <= LastRefresh
<1> SUFFICES ASSUME TypeOK, NEW n \in 1..listed, Archives[n].full
             PROVE  n <= LastRefresh
  OBVIOUS
<1> DEFINE full == {b \in 1..listed : Archives[b].full}
<1>1. listed \in Nat
  BY TableTypes DEF TypeOK
<1>2. n \in full /\ full \subseteq Nat /\ \A b \in full : b <= listed
  BY <1>1
<1> HIDE DEF full
<1>3. \E b \in full : \A m \in full : m <= b
  BY <1>1, <1>2, LargestId
<1>4. LastRefresh = CHOOSE b \in full : \A m \in full : m <= b
  BY <1>2 DEF LastRefresh, full
<1> QED
  BY <1>2, <1>3, <1>4

\* The next run has to begin with a refresh.
MustRefresh == LastProcessed = Other \/ LastProcessed < LastRefresh

\* The last row of the log, where it is of this feed, is the last archive.
LEMMA LastProcessedIs ==
    ASSUME TypeOK
    PROVE  /\ LastProcessed \in 0..Len(Archives)
           /\ LastProcessed # Other => LastProcessed = LA
<1>1. log \in Seq(Archive \cup {Other}) /\ Other \in Archive \cup {Other}
  BY DEF TypeOK
<1>2. log # << >> => Len(log) \in DOMAIN log
  BY <1>1
<1>3. log # << >> => log[Len(log)] \in Archive \cup {Other}
  BY <1>1, <1>2, Element
<1> QED
  BY <1>1, <1>3, LastArchiveOf, TableTypes DEF LastProcessed, LA

\* And has to until an archive is recorded.
LEMMA MustRefreshStays ==
    ASSUME TypeOK, TypeOK', MustRefresh, log' = log \/ ImportOther, listed' = listed \/ Publish
    PROVE  MustRefresh'
<1>1. CASE ImportOther
  <2>1. log' = Append(log, Other) /\ log \in Seq(Archive \cup {Other})
    BY <1>1 DEF ImportOther, TypeOK
  <2>2. log' # << >> /\ log'[Len(log')] = Other
    BY <2>1
  <2> QED
    BY <2>2 DEF MustRefresh, LastProcessed
<1>2. CASE log' = log
  <2>1. LastProcessed' = LastProcessed /\ LastProcessed \in Nat
    BY <1>2, LastProcessedIs, TableTypes DEF LastProcessed
  <2>2. /\ LastRefresh \in 0..listed /\ (LastRefresh # 0 => Archives[LastRefresh].full)
        /\ listed \in Nat /\ listed' \in Nat /\ listed <= listed'
    BY FirstToProcessType, TableTypes DEF TypeOK, Publish
  <2>3. (\A n \in 1..listed : Archives[n].full => n <= LastRefresh)'
    BY LastRefreshIsLast, PTL
  <2>4. (LastRefresh \in 0..listed)'
    BY FirstToProcessType, PTL
  <2>5. LastRefresh <= LastRefresh'
    BY <2>2, <2>3, <2>4
  <2> QED
    BY <2>1, <2>2, <2>4, <2>5 DEF MustRefresh
<1> QED
  BY <1>1, <1>2

\* The tables hold what the last archive left in force, and of the changes after it
\* what was written of them so far.
AppliedNext(f) ==
    IF LA + 1 \in Archive /\ ~Archives[LA + 1].full THEN OfArchive(f, LA + 1) ELSE {}
Kept == LA \in Archive /\ \A f \in Files : Content(f, Schedules(f), InForce(f, LA), AppliedNext(f))

\* A refresh is on its way into the database, and where nothing fails gets there.
Refreshing == pc # "idle" /\ next <= upto /\ Archives[next].full
NothingFails == MaxFaults = 0

\* A run starts where nothing is lost by it, and stays there.
OnTrack ==
    /\ MustRefresh \/ Kept \/ (Refreshing /\ NothingFails)
    /\ pc # "idle" /\ next <= upto =>
          IF Archives[next].full THEN MustRefresh \/ NothingFails ELSE next = LA + 1 /\ Kept

\* A step that moves no import and stores no schedule leaves it on track.
LEMMA OnTrackFrame ==
    ASSUME TypeOK, TypeOK', OnTrack, UNCHANGED <<log, next, upto>>, listed' = listed \/ Publish,
           (pc' = "idle") <=> (pc = "idle"),
           \A f \in Files : Schedules(f)' = Schedules(f)
    PROVE  OnTrack'
<1>1. LA' = LA
  BY DEF LA
<1>2. Kept => Kept'
  BY <1>1 DEF Kept, AppliedNext
<1>3. MustRefresh => MustRefresh'
  BY MustRefreshStays
<1> QED
  BY <1>1, <1>2, <1>3 DEF OnTrack, Refreshing

\* While an archive is imported the tables are on their way to what it leaves.
LEMMA OnTheWay ==
    ASSUME OrderlyFeed, IInv, OnTrack, Refreshed, pc \in {"files", "sweep", "log"}, NEW f \in Files
    PROVE  next \in Archive /\ Content(f, Schedules(f), Before(f, next), OfArchive(f, next))
<1>1. next \in Archive /\ next \in Nat /\ next <= upto
  BY TableTypes DEF IInv, TypeInv, TypeOK, InRange, Importing
<1>2. CASE Archives[next].full
  BY <1>1, <1>2 DEF Refreshed, Before
<1>3. CASE ~Archives[next].full
  <2>1. next = LA + 1 /\ Kept /\ LA \in Archive
    BY <1>1, <1>3 DEF OnTrack, Kept
  <2>2. LA = next - 1
    BY <2>1, TableTypes
  <2>3. AppliedNext(f) = OfArchive(f, next)
    BY <1>1, <1>3, <2>1 DEF AppliedNext
  <2>4. Before(f, next) = InForce(f, LA)
    BY <1>3, <2>2 DEF Before
  <2> QED
    BY <1>1, <2>1, <2>3, <2>4 DEF Kept
<1> QED
  BY <1>2, <1>3

\* A line that was the last of its key is done, once its row waits no more.
Waits(f, m) == \E a \in Actions : \E r \in Waiting(<<f, "schedule">>, a) : r.of = m
Settled(f) ==
    \A m \in OfArchive(f, next) :
        m[2] <= at[f] /\ LastOfKey(f, m) /\ ~Waits(f, m) => Done(f, Schedules(f), m)
SettledSoFar ==
    pc \in {"files", "sweep", "log"} => \A f \in Files : stream[f] # "failed" => Settled(f)

\* When an archive is recorded the tables hold what it leaves in force.
LEMMA WhenRecorded ==
    ASSUME OrderlyFeed, IInv, OnTrack, Refreshed, SettledSoFar, pc = "log", NEW f \in Files
    PROVE  {s.of : s \in Schedules(f)} = InForce(f, next)
<1>1. next \in Archive /\ Content(f, Schedules(f), Before(f, next), OfArchive(f, next))
  BY OnTheWay
<1>2. Quiet /\ at[f] = Len(LinesOf(f)) /\ stream[f] # "failed"
  BY DEF IInv, Shape
<1>3. \A m \in OfArchive(f, next) : m[2] <= at[f]
  BY <1>1, <1>2, LineOfArchive DEF LinesOf
<1>4. \A m : ~Waits(f, m)
  BY <1>2, NoRowsOf, TableTypes DEF Waits, Waiting, Quiet
<1>5. \A m \in OfArchive(f, next) : LastOfKey(f, m) => Done(f, Schedules(f), m)
  BY <1>2, <1>3, <1>4 DEF SettledSoFar, Settled
<1> QED
  BY <1>1, <1>5, AllDone

\* A step that lets no line wait less and stores no schedule settles nothing.
LEMMA SettledFrame ==
    ASSUME NEW f \in Files, Settled(f), next' = next, at'[f] = at[f],
           Schedules(f)' = Schedules(f), \A m : Waits(f, m) => Waits(f, m)'
    PROVE  Settled(f)'
  BY DEF Settled

\* With no fewer rows waiting no fewer lines wait.
LEMMA WaitsFrame ==
    ASSUME NEW f \in Files,
           \A a \in Actions : Waiting(<<f, "schedule">>, a) \subseteq Waiting(<<f, "schedule">>, a)'
    PROVE  \A m : Waits(f, m) => Waits(f, m)'
  BY DEF Waits

\* A line that was just read waits.
LEMMA SettledRead ==
    ASSUME OnlyInserted, IInv, NEW f \in Files, ReadLine(f), Settled(f)
    PROVE  Settled(f)'
<1> DEFINE t == <<f, "schedule">>
           i == at[f] + 1
           n == <<next, i>>
<1>0. /\ buffer \in [Tables -> [Actions -> Seq(Row)]] /\ t \in Tables
      /\ at \in [Files -> Nat]
  BY TableTypes DEF IInv, TypeInv, TypeOK
<1>1. /\ next \in Archive /\ i \in Nat /\ at'[f] = i /\ next' = next
      /\ Schedules(f)' = Schedules(f)
  BY <1>0, ReadSchedule DEF ReadLine, database, Schedules
<1>2. ASSUME NEW m \in OfArchive(f, next), m[2] <= i, m # n
      PROVE  m[2] <= at[f]
  <2>1. m = <<next, m[2]>> /\ m[2] \in Nat
    BY <1>1, LineOfArchive
  <2> QED
    BY <1>0, <1>1, <1>2, <2>1
<1>3. /\ \A a \in Actions : Waiting(t, a) \subseteq Waiting(t, a)'
      /\ n \in OfArchive(f, next) => \E a \in Actions : \E r \in Waiting(t, a)' : r.of = n
  <2>1. CASE LinesOf(f)[i].table # "schedule"
    <3>1. n \notin OfArchive(f, next) /\ buffer'[t] = buffer[t] /\ inflight'[t] = inflight[t]
      BY <2>1, ReadSchedule
    <3> QED
      BY <3>1 DEF Waiting
  <2>2. CASE LinesOf(f)[i].table = "schedule"
    <3>1. PICK a \in Actions, r \in Row :
             /\ r.of = n
             /\ inflight[t][a] = << >>
             /\ \/ /\ buffer'[t][a] = Append(buffer[t][a], r)
                   /\ inflight'[t][a] = << >>
                \/ /\ buffer'[t][a] = << >>
                   /\ inflight'[t][a] = Append(buffer[t][a], r)
             /\ \A b \in Actions \ {a} :
                   buffer'[t][b] = buffer[t][b] /\ inflight'[t][b] = inflight[t][b]
      BY <2>2, ReadSchedule
    <3>2. RowsOf(Append(buffer[t][a], r)) = RowsOf(buffer[t][a]) \cup {r}
      <4> DEFINE old == buffer[t][a]
      <4>1. old \in Seq(Row)
        BY <1>0
      <4> HIDE DEF old
      <4>2. RowsOf(Append(old, r)) = RowsOf(old) \cup {r}
        BY <4>1, AppendedRows
      <4> QED
        BY <4>2 DEF old
    <3>3. Waiting(t, a)' = Waiting(t, a) \cup {r}
      BY <3>1, <3>2, NoRowsOf DEF Waiting
    <3>4. \A b \in Actions \ {a} : Waiting(t, b)' = Waiting(t, b)
      BY <3>1 DEF Waiting
    <3>5. \E b \in Actions : \E u \in Waiting(t, b)' : u.of = n
      BY <3>1, <3>3
    <3> QED
      BY <3>3, <3>4, <3>5
  <2> QED
    BY <2>1, <2>2
<1>4. \A m : Waits(f, m) => Waits(f, m)'
  BY <1>3, WaitsFrame
<1>5. ASSUME NEW m \in OfArchive(f, next), m[2] <= i, LastOfKey(f, m), ~Waits(f, m)'
      PROVE  Done(f, Schedules(f), m)
  <2>1. m # n
    BY <1>3, <1>5 DEF Waits
  <2> QED
    BY <1>2, <1>4, <1>5, <2>1 DEF Settled
<1> HIDE DEF i
<1> QED
  BY <1>1, <1>5 DEF Settled

\* A line whose row was written is done, and those that were done stay so.
LEMMA SettledCommit ==
    ASSUME OrderlyFeed, IInv, OnTrack, Refreshed, pc = "files",
           NEW f \in Files, NEW a \in Actions, Commit(<<f, "schedule">>, a), Queue(f), Settled(f)
    PROVE  Settled(f)'
<1> DEFINE t == <<f, "schedule">>
           rows == inflight[t][a]
<1>1. next \in Archive /\ Content(f, Schedules(f), Before(f, next), OfArchive(f, next))
  BY OnTheWay
<1>2. /\ rows \in Seq(Row) /\ RowsOfLines(f, next, a, rows)
      /\ Schedules(f)' = Written(Schedules(f), a, rows)
      /\ a # "Delete" => \A r \in RowsOf(rows), s \in Schedules(f) : r.id # s.id
  BY CommitAs
<1>3. /\ next' = next /\ at' = at /\ Waiting(t, a) = RowsOf(rows) /\ Waiting(t, a)' = {}
      /\ \A b \in Actions \ {a} : Waiting(t, b)' = Waiting(t, b)
  BY QueueWritten, TableTypes
<1> HIDE DEF rows
<1>4. ASSUME NEW m \in OfArchive(f, next), m[2] <= at[f], LastOfKey(f, m), ~Waits(f, m)'
      PROVE  Done(f, Written(Schedules(f), a, rows), m)
  <2>1. CASE Waits(f, m)
    <3>1. PICK r \in RowsOf(rows) : r.of = m
      BY <1>3, <1>4, <2>1 DEF Waits
    <3> QED
      BY <1>1, <1>2, <1>4, <3>1, WrittenDoes
  <2>2. CASE ~Waits(f, m)
    <3>1. Done(f, Schedules(f), m)
      BY <1>4, <2>2 DEF Settled
    <3>2. \A r \in RowsOf(rows) : r.of # m /\ ~(r.of[2] < m[2] /\ LineAt(f, m).action = a)
      <4> SUFFICES ASSUME NEW r \in RowsOf(rows),
                          r.of = m \/ (r.of[2] < m[2] /\ LineAt(f, m).action = a)
                   PROVE  FALSE
        OBVIOUS
      <4>1. \E u \in Waiting(t, a) : u.of = m
        BY <1>3, <1>4 DEF Queue, QueueOf
      <4> QED
        BY <2>2, <4>1 DEF Waits
    <3> QED
      BY <1>1, <1>2, <1>4, <3>1, <3>2, WrittenLeaves
  <2> QED
    BY <2>1, <2>2
<1> QED
  BY <1>2, <1>3, <1>4 DEF Settled

\* Every step keeps the lines done that wait no more.
LEMMA SettledStep ==
    ASSUME OrderlyFeed, OnlyInserted, IInv, IInv', InQueue, OnTrack, Refreshed, SettledSoFar,
           [Next]_vars
    PROVE  SettledSoFar'
<1> USE TableTypes DEF SettledSoFar
<1>1. CASE pc' \notin {"files", "sweep", "log"}
  BY <1>1
<1>2. CASE /\ pc \in {"files", "sweep", "log"} /\ UNCHANGED <<next, at, buffer, inflight>>
           /\ \A f \in Files : stream'[f] # "failed" => stream[f] # "failed"
           /\ \A f \in Files : Schedules(f)' = Schedules(f)
  <2>1. \A f \in Files : \A m : Waits(f, m) => Waits(f, m)'
    BY <1>2 DEF Waits, Waiting
  <2>2. \A f \in Files : Settled(f) => Settled(f)'
    BY <1>2, <2>1, SettledFrame
  <2> QED
    BY <1>2, <2>2
<1>3. CASE UNCHANGED <<stored, next, stream, at, buffer, inflight>>
           /\ (pc' = pc \/ pc \in {"files", "sweep", "log"})
  <2>1. \A f \in Files : Schedules(f)' = Schedules(f)
    BY <1>3 DEF Schedules
  <2> QED
    BY <1>1, <1>2, <1>3, <2>1
<1>4. CASE RestoreIds
  <2>1. CASE pc' = "files"
    <3>1. at' = [f \in Files |-> 0] /\ next' = next /\ next \in Archive
      BY <1>4, <2>1 DEF RestoreIds, IInv, TypeInv, TypeOK, InRange, Importing
    <3>2. \A f \in Files : \A m \in OfArchive(f, next) : ~(m[2] <= 0)
      BY <3>1, LineOfArchive
    <3>3. \A f \in Files : Settled(f)'
      BY <3>1, <3>2 DEF Settled
    <3> QED
      BY <3>3
  <2>2. pc' \in {"files", "ending"}
    BY <1>4 DEF RestoreIds
  <2> QED
    BY <1>1, <2>1, <2>2
<1>5. CASE Start \/ StartUnsure \/ Begin \/ Dropped \/ Created \/ UpdateLastFile \/ End \/ Crash
  BY <1>1, <1>5 DEF Start, StartUnsure, Begin, Dropped, Created, UpdateLastFile, End, Crash,
                    Gone, NoProcess
<1>6. CASE FilesSettled \/ Swept \/ Publish \/ ImportOther \/ UNCHANGED vars
  BY <1>3, <1>6 DEF FilesSettled, Swept, Publish, ImportOther, vars, database, process
<1>7. ASSUME NEW t \in Tables, DropTable(t) \/ CreateTable(t)
      PROVE  SettledSoFar'
  BY <1>1, <1>7 DEF DropTable, CreateTable, process
<1>8. ASSUME NEW f \in Files, RefuseLine(f) \/ Closed(f)
      PROVE  SettledSoFar'
  <2>1. /\ pc = "files" /\ UNCHANGED <<stored, next, at, buffer, inflight>>
        /\ stream' = [stream EXCEPT ![f] = "failed"]
           \/ (stream' = [stream EXCEPT ![f] = "done"] /\ stream[f] = "closing")
    BY <1>8 DEF RefuseLine, Closed, database
  <2>2. \A g \in Files : stream'[g] # "failed" => stream[g] # "failed"
    BY <2>1 DEF IInv, TypeInv, TypeOK
  <2>3. \A g \in Files : Schedules(g)' = Schedules(g)
    BY <2>1 DEF Schedules
  <2> QED
    BY <1>2, <2>1, <2>2, <2>3
<1>9. ASSUME NEW f \in Files, Sweep(f)
      PROVE  SettledSoFar'
  <2>1. /\ pc = "sweep" /\ UNCHANGED <<next, at, buffer, inflight>> /\ stream[f] = "done"
        /\ stream' = [stream EXCEPT ![f] = "swept"]
    BY <1>9 DEF Sweep
  <2>2. \A g \in Files : stream'[g] # "failed" => stream[g] # "failed"
    BY <2>1 DEF IInv, TypeInv, TypeOK
  <2>3. \A g \in Files : Schedules(g)' = Schedules(g)
    BY <1>9 DEF Sweep, Schedules, IInv, TypeInv, TypeOK
  <2> QED
    BY <1>2, <2>1, <2>2, <2>3
<1>10. ASSUME NEW f \in Files, ReadLine(f) \/ CloseTables(f)
       PROVE  SettledSoFar'
  <2>1. /\ pc = "files" /\ UNCHANGED stored /\ stream[f] = "reading" /\ next' = next
        /\ \A g \in Files \ {f} : stream'[g] = stream[g]
    BY <1>10 DEF ReadLine, CloseTables, database, IInv, TypeInv, TypeOK
  <2>2. \A g \in Files : Schedules(g)' = Schedules(g)
    BY <2>1 DEF Schedules
  <2>3. ASSUME NEW g \in Files, stream'[g] # "failed"
        PROVE  Settled(g)'
    <3>1. Settled(g)
      BY <2>1, <2>3
    <3>2. CASE g # f
      <4>1. /\ buffer'[<<g, "schedule">>] = buffer[<<g, "schedule">>]
            /\ inflight'[<<g, "schedule">>] = inflight[<<g, "schedule">>]
            /\ at'[g] = at[g]
        BY <1>10, <3>2, OtherFiles
      <4>2. \A m : Waits(g, m) => Waits(g, m)'
        BY <4>1 DEF Waits, Waiting
      <4> QED
        BY <2>1, <2>2, <3>1, <4>1, <4>2, SettledFrame
    <3>3. CASE g = f /\ ReadLine(f)
      BY <3>1, <3>3, SettledRead
    <3>4. CASE g = f /\ CloseTables(f)
      <4>1. at' = at
        BY <3>4 DEF CloseTables
      <4>2. \A a \in Actions : Waiting(<<f, "schedule">>, a)' = Waiting(<<f, "schedule">>, a)
        BY <3>4, QueueClosed
      <4>3. \A m : Waits(f, m) => Waits(f, m)'
        BY <4>2, WaitsFrame
      <4> QED
        BY <2>1, <2>2, <3>1, <3>4, <4>1, <4>3, SettledFrame
    <3> QED
      BY <1>10, <3>2, <3>3, <3>4
  <2> QED
    BY <2>3
<1>11. ASSUME NEW t \in Tables, NEW a \in Actions, Commit(t, a) \/ WriteFails(t, a)
       PROVE  SettledSoFar'
  <2>1. next' = next /\ at' = at /\ pc' = pc /\ pc \in {"files", "ending"}
    BY <1>11, QueueWritten
  <2>2. CASE pc = "ending"
    BY <1>1, <2>1, <2>2
  <2>3. ASSUME pc = "files", NEW g \in Files, stream'[g] # "failed"
        PROVE  Settled(g)'
    <3> DEFINE s == <<g, "schedule">>
    <3>1. stored \in [Tables -> SUBSET Row] /\ s \in Tables
      BY DEF IInv, TypeInv, TypeOK
    <3>2. stream[g] # "failed"
      BY <1>11, <2>3 DEF Commit, WriteFails, IInv, TypeInv, TypeOK
    <3>3. Settled(g) /\ Queue(g)
      BY <2>3, <3>2 DEF InQueue
    <3>4. CASE t # s
      <4>1. buffer'[s] = buffer[s] /\ inflight'[s] = inflight[s]
        BY <1>11, <3>3, <3>4, QueueWritten
      <4>2. \A m : Waits(g, m) => Waits(g, m)'
        BY <4>1 DEF Waits, Waiting
      <4>3. Schedules(g)' = Schedules(g)
        BY <1>11, <3>1, <3>4 DEF Commit, WriteFails, database, Schedules
      <4> QED
        BY <2>1, <3>3, <4>2, <4>3, SettledFrame
    <3>5. CASE t = s /\ Commit(t, a)
      BY <2>3, <3>3, <3>5, SettledCommit
    <3>6. CASE t = s /\ WriteFails(t, a)
      <4>1. stream'[g] = "failed"
        BY <3>6 DEF WriteFails, IInv, TypeInv, TypeOK
      <4> QED
        BY <2>3, <4>1
    <3> QED
      BY <1>11, <3>4, <3>5, <3>6
  <2> QED
    BY <2>1, <2>2, <2>3
<1> QED
  BY <1>4, <1>5, <1>6, <1>7, <1>8, <1>9, <1>10, <1>11 DEF Next, Work, Fault

\* Where nothing fails, no run ends before its last archive is recorded.
Unfailing ==
    /\ pc # "ending"
    /\ pc \in {"files", "sweep", "log"} => \A f \in Files : stream[f] # "failed"
    /\ pc = "restore" => schema = Tables
    /\ pc \notin {"drop", "create"} /\ LA # 0 => schema = Tables
UnfailingInv == NothingFails => Unfailing

\* Where nothing fails every step keeps a refresh ahead of its changes.
LEMMA UnfailingStep ==
    ASSUME IInv, IInv', Emptied, OnTrack, UnfailingInv, [Next]_vars
    PROVE  UnfailingInv'
<1> SUFFICES ASSUME NothingFails, Unfailing
             PROVE  Unfailing'
  BY DEF UnfailingInv
<1> USE TableTypes DEF Unfailing
<1>0. /\ ~(faults < MaxFaults) /\ faults \in Nat
      /\ stream \in [Files -> {"reading", "flushing", "closing", "done", "failed", "swept"}]
  BY DEF NothingFails, IInv, TypeInv, TypeOK
<1>1. CASE /\ UNCHANGED <<log, schema>> /\ pc' \in {"idle", "next", "drop", "create"}
           /\ pc \in {"drop", "create"} => pc' \in {"drop", "create"}
  BY <1>1 DEF LA
<1>2. CASE UNCHANGED <<log, schema>> /\ pc \in {"files", "sweep"} /\ pc' \in {"files", "sweep", "log"}
           /\ \A f \in Files : stream'[f] # "failed"
  BY <1>2 DEF LA
<1>3. CASE Start \/ StartUnsure \/ End
  BY <1>1, <1>3 DEF Start, StartUnsure, End, Gone, NoProcess, database
<1>4. CASE Crash
  BY <1>0, <1>4 DEF Crash
<1>5. CASE Begin
  <2>1. UNCHANGED <<log, schema>> /\ pc = "next" /\ next <= upto
        /\ pc' = IF Archives[next].full THEN "drop" ELSE "restore"
    BY <1>5 DEF Begin, database
  <2>2. ~Archives[next].full => LA \in Archive
    BY <2>1 DEF OnTrack, Kept
  <2>3. LA' = LA
    BY <2>1 DEF LA
  <2> QED
    BY <2>1, <2>2, <2>3
<1>6. CASE Dropped \/ Created
  <2>1. UNCHANGED <<log, schema>> /\ (pc' = "create" \/ (pc' = "restore" /\ schema = Tables))
    BY <1>6 DEF Dropped, Created, database
  <2> QED
    BY <2>1
<1>7. CASE RestoreIds
  <2>1. UNCHANGED <<log, schema>> /\ schema = Tables /\ pc' = "files"
        /\ \A f \in Files : stream'[f] = "reading"
    BY <1>7 DEF RestoreIds, database
  <2> QED
    BY <2>1
<1>8. CASE FilesSettled \/ Swept
  BY <1>2, <1>8 DEF FilesSettled, Swept, database
<1>9. CASE UpdateLastFile
  <2>1. pc = "log" /\ pc' = "next" /\ schema' = schema
    BY <1>9 DEF UpdateLastFile
  <2> QED
    BY <2>1 DEF Emptied
<1>10. CASE Publish \/ ImportOther \/ UNCHANGED vars
  <2>1. UNCHANGED <<pc, stream, schema>> /\ (log' = log \/ log' = Append(log, Other))
    BY <1>10 DEF Publish, ImportOther, vars, database, process
  <2>2. LA' = LA
    <3>1. log \in Seq(Archive \cup {Other})
      BY DEF IInv, TypeInv, TypeOK
    <3>2. CASE log' = log
      BY <3>2 DEF LA
    <3>3. CASE log' = Append(log, Other)
      <4>1. ImportLog!LastArchive(Append(log, Other)) = ImportLog!LastArchive(log)
        BY <3>1, LastArchiveOf
      <4> QED
        BY <3>3, <4>1 DEF LA
    <3> QED
      BY <2>1, <3>2, <3>3
  <2> QED
    BY <2>1, <2>2
<1>11. ASSUME NEW t \in Tables, DropTable(t) \/ CreateTable(t)
       PROVE  Unfailing'
  BY <1>11 DEF DropTable, CreateTable, process
<1>12. ASSUME NEW f \in Files, ReadLine(f) \/ CloseTables(f) \/ Closed(f) \/ Sweep(f)
       PROVE  Unfailing'
  <2>1. UNCHANGED <<log, schema, pc>> /\ pc \in {"files", "sweep"}
        /\ \/ stream' = stream
           \/ \E s \in {"flushing", "closing", "done", "swept"} : stream' = [stream EXCEPT ![f] = s]
    BY <1>12 DEF ReadLine, CloseTables, Closed, Sweep, database
  <2>2. \A g \in Files : stream'[g] # "failed"
    BY <1>0, <2>1
  <2> QED
    BY <1>2, <2>1, <2>2
<1>13. ASSUME NEW f \in Files, RefuseLine(f)
       PROVE  Unfailing'
  BY <1>0, <1>13 DEF RefuseLine
<1>14. ASSUME NEW t \in Tables, NEW a \in Actions, WriteFails(t, a)
       PROVE  Unfailing'
  BY <1>0, <1>14 DEF WriteFails
<1>15. ASSUME NEW t \in Tables, NEW a \in Actions, Commit(t, a)
       PROVE  Unfailing'
  <2>1. UNCHANGED <<log, schema, pc>> /\ pc \in {"files", "ending"}
    BY <1>15, QueueWritten DEF Commit
  <2>2. \A g \in Files : stream'[g] # "failed"
    BY <1>0, <1>15, <2>1 DEF Commit
  <2> QED
    BY <1>2, <2>1, <2>2
<1> QED
  BY <1>3, <1>4, <1>5, <1>6, <1>7, <1>8, <1>9, <1>10, <1>11, <1>12, <1>13, <1>14, <1>15
     DEF Next, Work, Fault

\* Every step keeps the imports on track.
LEMMA OnTrackStep ==
    ASSUME OrderlyFeed, MaxUnsure = 0 \/ NothingFails, IInv, IInv', InQueue, Emptied, OnTrack,
           UnfailingInv, Refreshed, SettledSoFar, [Next]_vars
    PROVE  OnTrack'
<1> USE TableTypes
<1>0. /\ TypeOK /\ TypeOK'
      /\ listed \in Nat /\ upto \in Nat /\ next \in Nat /\ upto <= listed /\ listed <= Len(Archives)
      /\ log \in Seq(Archive \cup {Other})
  BY DEF IInv, TypeInv, TypeOK
<1>1. CASE /\ UNCHANGED <<log, stored, next, upto>>
           /\ listed' = listed \/ Publish
           /\ (pc' = "idle") <=> (pc = "idle")
  <2>1. \A f \in Files : Schedules(f)' = Schedules(f)
    BY <1>1 DEF Schedules
  <2> QED
    BY <1>0, <1>1, <2>1, OnTrackFrame
<1>2. CASE Start
  <2>1. /\ next' = FirstToProcess /\ upto' = listed /\ UNCHANGED <<listed, log, stored>>
    BY <1>2 DEF Start, server, database
  <2>2. LA' = LA /\ MustRefresh' = MustRefresh
    BY <2>1 DEF LA, MustRefresh, LastProcessed, LastRefresh
  <2>3. Kept' = Kept
    BY <2>1, <2>2 DEF Kept, AppliedNext, Schedules
  <2>4. LastProcessed \in Nat /\ (LastProcessed # Other => LastProcessed = LA) /\ LastRefresh \in 0..listed
    BY <1>0, LastProcessedIs, FirstToProcessType
  <2>0. pc = "idle"
    BY <1>2 DEF Start
  <2>5. CASE MustRefresh
    <3>1. next' = FromRefresh
      BY <2>1, <2>4, <2>5 DEF MustRefresh, FirstToProcess
    <3>2. next' <= listed => Archives[next'].full
      BY <1>0, <2>4, <3>1, FirstToProcessType DEF FromRefresh
    <3> QED
      BY <2>1, <2>2, <2>5, <3>2 DEF OnTrack
  <2>6. CASE ~MustRefresh
    <3>1. next' = LA + 1 /\ LastRefresh <= LA /\ LA \in Nat
      BY <2>1, <2>4, <2>6 DEF MustRefresh, FirstToProcess
    <3>2. next' <= listed => ~Archives[next'].full
      <4> SUFFICES ASSUME LA + 1 <= listed, Archives[LA + 1].full
                   PROVE  FALSE
        BY <3>1
      <4>1. LA + 1 \in 1..listed
        BY <1>0, <3>1
      <4>2. LA + 1 <= LastRefresh
        BY <1>0, <4>1, LastRefreshIsLast
      <4> QED
        BY <2>4, <3>1, <4>2
    <3>3. Kept
      BY <2>0, <2>6 DEF OnTrack, Refreshing
    <3> QED
      BY <2>1, <2>2, <2>3, <3>1, <3>2, <3>3 DEF OnTrack
  <2> QED
    BY <2>5, <2>6
<1>3. CASE StartUnsure
  <2>1. /\ pc = "idle" /\ next' = FromRefresh /\ upto' = listed /\ UNCHANGED <<listed, log, stored>>
        /\ Len(log) \in Nat /\ Len(log) < MaxUnsure
    BY <1>0, <1>3 DEF StartUnsure, server, database
  <2>2. NothingFails
    BY <2>1
  <2>3. next' <= listed => Archives[next'].full
    BY <1>0, <2>1, FirstToProcessType DEF FromRefresh
  <2>4. MustRefresh' = MustRefresh /\ Kept' = Kept
    BY <2>1 DEF MustRefresh, LastProcessed, LastRefresh, Kept, AppliedNext, Schedules, LA
  <2> QED
    BY <2>1, <2>2, <2>3, <2>4 DEF OnTrack, Refreshing
<1>4. CASE UpdateLastFile
  <2>1. /\ pc = "log" /\ log' = Append(log, next) /\ next' = next + 1
        /\ UNCHANGED <<listed, stored, upto>>
    BY <1>4 DEF UpdateLastFile, server
  <2>2. next \in Archive /\ next # Other
    <3>1. next <= upto /\ next \in 1..(Len(Archives) + 1)
      BY <2>1 DEF IInv, TypeInv, TypeOK, InRange, Importing
    <3> QED
      BY <1>0, <3>1
  <2>3. LA' = next /\ LastProcessed' = next
    <3>1. ImportLog!LastArchive(Append(log, next)) = next
      BY <1>0, <2>2, LastArchiveOf
    <3>2. log' # << >> /\ log'[Len(log')] = next
      BY <1>0, <2>1, <2>2
    <3> QED
      BY <2>1, <3>1, <3>2 DEF LA, LastProcessed
  <2>4. ASSUME NEW f \in Files
        PROVE  Content(f, Schedules(f)', InForce(f, LA'), AppliedNext(f)')
    <3>1. {s.of : s \in Schedules(f)} = InForce(f, next)
      BY <2>1, WhenRecorded
    <3>2. Content(f, Schedules(f), Before(f, next), OfArchive(f, next))
      BY <2>1, OnTheWay
    <3>3. Content(f, Schedules(f), InForce(f, next), AppliedNext(f)')
      BY <3>1, <3>2, ContentOfForce
    <3> QED
      BY <2>1, <2>3, <3>3 DEF Schedules
  <2>5. Kept'
    BY <2>2, <2>3, <2>4 DEF Kept
  <2>6. ASSUME next' <= upto', Archives[next'].full
        PROVE  MustRefresh'
    <3>1. LastRefresh' = LastRefresh /\ LastRefresh \in Nat
      BY <1>0, <2>1, FirstToProcessType DEF LastRefresh
    <3>2. next + 1 \in 1..listed
      BY <1>0, <2>1, <2>6
    <3>3. next + 1 <= LastRefresh
      BY <1>0, <2>1, <2>6, <3>2, LastRefreshIsLast
    <3> QED
      BY <1>0, <2>3, <3>1, <3>3 DEF MustRefresh
  <2> QED
    BY <2>1, <2>3, <2>5, <2>6 DEF OnTrack
<1>5. CASE ImportOther
  <2>1. log' = Append(log, Other) /\ UNCHANGED <<listed, pc, next, upto, stored>>
    BY <1>5 DEF ImportOther, server, process
  <2>2. LA' = LA
    BY <1>0, <2>1, LastArchiveOf DEF LA
  <2>3. MustRefresh'
    <3>1. log' # << >> /\ log'[Len(log')] = Other
      BY <1>0, <2>1
    <3> QED
      BY <3>1 DEF MustRefresh, LastProcessed
  <2>4. Kept' = Kept
    BY <2>1, <2>2 DEF Kept, AppliedNext, Schedules
  <2> QED
    BY <2>1, <2>2, <2>3, <2>4 DEF OnTrack
<1>6. CASE Begin \/ Dropped \/ Created \/ RestoreIds \/ FilesSettled \/ Swept
  BY <1>1, <1>6 DEF Begin, Dropped, Created, RestoreIds, FilesSettled, Swept, server, database
<1>7. CASE End \/ Crash
  <2>1. pc' = "idle" /\ UNCHANGED <<listed, log, stored>>
    BY <1>7 DEF End, Crash, Gone, NoProcess, server, database
  <2>2. MustRefresh' = MustRefresh /\ Kept' = Kept
    BY <2>1 DEF MustRefresh, LastProcessed, LastRefresh, Kept, AppliedNext, Schedules, LA
  <2>3. ~(Refreshing /\ NothingFails)
    <3>1. CASE Crash
      BY <3>1 DEF Crash, NothingFails, IInv, TypeInv, TypeOK
    <3>2. CASE End
      BY <1>0, <3>2 DEF End, Refreshing, UnfailingInv, Unfailing
    <3> QED
      BY <1>7, <3>1, <3>2
  <2> QED
    BY <2>1, <2>2, <2>3 DEF OnTrack
<1>8. CASE Publish \/ UNCHANGED vars
  BY <1>1, <1>8 DEF Publish, vars, server, database, process, OnTrack
<1>9. ASSUME NEW t \in Tables, DropTable(t)
      PROVE  OnTrack'
  <2>1. pc = "drop" /\ UNCHANGED <<listed, log, pc, next, upto>>
    BY <1>9 DEF DropTable, server, process
  <2>2. next <= upto /\ Archives[next].full
    BY <2>1 DEF Emptied, IInv, TypeInv, InRange, Importing
  <2>3. MustRefresh \/ NothingFails
    BY <2>1, <2>2 DEF OnTrack
  <2>4. MustRefresh => MustRefresh'
    BY <1>0, <2>1, MustRefreshStays
  <2> QED
    BY <2>1, <2>2, <2>3, <2>4 DEF OnTrack, Refreshing
<1>10. ASSUME NEW t \in Tables, CreateTable(t)
       PROVE  OnTrack'
  BY <1>1, <1>10 DEF CreateTable, server, process
<1>11. ASSUME NEW f \in Files, ReadLine(f) \/ RefuseLine(f) \/ CloseTables(f) \/ Closed(f)
       PROVE  OnTrack'
  BY <1>1, <1>11 DEF ReadLine, RefuseLine, CloseTables, Closed, server, database
<1>12. CASE /\ UNCHANGED <<listed, log, next, upto, pc>> /\ pc # "idle"
            /\ \A f \in Files : Schedules(f)' = Schedules(f)
  BY <1>0, <1>12, OnTrackFrame
<1>13. ASSUME NEW f \in Files, Sweep(f)
       PROVE  OnTrack'
  <2>1. UNCHANGED <<listed, log, next, upto, pc>> /\ pc = "sweep"
    BY <1>13 DEF Sweep, server
  <2>2. \A g \in Files : Schedules(g)' = Schedules(g)
    BY <1>13 DEF Sweep, Schedules, IInv, TypeInv, TypeOK
  <2> QED
    BY <1>12, <2>1, <2>2
<1>14. ASSUME NEW t \in Tables, NEW a \in Actions, Commit(t, a) \/ WriteFails(t, a)
       PROVE  OnTrack'
  <2>1. UNCHANGED <<listed, log, next, upto, pc>> /\ pc \in {"files", "ending"}
    BY <1>14, QueueWritten DEF Commit, WriteFails, server, database
  <2>2. CASE WriteFails(t, a) \/ \A f \in Files : t # <<f, "schedule">>
    <3>1. \A f \in Files : Schedules(f)' = Schedules(f)
      BY <1>14, <2>2 DEF Commit, WriteFails, database, Schedules, IInv, TypeInv, TypeOK
    <3> QED
      BY <1>12, <2>1, <3>1
  <2>3. ASSUME Commit(t, a), NEW g \in Files, t = <<g, "schedule">>
        PROVE  OnTrack'
    <3>1. next <= upto /\ next \in Archive
      BY <1>0, <2>1 DEF InQueue, IInv, TypeInv, TypeOK
    <3>2. LA' = LA
      BY <2>1 DEF LA
    <3>3. CASE Archives[next].full
      <4>1. MustRefresh \/ NothingFails
        BY <2>1, <3>1, <3>3 DEF OnTrack
      <4>2. MustRefresh => MustRefresh'
        BY <1>0, <2>1, MustRefreshStays
      <4> QED
        BY <2>1, <3>1, <3>3, <4>1, <4>2 DEF OnTrack, Refreshing
    <3>4. CASE ~Archives[next].full
      <4>1. next = LA + 1 /\ Kept
        BY <2>1, <3>1, <3>4 DEF OnTrack
      <4>2. \A f \in Files : AppliedNext(f) = OfArchive(f, next) /\ AppliedNext(f)' = OfArchive(f, next)
        BY <3>1, <3>2, <3>4, <4>1 DEF AppliedNext
      <4>3. \A f \in Files : Content(f, Schedules(f)', InForce(f, LA), OfArchive(f, next))
        BY <2>3, <4>1, <4>2, CommitContent DEF Kept
      <4>4. Kept'
        BY <3>2, <4>1, <4>2, <4>3 DEF Kept
      <4>5. MustRefresh => MustRefresh'
        BY <1>0, <2>1, MustRefreshStays
      <4> QED
        BY <2>1, <3>2, <3>4, <4>1, <4>4, <4>5 DEF OnTrack
    <3> QED
      BY <3>3, <3>4
  <2> QED
    BY <1>14, <2>2, <2>3
<1> QED
  BY <1>2, <1>3, <1>4, <1>5, <1>6, <1>7, <1>8, <1>9, <1>10, <1>11, <1>13, <1>14 DEF Next, Work, Fault

\* What a run has done, has begun and has yet to write, in step with the feed.
ForceInv == InQueue /\ Emptied /\ Refreshed /\ OnTrack /\ UnfailingInv /\ SettledSoFar

\* The invariant holds of an empty database.
LEMMA InitForceInv == Init => ForceInv
<1> SUFFICES ASSUME Init PROVE ForceInv
  OBVIOUS
<1>1. /\ pc = "idle" /\ log = << >> /\ schema = {} /\ stored = [t \in Tables |-> {}]
      /\ buffer = NoRows /\ inflight = NoRows
  BY DEF Init, NoProcess
<1>2. Emptied
  BY <1>1 DEF Emptied, Quiet, NoRows
<1>3. OnTrack
  BY <1>1 DEF OnTrack, MustRefresh, LastProcessed
<1>4. LA = 0
  BY <1>1 DEF LA, ImportLog!LastArchive
<1>5. UnfailingInv
  BY <1>1, <1>4 DEF UnfailingInv, Unfailing
<1> QED
  BY <1>1, <1>2, <1>3, <1>5 DEF ForceInv, InQueue, Refreshed, SettledSoFar

\* Every step keeps the invariant.
LEMMA ForceStep ==
    ASSUME OrderlyFeed, OnlyInserted, MaxUnsure = 0 \/ NothingFails, IInv, ForceInv, [Next]_vars
    PROVE  ForceInv'
<1>1. IInv'
  BY NextIInv
<1> QED
  BY <1>1, InQueueStep, EmptiedStep, RefreshedStep, OnTrackStep, UnfailingStep, SettledStep
     DEF ForceInv

\* Whatever orderly feed is imported, and however its writes are interleaved, fail and
\* are tried again, an archive is recorded only with the schedules in the database that
\* the feed has in force (DownloadAndProcessCommand, ImportFeedCommand, TableWriter).  Of
\* files without an action map the feed only inserts, and the query of the log fails
\* unnoticed only where nothing else fails: without either TLC shows that it is not so.
THEOREM SchedulesInForceCorrect ==
    ASSUME OrderlyFeed, OnlyInserted, MaxUnsure = 0 \/ MaxFaults = 0
    PROVE  Spec => []SchedulesInForce
<1>1. Init => ForceInv
  BY InitForceInv
<1>2. IInv /\ ForceInv /\ [Next]_vars => ForceInv'
  BY ForceStep DEF NothingFails
<1>3. IInv /\ ForceInv => SchedulesInForce
  BY WhenRecorded DEF ForceInv, SchedulesInForce, Schedules
<1> QED
  BY <1>1, <1>2, <1>3, Invariance, PTL DEF Spec

-----------------------------------------------------------------------------
(* Whose calls are in the database *)

\* The schedules and the calls of a file that are stored or wait to be.
Trains(f) ==
    Schedules(f) \cup Waiting(<<f, "schedule">>, "Insert") \cup Waiting(<<f, "schedule">>, "Update")
Calls(f) == stored[<<f, "stop_time">>] \cup Waiting(<<f, "stop_time">>, "Insert")
CallsOf(f, s) == {c \in Calls(f) : c.schedule = s.id}

\* The call lines of a schedule that have been read.
ReadOf(f, m) == {i \in CallLines(f, m) : pc = "files" /\ m[1] = next => i <= at[f]}

\* No column of a call is a key, and calls are only inserted.
PlainCalls ==
    \A f \in Files :
        /\ \A c \in Calls(f) : c.key = NoKey
        /\ \A a \in {"Update", "Delete"} : Waiting(<<f, "stop_time">>, a) = {}

\* Every schedule has the calls that have been read of it, and no other's.
Mated(f) ==
    \A s \in Trains(f) :
        /\ \A c \in CallsOf(f, s) : c.of = s.of
        /\ IsFiniteSet(CallsOf(f, s))
        /\ Cardinality(CallsOf(f, s)) = Cardinality(ReadOf(f, s.of))

\* Between two lines of a file the counter of its schedules is past every schedule a call
\* refers to, and is the id of the schedule read last, if that is there.
Counting(f) ==
    /\ \A s \in Trains(f) : s.of[1] <= next /\ (s.of[1] = next => s.of[2] <= at[f])
    /\ \A c \in Calls(f) : c.schedule <= lastId[<<f, "schedule">>]
    /\ at[f] > 0 =>
          LET j == OwnerLine(LinesOf(f), at[f])
          IN  ActionOf(f, LinesOf(f)[j]) # "Delete" =>
                 \A s \in Trains(f) : s.id = lastId[<<f, "schedule">>] <=> s.of = <<next, j>>

\* Between two imports the schedules are of archives recorded, and no call is without
\* one.
Past(f) ==
    /\ OrphanFree(f)
    /\ \A s \in Schedules(f) : s.of[1] <= LA
    /\ pc = "restore" /\ Archives[next].full => Schedules(f) = {}

Own(f) ==
    /\ Mated(f)
    /\ pc = "files" => Counting(f)
    /\ pc \in {"idle", "next", "restore", "ending"} => Past(f)
    /\ pc \in {"sweep", "log"} => \A s \in Schedules(f) : s.of[1] <= next

\* While an archive is imported and the file has not failed, and where nothing fails
\* between two imports too.
Watched(f) ==
    \/ pc = "restore"
    \/ pc \in {"files", "sweep", "log"} /\ stream[f] # "failed"
    \/ pc \in {"idle", "next", "ending"} /\ NothingFails

OwnInv ==
    /\ LA \in Nat
    /\ NothingFails =>
          /\ pc = "files" => \A f \in Files : stream[f] # "failed"
          /\ pc = "ending" => Quiet
    /\ \A f \in Files : Watched(f) => Own(f)

\* The invariant: calls are plain, and every watched file has them with their schedules.
CallsInv == PlainCalls /\ Emptied /\ MayNext /\ SweptInv /\ OwnInv

\* The feed has no changes archive.
OnlyRefreshes == \A n \in Archive : Archives[n].full

\* What waits is rows.
LEMMA WaitingTypes ==
    ASSUME IInv, NEW t \in Tables
    PROVE  stored[t] \subseteq Row /\ \A a \in Actions : Waiting(t, a) \subseteq Row
<1>1. /\ stored[t] \subseteq Row
      /\ \A a \in Actions : buffer[t][a] \in Seq(Row) /\ inflight[t][a] \in Seq(Row)
  BY DEF IInv, TypeInv, TypeOK
<1>2. \A rows \in Seq(Row) : RowsOf(rows) \subseteq Row
  BY Element DEF RowsOf
<1> QED
  BY <1>1, <1>2 DEF Waiting

\* What a line that is read adds to the rows that wait.
LEMMA LineRead ==
    ASSUME IInv, NEW f \in Files, ReadLine(f)
    PROVE  LET i == at[f] + 1
               line == LinesOf(f)[i]
               t == <<f, line.table>>
               a == ActionOf(f, line)
               id == IF a = "Delete" THEN 0 ELSE lastId[t] + 1
               r == RowOf(f, i, id)
           IN  /\ pc = "files" /\ pc' = "files" /\ next \in Archive /\ at[f] \in Nat
               /\ i \in 1..Len(LinesOf(f)) /\ i \in DOMAIN LinesOf(f) /\ i \in Nat
               /\ t \in Tables /\ a \in Actions /\ id \in Nat /\ r \in Row /\ r.id = id
               /\ at' = [at EXCEPT ![f] = i]
               /\ lastId' = IF a = "Delete" THEN lastId ELSE [lastId EXCEPT ![t] = id]
               /\ UNCHANGED <<stored, log, next>>
               /\ \A u \in Tables, b \in Actions :
                     /\ u = t /\ b = a => Waiting(u, b)' = Waiting(u, b) \cup {r}
                     /\ u # t \/ b # a => Waiting(u, b)' = Waiting(u, b)
               /\ stream[f] = "reading" /\ \A g \in Files \ {f} : stream'[g] = stream[g]
<1> DEFINE i == at[f] + 1
           line == LinesOf(f)[i]
           t == <<f, line.table>>
           a == ActionOf(f, line)
           id == IF a = "Delete" THEN 0 ELSE lastId[t] + 1
           r == RowOf(f, i, id)
           rows == Append(buffer[t][a], r)
<1>1. /\ pc = "files" /\ stream[f] = "reading" /\ at[f] < Len(LinesOf(f))
      /\ at' = [at EXCEPT ![f] = i]
      /\ lastId' = IF a = "Delete" THEN lastId ELSE [lastId EXCEPT ![t] = id]
      /\ \/ /\ buffer' = [buffer EXCEPT ![t][a] = rows]
            /\ UNCHANGED <<inflight, stream>>
         \/ /\ buffer' = [buffer EXCEPT ![t][a] = << >>]
            /\ inflight' = [inflight EXCEPT ![t][a] = rows]
            /\ stream' = [stream EXCEPT ![f] = "flushing"]
      /\ UNCHANGED <<stored, log, next, pc>>
  BY DEF ReadLine, database
<1>2. /\ next \in Archive /\ at[f] \in Nat /\ i \in Nat /\ i \in 1..Len(LinesOf(f))
      /\ i \in DOMAIN LinesOf(f)
  <2>1. next \in Archive
    BY <1>1, TableTypes DEF IInv, TypeInv, TypeOK, InRange, Importing
  <2>2. LinesOf(f) \in Seq(Line) /\ at[f] \in Nat
    BY <2>1, ArchiveTypes DEF LinesOf, IInv, TypeInv, TypeOK
  <2>3. Len(LinesOf(f)) \in Nat /\ DOMAIN LinesOf(f) = 1..Len(LinesOf(f))
    BY <2>2
  <2>4. at[f] < Len(LinesOf(f))
    BY <1>1
  <2> HIDE DEF LinesOf
  <2>5. at[f] + 1 \in Nat /\ at[f] + 1 \in 1..Len(LinesOf(f))
    BY <2>2, <2>3, <2>4
  <2> QED
    BY <2>1, <2>2, <2>3, <2>5
<1>3. t \in Tables /\ a \in Actions /\ id \in Nat
  <2>1. t \in Tables /\ a \in Actions
    BY <1>1, <1>2, RowType DEF IInv
  <2>2. lastId[t] \in Nat
    BY <2>1 DEF IInv, TypeInv, TypeOK
  <2> HIDE DEF t, a
  <2> QED
    BY <2>1, <2>2
<1>4. r \in Row /\ r.id = id
  <2> HIDE DEF i, id
  <2> QED
    BY <1>1, <1>2, <1>3, RowType DEF IInv
<1>5. /\ buffer \in [Tables -> [Actions -> Seq(Row)]]
      /\ inflight \in [Tables -> [Actions -> Seq(Row)]]
      /\ stream \in [Files -> {"reading", "flushing", "closing", "done", "failed", "swept"}]
  BY DEF IInv, TypeInv, TypeOK
<1>6. inflight[t][a] = << >>
  <2>1. FileShape(f) /\ t \in TablesOf(f)
    BY <1>1, <1>3 DEF IInv, Shape, TablesOf
  <2> HIDE DEF t, a
  <2> QED
    BY <1>1, <1>3, <2>1 DEF FileShape
<1>7. RowsOf(rows) = RowsOf(buffer[t][a]) \cup {r}
  <2>1. buffer[t][a] \in Seq(Row)
    BY <1>3, <1>5
  <2> HIDE DEF r
  <2> QED
    BY <1>4, <2>1, AppendedRows
<1> HIDE DEF i, line, t, a, id, r, rows
<1>8. ASSUME NEW u \in Tables, NEW b \in Actions, u = t, b = a
      PROVE  Waiting(u, b)' = Waiting(u, b) \cup {r}
  <2>1. \/ buffer'[u][b] = rows /\ inflight'[u][b] = << >>
        \/ buffer'[u][b] = << >> /\ inflight'[u][b] = rows
    BY <1>1, <1>3, <1>5, <1>6, <1>8
  <2> QED
    BY <1>6, <1>7, <1>8, <2>1, NoRowsOf DEF Waiting
<1>9. ASSUME NEW u \in Tables, NEW b \in Actions, ~(u = t /\ b = a)
      PROVE  Waiting(u, b)' = Waiting(u, b)
  <2>1. buffer'[u][b] = buffer[u][b] /\ inflight'[u][b] = inflight[u][b]
    BY <1>1, <1>3, <1>5, <1>9
  <2> QED
    BY <2>1 DEF Waiting
<1>10. \A g \in Files \ {f} : stream'[g] = stream[g]
  BY <1>1, <1>5
<1> QED
  BY <1>1, <1>2, <1>3, <1>4, <1>8, <1>9, <1>10 DEF i, line, t, a, id, r

\* And so to the schedules and the calls of the files.
LEMMA RowRead ==
    ASSUME IInv, NEW f \in Files, ReadLine(f)
    PROVE  LET i == at[f] + 1
               line == LinesOf(f)[i]
               a == ActionOf(f, line)
               s == <<f, "schedule">>
           IN  /\ line.table = "stop_time" =>
                     /\ a = "Insert" /\ Trains(f)' = Trains(f) /\ lastId'[s] = lastId[s]
                     /\ \E r \in Row :
                           /\ r.key = NoKey /\ r.schedule = lastId[s] /\ r \notin Calls(f)
                           /\ r.of = <<next, OwnerLine(LinesOf(f), i)>>
                           /\ Calls(f)' = Calls(f) \cup {r}
               /\ line.table = "schedule" => Calls(f)' = Calls(f)
               /\ line.table = "schedule" /\ a = "Delete" =>
                     Trains(f)' = Trains(f) /\ lastId'[s] = lastId[s]
               /\ line.table = "schedule" /\ a # "Delete" =>
                     /\ lastId'[s] = lastId[s] + 1
                     /\ \E r \in Row :
                           /\ r.id = lastId[s] + 1 /\ r.of = <<next, i>>
                           /\ Trains(f)' = Trains(f) \cup {r}
               /\ line.table \in {"schedule", "stop_time"}
               /\ \A g \in Files \ {f} : Trains(g)' = Trains(g) /\ Calls(g)' = Calls(g)
               /\ \A b \in {"Update", "Delete"}, g \in Files :
                     Waiting(<<g, "stop_time">>, b)' = Waiting(<<g, "stop_time">>, b)
<1> DEFINE i == at[f] + 1
           line == LinesOf(f)[i]
           t == <<f, line.table>>
           a == ActionOf(f, line)
           id == IF a = "Delete" THEN 0 ELSE lastId[t] + 1
           r == RowOf(f, i, id)
           s == <<f, "schedule">>
<1>1. /\ pc = "files" /\ next \in Archive /\ i \in 1..Len(LinesOf(f)) /\ i \in DOMAIN LinesOf(f)
      /\ t \in Tables /\ a \in Actions /\ r \in Row /\ r.id = id
      /\ lastId' = IF a = "Delete" THEN lastId ELSE [lastId EXCEPT ![t] = id]
      /\ stored' = stored
      /\ \A u \in Tables, b \in Actions :
            /\ u = t /\ b = a => Waiting(u, b)' = Waiting(u, b) \cup {r}
            /\ u # t \/ b # a => Waiting(u, b)' = Waiting(u, b)
  BY LineRead
<1>2. line \in Line /\ LinesOf(f) = Archives[next].lines[f]
  BY <1>1, LineTypes DEF LinesOf
<1>3. /\ line.table \in {"schedule", "stop_time"}
      /\ line.table = "stop_time" => line.key = NoKey /\ line.action = "Insert"
  BY <1>2 DEF Line
<1>4. line.table = "stop_time" => a = "Insert"
  BY <1>3 DEF ActionOf
<1>5. /\ r.key = line.key /\ r.of = <<next, OwnerLine(LinesOf(f), i)>>
      /\ line.table # "schedule" => r.schedule = lastId[s]
  BY DEF RowOf
<1>6. line.table = "schedule" => r.of = <<next, i>>
  BY <1>1, <1>2, <1>5, OwnLine
<1>7. /\ "Insert" \in Actions /\ "Update" \in Actions /\ "Delete" \in Actions
      /\ lastId \in [Tables -> Nat] /\ s \in Tables
      /\ \A g \in Files : <<g, "schedule">> \in Tables /\ <<g, "stop_time">> \in Tables
  BY TableTypes DEF Actions, IInv, TypeInv, TypeOK
<1>8. \A c \in Calls(f) : c.id <= lastId[<<f, "stop_time">>] /\ c.id \in Nat
  <2>1. stored[<<f, "stop_time">>] \subseteq Row /\ Waiting(<<f, "stop_time">>, "Insert") \subseteq Row
    BY <1>7, WaitingTypes
  <2>2. \A c \in Row : c.id \in Nat
    BY DEF Row
  <2> QED
    BY <1>1, <1>7, <2>1, <2>2 DEF Calls, IInv, IdInv, Counted
<1>9. a # "Delete" => id = lastId[t] + 1
  OBVIOUS
<1>10. t[1] = f /\ t[2] = line.table /\ (line.table = "schedule" => t = s)
       /\ (line.table = "stop_time" => t = <<f, "stop_time">>)
  OBVIOUS
<1> HIDE DEF i, line, t, a, id, r
<1>11. \A g \in Files \ {f} : Trains(g)' = Trains(g) /\ Calls(g)' = Calls(g)
  <2>1. ASSUME NEW g \in Files \ {f}, NEW k \in {"schedule", "stop_time"}, NEW b \in Actions
        PROVE  Waiting(<<g, k>>, b)' = Waiting(<<g, k>>, b)
    <3>1. <<g, k>> \in Tables
      BY <1>7
    <3>2. <<g, k>>[1] = g /\ g # f
      OBVIOUS
    <3>3. <<g, k>> # t
      BY <1>10, <3>2
    <3> QED
      BY <1>1, <3>1, <3>3
  <2> QED
    BY <1>1, <1>7, <2>1 DEF Trains, Calls, Schedules
<1>12. \A b \in {"Update", "Delete"}, g \in Files :
          Waiting(<<g, "stop_time">>, b)' = Waiting(<<g, "stop_time">>, b)
  <2>1. ASSUME NEW b \in {"Update", "Delete"}, NEW g \in Files
        PROVE  ~(<<g, "stop_time">> = t /\ b = a)
    BY <1>3, <1>4, <1>10
  <2> QED
    BY <1>1, <1>7, <2>1
<1>13. ASSUME line.table = "stop_time"
       PROVE  /\ a = "Insert" /\ Trains(f)' = Trains(f) /\ lastId'[s] = lastId[s]
              /\ r.key = NoKey /\ r.schedule = lastId[s] /\ r \notin Calls(f)
              /\ Calls(f)' = Calls(f) \cup {r}
  <2>1. a = "Insert" /\ t = <<f, "stop_time">> /\ t # s /\ r.key = NoKey /\ r.schedule = lastId[s]
    BY <1>3, <1>4, <1>5, <1>10, <1>13 DEF s
  <2>2. Waiting(s, "Insert")' = Waiting(s, "Insert") /\ Waiting(s, "Update")' = Waiting(s, "Update")
    BY <1>1, <1>7, <2>1
  <2>3. Trains(f)' = Trains(f)
    BY <1>1, <2>2 DEF Trains, Schedules, s
  <2>4. lastId'[s] = lastId[s]
    BY <1>1, <1>7, <2>1
  <2>5. r \notin Calls(f)
    <3>1. r.id = lastId[<<f, "stop_time">>] + 1 /\ lastId[<<f, "stop_time">>] \in Nat
      BY <1>1, <1>7, <1>9, <2>1
    <3>2. ~(r.id <= lastId[<<f, "stop_time">>])
      BY <3>1
    <3> QED
      BY <1>8, <3>2
  <2>6. Calls(f)' = Calls(f) \cup {r}
    BY <1>1, <2>1 DEF Calls
  <2> QED
    BY <2>1, <2>3, <2>4, <2>5, <2>6
<1>14. ASSUME line.table = "schedule"
       PROVE  Calls(f)' = Calls(f)
  <2>1. t # <<f, "stop_time">>
    BY <1>10, <1>14 DEF s
  <2> QED
    BY <1>1, <1>7, <2>1 DEF Calls
<1>15. ASSUME line.table = "schedule", a = "Delete"
       PROVE  Trains(f)' = Trains(f) /\ lastId'[s] = lastId[s]
  BY <1>1, <1>7, <1>15 DEF Trains, Schedules, s
<1>16. ASSUME line.table = "schedule", a # "Delete"
       PROVE  /\ lastId'[s] = lastId[s] + 1 /\ r.id = lastId[s] + 1
              /\ Trains(f)' = Trains(f) \cup {r}
  <2>1. t = s /\ id = lastId[s] + 1 /\ (a = "Insert" \/ a = "Update")
    BY <1>1, <1>9, <1>10, <1>16 DEF Actions
  <2>2. lastId'[s] = lastId[s] + 1 /\ r.id = lastId[s] + 1
    BY <1>1, <1>7, <1>16, <2>1
  <2>3. Trains(f)' = Trains(f) \cup {r}
    <3>1. CASE a = "Insert"
      <4>1. Waiting(s, "Insert")' = Waiting(s, "Insert") \cup {r} /\ Waiting(s, "Update")' = Waiting(s, "Update")
        BY <1>1, <1>7, <2>1, <3>1
      <4> QED
        BY <1>1, <4>1 DEF Trains, Schedules, s
    <3>2. CASE a = "Update"
      <4>1. Waiting(s, "Update")' = Waiting(s, "Update") \cup {r} /\ Waiting(s, "Insert")' = Waiting(s, "Insert")
        BY <1>1, <1>7, <2>1, <3>2
      <4> QED
        BY <1>1, <4>1 DEF Trains, Schedules, s
    <3> QED
      BY <2>1, <3>1, <3>2
  <2> QED
    BY <2>2, <2>3
<1> QED
  BY <1>1, <1>3, <1>5, <1>6, <1>11, <1>12, <1>13, <1>14, <1>15, <1>16 DEF i, line, a, s

\* Calls that clash with nothing are all written.
LEMMA CallsWritten ==
    ASSUME NEW old, NEW rows,
           \A r \in RowsOf(rows) : r.key = NoKey /\ \A s \in old : r.id # s.id
    PROVE  Written(old, "Insert", rows) = old \cup RowsOf(rows)
<1>1. \A i \in DOMAIN rows : rows[i] \in RowsOf(rows)
  BY DEF RowsOf
<1>2. FirstPerKey(rows) = RowsOf(rows)
  BY <1>1 DEF FirstPerKey, RowsOf, SameKey
<1>3. \A r \in RowsOf(rows), s \in old : ~Clash(r, s)
  BY DEF Clash, SameKey
<1> QED
  BY <1>2, <1>3 DEF Written, Insert

\* A write stores the calls that waited for it, and of schedules no more than those.
LEMMA CommitRows ==
    ASSUME IInv, PlainCalls, NEW t \in Tables, NEW a \in Actions, Commit(t, a), NEW f \in Files
    PROVE  /\ Trains(f)' \subseteq Trains(f) /\ Calls(f)' = Calls(f)
           /\ \A b \in Actions : Waiting(<<f, "stop_time">>, b)' \subseteq Waiting(<<f, "stop_time">>, b)
<1> DEFINE s == <<f, "schedule">>
           c == <<f, "stop_time">>
           rows == inflight[t][a]
<1>1. /\ rows # << >> /\ stored' = [stored EXCEPT ![t] = Written(stored[t], a, rows)]
      /\ inflight' = [inflight EXCEPT ![t][a] = << >>] /\ buffer' = buffer
  BY DEF Commit
<1>2. /\ stored \in [Tables -> SUBSET Row] /\ inflight \in [Tables -> [Actions -> Seq(Row)]]
      /\ s \in Tables /\ c \in Tables /\ s # c
      /\ "Insert" \in Actions /\ "Update" \in Actions /\ "Delete" \in Actions
  BY TableTypes DEF IInv, TypeInv, TypeOK, Actions
<1>3. RowsOf(rows) \subseteq Waiting(t, a)
  BY DEF Waiting
<1>4. \A u \in Tables, b \in Actions : Waiting(u, b)' \subseteq Waiting(u, b)
  <2>1. ASSUME NEW u \in Tables, NEW b \in Actions
        PROVE  inflight'[u][b] = inflight[u][b] \/ inflight'[u][b] = << >>
    BY <1>1, <1>2
  <2> QED
    BY <1>1, <2>1, NoRowsOf DEF Waiting
<1>5. \A u \in Tables \ {t} : stored'[u] = stored[u] /\ \A b \in Actions : Waiting(u, b)' = Waiting(u, b)
  <2>1. ASSUME NEW u \in Tables \ {t}
        PROVE  stored'[u] = stored[u] /\ inflight'[u] = inflight[u]
    BY <1>1, <1>2
  <2> QED
    BY <1>1, <2>1 DEF Waiting
<1>6. stored'[t] = Written(stored[t], a, rows)
  BY <1>1, <1>2
<1>7. Trains(f)' \subseteq Trains(f)
  <2>1. CASE t # s
    BY <1>2, <1>5, <2>1 DEF Trains, Schedules
  <2>2. CASE t = s
    <3>1. /\ stored'[s] \subseteq stored[s] \cup RowsOf(rows)
          /\ a = "Delete" => stored'[s] \subseteq stored[s]
      BY <1>6, <2>2, WrittenRows
    <3>2. stored'[s] \subseteq Trains(f)
      BY <1>3, <2>2, <3>1 DEF Trains, Schedules, Actions
    <3> QED
      BY <1>2, <1>4, <3>2 DEF Trains, Schedules
  <2> QED
    BY <2>1, <2>2
<1>8. Calls(f)' = Calls(f)
  <2>1. CASE t # c
    BY <1>2, <1>5, <2>1 DEF Calls
  <2>2. CASE t = c
    <3>1. RowsOf(rows) # {}
      <4>1. rows \in Seq(Row)
        BY <1>2
      <4>2. 1 \in DOMAIN rows
        BY <1>1, <4>1
      <4> QED
        BY <4>2 DEF RowsOf
    <3>2. a = "Insert"
      BY <1>3, <2>2, <3>1 DEF PlainCalls, Actions
    <3>3. \A r \in RowsOf(rows) : r.key = NoKey /\ \A u \in stored[c] : r.id # u.id
      <4>1. RowsOf(rows) \subseteq Calls(f)
        BY <1>3, <2>2, <3>2 DEF Calls
      <4> QED
        BY <1>2, <2>2, <3>2, <4>1 DEF PlainCalls, IInv, IdInv, IdsUnused
    <3>4. stored'[c] = stored[c] \cup RowsOf(rows)
      BY <1>6, <2>2, <3>2, <3>3, CallsWritten
    <3>5. Waiting(c, a)' = RowsOf(buffer[c][a])
      <4>1. buffer'[c][a] = buffer[c][a] /\ inflight'[c][a] = << >>
        BY <1>1, <1>2, <2>2
      <4> QED
        BY <4>1, NoRowsOf DEF Waiting
    <3>6. Waiting(c, a) = RowsOf(buffer[c][a]) \cup RowsOf(rows)
      BY <2>2 DEF Waiting
    <3> QED
      BY <3>2, <3>4, <3>5, <3>6 DEF Calls
  <2> QED
    BY <2>1, <2>2
<1> QED
  BY <1>2, <1>4, <1>7, <1>8

\* To close a file moves its rows and adds none.
LEMMA CloseRows ==
    ASSUME IInv, NEW f \in Files, CloseTables(f), NEW t \in Tables, NEW a \in Actions
    PROVE  Waiting(t, a)' = Waiting(t, a)
<1>1. /\ pc = "files" /\ stream[f] = "reading"
      /\ t[1] = f => inflight'[t] = buffer[t] /\ buffer'[t] = NoRows[t]
      /\ t[1] # f => inflight'[t] = inflight[t] /\ buffer'[t] = buffer[t]
  BY DEF CloseTables
<1>2. CASE t[1] = f
  <2>1. inflight[t][a] = << >> /\ NoRows[t][a] = << >>
    BY <1>1, <1>2 DEF IInv, Shape, FileShape, TablesOf, NoRows
  <2> QED
    BY <1>1, <1>2, <2>1, NoRowsOf DEF Waiting
<1>3. CASE t[1] # f
  BY <1>1, <1>3 DEF Waiting
<1> QED
  BY <1>2, <1>3

\* The rows of a file that are stored or wait are the same where a step changes
\* neither, or nothing waits.
LEMMA SameRows ==
    ASSUME UNCHANGED stored,
           \/ \A t \in Tables, a \in Actions : Waiting(t, a)' = Waiting(t, a)
           \/ UNCHANGED <<buffer, inflight>>
           \/ Quiet /\ Quiet',
           NEW f \in Files
    PROVE  /\ Trains(f)' = Trains(f) /\ Calls(f)' = Calls(f) /\ Schedules(f)' = Schedules(f)
           /\ OrphanFree(f)' = OrphanFree(f)
           /\ \A a \in Actions : Waiting(<<f, "stop_time">>, a)' = Waiting(<<f, "stop_time">>, a)
<1>1. \A t \in Tables, a \in Actions : Waiting(t, a)' = Waiting(t, a)
  <2>1. CASE UNCHANGED <<buffer, inflight>>
    BY <2>1 DEF Waiting
  <2>2. CASE Quiet /\ Quiet'
    <3>1. ASSUME NEW t \in Tables, NEW a \in Actions
          PROVE  /\ buffer[t][a] = << >> /\ inflight[t][a] = << >>
                 /\ buffer'[t][a] = << >> /\ inflight'[t][a] = << >>
      BY <2>2 DEF Quiet
    <3> QED
      BY <3>1 DEF Waiting
  <2> QED
    BY <2>1, <2>2
<1>2. <<f, "schedule">> \in Tables /\ <<f, "stop_time">> \in Tables /\ {"Insert", "Update"} \subseteq Actions
  BY TableTypes DEF Actions
<1> QED
  BY <1>1, <1>2 DEF Trains, Calls, Schedules, OrphanFree

\* A call that is read follows a line that has been read and has the same owner, which is
\* a schedule that is not deleted.
LEMMA OwnerOfCall ==
    ASSUME NEW n \in Archive, NEW f \in Files, NEW i \in DOMAIN Archives[n].lines[f],
           Archives[n].lines[f][i].table = "stop_time"
    PROVE  LET lines == Archives[n].lines[f]
               j == OwnerLine(lines, i)
           IN  /\ j \in 1..(i - 1) /\ i - 1 \in DOMAIN lines
               /\ OwnerLine(lines, i - 1) = j /\ lines[j].action # "Delete"
<1> DEFINE lines == Archives[n].lines[f]
           owns(k, j) == /\ lines[j].table = "schedule"
                         /\ \A l \in (j + 1)..k : lines[l].table = "stop_time"
<1>1. lines \in Seq(Line) /\ CallsFollowSchedules(lines)
  <2>2. lines \in Seq(Line)
    BY ArchiveTypes
  <2>3. CallsFollowSchedules(lines)
    BY ArchivesAssumption DEF Archive
  <2> QED
    BY <2>2, <2>3
<1>2. Len(lines) \in Nat /\ DOMAIN lines = 1..Len(lines) /\ i \in 1..Len(lines) /\ lines[i].table = "stop_time"
  BY <1>1
<1>3. PICK j \in 1..i : owns(i, j) /\ (j < i => lines[j].action # "Delete")
  BY <1>1, <1>2 DEF CallsFollowSchedules
<1> HIDE DEF lines
<1>4. j # i /\ j \in 1..(i - 1) /\ i - 1 \in 1..Len(lines)
  BY <1>2, <1>3
<1>5. \A k \in {i - 1, i} : \A l \in 1..k : owns(k, l) => l = j
  <2> SUFFICES ASSUME NEW k \in {i - 1, i}, NEW l \in 1..k, owns(k, l), l # j
               PROVE  FALSE
    OBVIOUS
  <2>1. k \in Int /\ l \in Int /\ j \in Int /\ i \in Int /\ l <= k /\ j <= k /\ k <= i
    BY <1>2, <1>4
  <2>2. CASE l < j
    <3>1. j \in (l + 1)..k
      BY <2>1, <2>2
    <3> QED
      BY <1>3, <3>1
  <2>3. CASE j < l
    <3>1. l \in (j + 1)..i
      BY <2>1, <2>3
    <3> QED
      BY <1>3, <3>1
  <2> QED
    BY <2>1, <2>2, <2>3
<1>6. owns(i, j) /\ owns(i - 1, j)
  <2>1. (j + 1)..(i - 1) \subseteq (j + 1)..i
    BY <1>2, <1>4
  <2> QED
    BY <1>3, <2>1
<1>7. \A k : OwnerLine(lines, k) = CHOOSE l \in 1..k : owns(k, l)
  BY DEF OwnerLine
<1>8. OwnerLine(lines, i) = j /\ OwnerLine(lines, i - 1) = j
  <2>1. j \in 1..i /\ j \in 1..(i - 1)
    BY <1>4, <1>2
  <2> HIDE DEF owns
  <2> QED
    BY <1>5, <1>6, <1>7, <2>1
<1>9. lines[j].action # "Delete"
  <2>1. j < i
    BY <1>2, <1>4
  <2> QED
    BY <1>3, <2>1
<1> QED
  BY <1>2, <1>4, <1>8, <1>9 DEF lines

\* One more line read is one more call of its owner, if it is a call.
LEMMA ReadOfNext ==
    ASSUME IInv, NEW f \in Files, ReadLine(f), NEW m \in Nat \X Nat
    PROVE  LET i == at[f] + 1
               line == LinesOf(f)[i]
               own == line.table = "stop_time" /\ m = <<next, OwnerLine(LinesOf(f), i)>>
           IN  /\ ~own => ReadOf(f, m)' = ReadOf(f, m)
               /\ own => /\ ReadOf(f, m)' = ReadOf(f, m) \cup {i} /\ i \notin ReadOf(f, m)
                         /\ IsFiniteSet(ReadOf(f, m))
<1> DEFINE i == at[f] + 1
           line == LinesOf(f)[i]
           own == line.table = "stop_time" /\ m = <<next, OwnerLine(LinesOf(f), i)>>
<1>1. /\ pc = "files" /\ pc' = "files" /\ next' = next /\ next \in Archive /\ at[f] \in Nat
      /\ i \in 1..Len(LinesOf(f)) /\ i \in DOMAIN LinesOf(f) /\ at' = [at EXCEPT ![f] = i]
  BY LineRead
<1>2. at'[f] = at[f] + 1
  BY <1>1 DEF IInv, TypeInv, TypeOK
<1>3. /\ ReadOf(f, m) = {k \in CallLines(f, m) : m[1] = next => k <= at[f]}
      /\ ReadOf(f, m)' = {k \in CallLines(f, m) : m[1] = next => k <= at[f] + 1}
  BY <1>1, <1>2 DEF ReadOf, CallLines
<1>4. m = <<m[1], m[2]>>
  OBVIOUS
<1>5. CASE m[1] # next
  <2>1. ~own
    BY <1>5
  <2> QED
    BY <1>3, <1>5, <2>1
<1>6. CASE m[1] = next
  <2>1. LinesOf(f) = Archives[m[1]].lines[f] /\ DOMAIN LinesOf(f) = 1..Len(LinesOf(f)) /\ Len(LinesOf(f)) \in Nat
    <3>1. LinesOf(f) \in Seq(Line)
      BY <1>1, ArchiveTypes DEF LinesOf
    <3> QED
      BY <1>6, <3>1 DEF LinesOf
  <2>2. CallLines(f, m) \subseteq 1..Len(LinesOf(f))
    BY <2>1 DEF CallLines
  <2>3. i \in CallLines(f, m) <=> own
    <3>1. i \in CallLines(f, m) <=> (line.table = "stop_time" /\ OwnerLine(LinesOf(f), i) = m[2])
      BY <1>1, <2>1 DEF CallLines
    <3> HIDE DEF i, line
    <3> QED
      BY <1>4, <1>6, <3>1
  <2>4. /\ ReadOf(f, m) = {k \in CallLines(f, m) : k <= at[f]}
        /\ ReadOf(f, m)' = {k \in CallLines(f, m) : k <= at[f] + 1}
    BY <1>3, <1>6
  <2>5. i = at[f] + 1 /\ i \notin ReadOf(f, m)
    BY <1>1, <2>4
  <2>6. \A k \in CallLines(f, m) : k <= at[f] + 1 <=> (k <= at[f] \/ k = i)
    BY <1>1, <2>1, <2>2
  <2>7. IsFiniteSet(ReadOf(f, m))
    <3>1. \A n \in Nat : IsFiniteSet(1..n)
      BY FS_Interval
    <3>2. ReadOf(f, m) \in SUBSET (1..Len(LinesOf(f)))
      BY <2>2, <2>4
    <3>3. IsFiniteSet(1..Len(LinesOf(f)))
      BY <2>1, <3>1
    <3> QED
      BY <3>2, <3>3, FS_Subset
  <2> HIDE DEF i, own
  <2> QED
    BY <2>3, <2>4, <2>5, <2>6, <2>7 DEF own, line, i
<1> QED
  BY <1>5, <1>6

\* With fewer schedules and the same calls, what is left has its calls.
LEMMA MatedFewer ==
    ASSUME NEW f \in Files, Mated(f), Trains(f)' \subseteq Trains(f), Calls(f)' = Calls(f),
           \A s \in Trains(f)' : ReadOf(f, s.of)' = ReadOf(f, s.of)
    PROVE  Mated(f)'
<1>1. ASSUME NEW s \in Trains(f)'
      PROVE  /\ \A c \in CallsOf(f, s)' : c.of = s.of
             /\ IsFiniteSet(CallsOf(f, s)')
             /\ Cardinality(CallsOf(f, s)') = Cardinality(ReadOf(f, s.of)')
  <2>1. CallsOf(f, s)' = CallsOf(f, s) /\ s \in Trains(f)
    BY <1>1 DEF CallsOf
  <2> QED
    BY <1>1, <2>1 DEF Mated
<1> QED
  BY <1>1 DEF Mated

\* The rows of the schedules have their types.
LEMMA TrainTypes ==
    ASSUME IInv, NEW f \in Files
    PROVE  /\ \A s \in Trains(f) : s \in Row /\ s.id \in Nat /\ s.of \in Nat \X Nat
           /\ pc = "files" => \A s \in Trains(f) : s.id <= lastId[<<f, "schedule">>]
           /\ \A c \in Calls(f) : c \in Row /\ c.schedule \in Nat
<1>1. /\ <<f, "schedule">> \in Tables /\ <<f, "stop_time">> \in Tables
      /\ "Insert" \in Actions /\ "Update" \in Actions
  BY TableTypes DEF Actions
<1>2. /\ \A s \in Trains(f) : s \in Row
      /\ \A c \in Calls(f) : c \in Row
  BY <1>1, WaitingTypes DEF Trains, Calls, Schedules
<1>3. \A r \in Row : r.id \in Nat /\ r.of \in Nat \X Nat /\ r.schedule \in Nat
  BY DEF Row
<1>4. pc = "files" => \A s \in Trains(f) : s.id <= lastId[<<f, "schedule">>]
  BY <1>1 DEF Trains, Schedules, IInv, IdInv, Counted
<1> QED
  BY <1>2, <1>3, <1>4

\* Reading a call: it joins the calls of the schedule read last, and no other's.
LEMMA OwnCallRead ==
    ASSUME IInv, NEW f \in Files, ReadLine(f), LinesOf(f)[at[f] + 1].table = "stop_time",
           Mated(f), Counting(f)
    PROVE  Mated(f)' /\ Counting(f)'
<1> DEFINE i == at[f] + 1
           j == OwnerLine(LinesOf(f), i)
           s == <<f, "schedule">>
<1>1. /\ pc = "files" /\ next' = next /\ next \in Archive /\ at[f] \in Nat /\ i \in Nat
      /\ i \in DOMAIN LinesOf(f) /\ at'[f] = i /\ LinesOf(f)' = LinesOf(f)
      /\ LinesOf(f) = Archives[next].lines[f]
  <2>1. /\ pc = "files" /\ next' = next /\ next \in Archive /\ at[f] \in Nat /\ i \in Nat
        /\ i \in DOMAIN LinesOf(f) /\ at' = [at EXCEPT ![f] = i]
    BY LineRead
  <2>2. at'[f] = i
    BY <2>1 DEF IInv, TypeInv, TypeOK
  <2> QED
    BY <2>1, <2>2 DEF LinesOf
<1>2. /\ Trains(f)' = Trains(f) /\ lastId'[s] = lastId[s]
      /\ \E r \in Row : /\ r.schedule = lastId[s] /\ r \notin Calls(f) /\ r.of = <<next, j>>
                        /\ Calls(f)' = Calls(f) \cup {r}
  BY RowRead
<1>3. PICK r \in Row : /\ r.schedule = lastId[s] /\ r \notin Calls(f) /\ r.of = <<next, j>>
                       /\ Calls(f)' = Calls(f) \cup {r}
  BY <1>2
<1>4. /\ j \in 1..(i - 1) /\ i - 1 \in DOMAIN LinesOf(f)
      /\ OwnerLine(LinesOf(f), i - 1) = j /\ LinesOf(f)[j].action # "Delete"
  BY <1>1, OwnerOfCall
<1>5. i - 1 = at[f] /\ at[f] > 0 /\ j \in Nat /\ j <= at[f]
  BY <1>1, <1>4
<1>6. ActionOf(f, LinesOf(f)[j]) # "Delete"
  BY <1>4 DEF ActionOf
<1>7. \A u \in Trains(f) : u.id = lastId[s] <=> u.of = <<next, j>>
  <2> HIDE DEF j
  <2> QED
    BY <1>4, <1>5, <1>6 DEF Counting
<1>8. \A u \in Trains(f) : u.id \in Nat /\ u.of \in Nat \X Nat
  BY TrainTypes
<1>9. ASSUME NEW u \in Trains(f)
      PROVE  /\ \A c \in CallsOf(f, u)' : c.of = u.of
             /\ IsFiniteSet(CallsOf(f, u)')
             /\ Cardinality(CallsOf(f, u)') = Cardinality(ReadOf(f, u.of)')
  <2>1. /\ \A c \in CallsOf(f, u) : c.of = u.of
        /\ IsFiniteSet(CallsOf(f, u))
        /\ Cardinality(CallsOf(f, u)) = Cardinality(ReadOf(f, u.of))
    BY DEF Mated
  <2>2. CASE u.id = lastId[s]
    <3>1. u.of = <<next, j>>
      BY <1>7, <2>2
    <3>2. CallsOf(f, u)' = CallsOf(f, u) \cup {r} /\ r \notin CallsOf(f, u)
      BY <1>3, <2>2 DEF CallsOf
    <3>3. ReadOf(f, u.of)' = ReadOf(f, u.of) \cup {i} /\ i \notin ReadOf(f, u.of) /\ IsFiniteSet(ReadOf(f, u.of))
      BY <1>8, <3>1, ReadOfNext
    <3>4. IsFiniteSet(CallsOf(f, u)') /\ Cardinality(CallsOf(f, u)') = Cardinality(CallsOf(f, u)) + 1
      BY <2>1, <3>2, FS_AddElement
    <3>5. Cardinality(ReadOf(f, u.of)') = Cardinality(ReadOf(f, u.of)) + 1
      BY <3>3, FS_AddElement
    <3>6. \A c \in CallsOf(f, u)' : c.of = u.of
      BY <1>3, <2>1, <3>1, <3>2
    <3> QED
      BY <2>1, <3>4, <3>5, <3>6
  <2>3. CASE u.id # lastId[s]
    <3>1. u.of # <<next, j>>
      BY <1>7, <2>3
    <3>2. CallsOf(f, u)' = CallsOf(f, u)
      BY <1>3, <2>3 DEF CallsOf
    <3>3. ReadOf(f, u.of)' = ReadOf(f, u.of)
      BY <1>8, <3>1, ReadOfNext
    <3> QED
      BY <2>1, <3>2, <3>3
  <2> QED
    BY <2>2, <2>3
<1>10. Mated(f)'
  <2> HIDE DEF j, i
  <2> QED
    BY <1>2, <1>9 DEF Mated
<1>11. Counting(f)'
  <2>1. \A u \in Trains(f)' : u.of[1] <= next' /\ (u.of[1] = next' => u.of[2] <= at'[f])
    <3>1. \A u \in Trains(f) : u.of[1] <= next /\ (u.of[1] = next => u.of[2] <= at[f]) /\ u.of[2] \in Nat
      BY <1>8 DEF Counting
    <3>2. \A k \in Nat : k <= at[f] => k <= i
      BY <1>1
    <3> HIDE DEF i, j
    <3> QED
      BY <1>1, <1>2, <3>1, <3>2
  <2>2. \A c \in Calls(f)' : c.schedule <= lastId'[s]
    <3>1. \A c \in Calls(f) : c.schedule <= lastId[s]
      BY DEF Counting
    <3>2. lastId[s] \in Nat
      BY TableTypes DEF IInv, TypeInv, TypeOK
    <3> HIDE DEF i, j, s
    <3> QED
      BY <1>2, <1>3, <3>1, <3>2
  <2>3. OwnerLine(LinesOf(f)', at'[f]) = j
    BY <1>1
  <2>4. \A u \in Trains(f)' : u.id = lastId'[s] <=> u.of = <<next', j>>
    <3> HIDE DEF i, j
    <3> QED
      BY <1>1, <1>2, <1>7
  <2> HIDE DEF i, j
  <2> QED
    BY <2>1, <2>2, <2>3, <2>4 DEF Counting
<1> QED
  BY <1>10, <1>11

\* Reading a schedule: no call is of it yet.
LEMMA OwnTrainRead ==
    ASSUME IInv, NEW f \in Files, ReadLine(f), LinesOf(f)[at[f] + 1].table = "schedule",
           Mated(f), Counting(f)
    PROVE  Mated(f)' /\ Counting(f)'
<1> DEFINE i == at[f] + 1
           a == ActionOf(f, LinesOf(f)[i])
           s == <<f, "schedule">>
<1>1. /\ pc = "files" /\ next' = next /\ next \in Archive /\ next \in Nat /\ at[f] \in Nat /\ i \in Nat
      /\ i \in DOMAIN LinesOf(f) /\ at'[f] = i /\ LinesOf(f)' = LinesOf(f)
      /\ LinesOf(f) = Archives[next].lines[f] /\ i > at[f] /\ i > 0
  <2>1. /\ pc = "files" /\ next' = next /\ next \in Archive /\ at[f] \in Nat /\ i \in Nat
        /\ i \in DOMAIN LinesOf(f) /\ at' = [at EXCEPT ![f] = i]
    BY LineRead
  <2>2. at'[f] = i
    BY <2>1 DEF IInv, TypeInv, TypeOK
  <2>3. next \in Nat
    BY DEF IInv, TypeInv, TypeOK
  <2> QED
    BY <2>1, <2>2, <2>3 DEF LinesOf
<1>2. /\ Calls(f)' = Calls(f)
      /\ a = "Delete" => Trains(f)' = Trains(f) /\ lastId'[s] = lastId[s]
      /\ a # "Delete" => /\ lastId'[s] = lastId[s] + 1
                         /\ \E r \in Row : /\ r.id = lastId[s] + 1 /\ r.of = <<next, i>>
                                           /\ Trains(f)' = Trains(f) \cup {r}
  BY RowRead
<1>3. OwnerLine(LinesOf(f), i) = i
  BY <1>1, OwnLine
<1>4. /\ \A u \in Trains(f) : u.id \in Nat /\ u.of \in Nat \X Nat /\ u.id <= lastId[s]
      /\ \A c \in Calls(f) : c.schedule \in Nat
      /\ lastId[s] \in Nat
  BY <1>1, TrainTypes, TableTypes DEF IInv, TypeInv, TypeOK
<1>5. \A m \in Nat \X Nat : ReadOf(f, m)' = ReadOf(f, m)
  BY ReadOfNext
<1>6. /\ \A u \in Trains(f) : u.of[1] <= next /\ (u.of[1] = next => u.of[2] <= at[f])
      /\ \A c \in Calls(f) : c.schedule <= lastId[s]
  BY DEF Counting
<1>7. ASSUME NEW m \in Nat \X Nat, m = <<next, i>>
      PROVE  ReadOf(f, m)' = {}
  <2>1. /\ next' = next /\ pc' = "files" /\ at'[f] = at[f] + 1 /\ at[f] \in Nat
        /\ LinesOf(f)[i].table = "schedule"
    BY <1>1, LineRead
  <2>2. \A k \in CallLines(f, m) : i <= k /\ k # i /\ k \in Int
    <3>1. ASSUME NEW k \in DOMAIN LinesOf(f), OwnerLine(LinesOf(f), k) = i, LinesOf(f)[k].table = "stop_time"
          PROVE  i <= k /\ k # i /\ k \in Int
      <4>1. OwnerLine(LinesOf(f), k) \in 1..(k - 1) /\ k \in Int
        <5>1. LinesOf(f) \in Seq(Line)
          BY <1>1, ArchiveTypes
        <5>2. k \in Int
          BY <5>1
        <5> QED
          BY <1>1, <3>1, <5>2, OwnerOfCall
      <4> HIDE DEF i
      <4> QED
        BY <1>1, <3>1, <4>1
    <3> HIDE DEF i
    <3> QED
      BY <1>1, <1>7, <3>1 DEF CallLines
  <2>3. ReadOf(f, m)' = {k \in CallLines(f, m) : k <= at[f] + 1}
    <3>1. m[1] = next
      BY <1>7
    <3> QED
      BY <2>1, <3>1 DEF ReadOf, CallLines
  <2> QED
    BY <1>1, <2>2, <2>3
<1>8. \A u \in Trains(f) : CallsOf(f, u)' = CallsOf(f, u) /\ ReadOf(f, u.of)' = ReadOf(f, u.of)
  BY <1>2, <1>4, <1>5 DEF CallsOf
<1>9. ASSUME NEW u \in Trains(f)
      PROVE  /\ \A c \in CallsOf(f, u)' : c.of = u.of
             /\ IsFiniteSet(CallsOf(f, u)')
             /\ Cardinality(CallsOf(f, u)') = Cardinality(ReadOf(f, u.of)')
  BY <1>8 DEF Mated
<1> HIDE DEF i, a
<1>10. CASE a = "Delete"
  <2>1. Mated(f)'
    BY <1>2, <1>9, <1>10 DEF Mated
  <2>2. \A u \in Trains(f)' : u.of[1] <= next' /\ (u.of[1] = next' => u.of[2] <= at'[f])
    <3>1. \A k \in Nat : k <= at[f] => k <= i
      BY <1>1
    <3> QED
      BY <1>1, <1>2, <1>4, <1>6, <1>10, <3>1
  <2>3. \A c \in Calls(f)' : c.schedule <= lastId'[s]
    BY <1>2, <1>6, <1>10
  <2>4. OwnerLine(LinesOf(f)', at'[f]) = i /\ ActionOf(f, LinesOf(f)'[i]) = "Delete"
    BY <1>1, <1>3, <1>10 DEF a
  <2> QED
    BY <2>1, <2>2, <2>3, <2>4 DEF Counting, ActionOf
<1>11. CASE a # "Delete"
  <2>1. PICK r \in Row : /\ r.id = lastId[s] + 1 /\ r.of = <<next, i>>
                         /\ Trains(f)' = Trains(f) \cup {r}
    BY <1>2, <1>11
  <2>2. /\ CallsOf(f, r)' = {} /\ ReadOf(f, r.of)' = {}
    <3>1. \A c \in Calls(f) : c.schedule # r.id
      BY <1>4, <1>6, <2>1
    <3> QED
      BY <1>1, <1>2, <1>7, <2>1, <3>1 DEF CallsOf
  <2>3. Mated(f)'
    <3>1. /\ \A c \in CallsOf(f, r)' : c.of = r.of
          /\ IsFiniteSet(CallsOf(f, r)')
          /\ Cardinality(CallsOf(f, r)') = Cardinality(ReadOf(f, r.of)')
      BY <2>2, FS_EmptySet
    <3> QED
      BY <1>9, <2>1, <3>1 DEF Mated
  <2>4. \A u \in Trains(f)' : u.of[1] <= next' /\ (u.of[1] = next' => u.of[2] <= at'[f])
    <3>1. \A k \in Nat : k <= at[f] => k <= i
      BY <1>1
    <3>2. \A u \in Trains(f) : u.of[1] <= next' /\ (u.of[1] = next' => u.of[2] <= at'[f])
      BY <1>1, <1>4, <1>6, <3>1
    <3> QED
      BY <1>1, <2>1, <3>2
  <2>5. \A c \in Calls(f)' : c.schedule <= lastId'[s]
    BY <1>2, <1>4, <1>6, <1>11
  <2>6. OwnerLine(LinesOf(f)', at'[f]) = i
    BY <1>1, <1>3
  <2>7. \A u \in Trains(f)' : u.id = lastId'[s] <=> u.of = <<next', i>>
    <3>1. ASSUME NEW u \in Trains(f)
          PROVE  u.id # lastId'[s] /\ u.of # <<next', i>>
      <4>1. u.id # lastId'[s]
        BY <1>2, <1>4, <1>11
      <4>2. u.of[1] = next => u.of[2] <= at[f] /\ u.of[2] \in Nat
        BY <1>4, <1>6
      <4>3. u.of # <<next, i>>
        BY <1>1, <4>2
      <4> QED
        BY <1>1, <4>1, <4>3
    <3> QED
      BY <1>1, <1>2, <1>11, <2>1, <3>1
  <2> QED
    BY <2>3, <2>4, <2>5, <2>6, <2>7 DEF Counting, ActionOf
<1> QED
  BY <1>10, <1>11

\* Only the end of an import changes which archive is the last recorded.
LEMMA LastArchiveStep ==
    ASSUME IInv, [Next]_vars
    PROVE  LA' = LA \/ (UpdateLastFile /\ LA' = next)
<1>1. CASE log' = log
  BY <1>1 DEF LA
<1>2. CASE UpdateLastFile
  <2>1. log' = Append(log, next) /\ log \in Seq(Archive \cup {Other}) /\ next \in Archive /\ next # Other
    BY <1>2, TableTypes DEF UpdateLastFile, IInv, TypeInv, TypeOK, InRange, Importing
  <2>2. ImportLog!LastArchive(Append(log, next)) = next
    BY <2>1, LastArchiveOf
  <2> QED
    BY <1>2, <2>1, <2>2 DEF LA
<1>3. CASE ImportOther
  <2>1. log' = Append(log, Other) /\ log \in Seq(Archive \cup {Other})
    BY <1>3 DEF ImportOther, IInv, TypeInv, TypeOK
  <2>2. ImportLog!LastArchive(Append(log, Other)) = ImportLog!LastArchive(log)
    BY <2>1, LastArchiveOf
  <2> QED
    BY <2>1, <2>2 DEF LA
<1> QED
  BY <1>1, <1>2, <1>3
     DEF Next, Work, Fault, vars, database, Start, StartUnsure, Begin, DropTable, Dropped,
         CreateTable, Created, RestoreIds, ReadLine, RefuseLine, CloseTables, Closed, Commit,
         WriteFails, FilesSettled, Sweep, Swept, End, Crash, Gone, Publish

\* Calls are only ever inserted, and have no key.
LEMMA PlainStep ==
    ASSUME IInv, IInv', PlainCalls, [Next]_vars
    PROVE  PlainCalls'
<1> USE TableTypes
<1>1. ASSUME \A f \in Files :
               /\ Calls(f)' \subseteq Calls(f)
               /\ \A a \in Actions : Waiting(<<f, "stop_time">>, a)' \subseteq Waiting(<<f, "stop_time">>, a)
      PROVE  PlainCalls'
  BY <1>1 DEF PlainCalls, Actions
<1>2. CASE /\ UNCHANGED stored
           /\ \/ \A t \in Tables, a \in Actions : Waiting(t, a)' = Waiting(t, a)
              \/ UNCHANGED <<buffer, inflight>>
              \/ Quiet'
  <2>1. CASE ~Quiet'
    BY <1>1, <1>2, <2>1, SameRows
  <2>2. CASE Quiet'
    <3>1. \A f \in Files, a \in Actions : Waiting(<<f, "stop_time">>, a)' = {}
      BY <2>2, NoRowsOf DEF Quiet, Waiting
    <3>2. \A f \in Files : Calls(f)' \subseteq Calls(f)
      BY <1>2, <3>1 DEF Calls, Actions
    <3> QED
      BY <1>1, <3>1, <3>2
  <2> QED
    BY <2>1, <2>2
<1>3. CASE \/ Start \/ StartUnsure \/ Begin \/ Dropped \/ Created \/ RestoreIds
           \/ FilesSettled \/ Swept \/ UpdateLastFile \/ Publish \/ ImportOther \/ UNCHANGED vars
  <2>1. UNCHANGED <<stored, buffer, inflight>>
    BY <1>3 DEF Start, StartUnsure, Begin, Dropped, Created, RestoreIds, FilesSettled, Swept,
                UpdateLastFile, Publish, ImportOther, vars, database, process
  <2> QED
    BY <1>2, <2>1
<1>4. CASE End \/ Crash
  <2>1. stored' = stored /\ pc' = "idle"
    BY <1>4 DEF End, Crash, Gone, NoProcess, database
  <2>2. Quiet'
    BY <2>1 DEF IInv, Shape
  <2> QED
    BY <1>2, <2>1, <2>2
<1>5. ASSUME NEW f \in Files, ReadLine(f)
      PROVE  PlainCalls'
  <2>1. \A g \in Files : \A c \in Calls(g)' : c \in Calls(g) \/ c.key = NoKey
    BY <1>5, RowRead
  <2>2. \A b \in {"Update", "Delete"}, g \in Files :
           Waiting(<<g, "stop_time">>, b)' = Waiting(<<g, "stop_time">>, b)
    BY <1>5, RowRead
  <2> QED
    BY <2>1, <2>2 DEF PlainCalls
<1>6. ASSUME NEW f \in Files, CloseTables(f)
      PROVE  PlainCalls'
  <2>1. UNCHANGED stored
    BY <1>6 DEF CloseTables, database
  <2> QED
    BY <1>2, <1>6, <2>1, CloseRows
<1>7. ASSUME NEW f \in Files, RefuseLine(f) \/ Closed(f)
      PROVE  PlainCalls'
  BY <1>2, <1>7 DEF RefuseLine, Closed, database
<1>8. ASSUME NEW t \in Tables, NEW a \in Actions, Commit(t, a)
      PROVE  PlainCalls'
  BY <1>1, <1>8, CommitRows
<1>9. ASSUME /\ buffer' = buffer /\ \A t \in Tables : stored'[t] \subseteq stored[t]
             /\ \A t \in Tables, a \in Actions : inflight'[t][a] \in {inflight[t][a], << >>}
      PROVE  PlainCalls'
  <2>1. \A t \in Tables, a \in Actions : Waiting(t, a)' \subseteq Waiting(t, a)
    BY <1>9, NoRowsOf DEF Waiting
  <2> QED
    BY <1>1, <1>9, <2>1 DEF Calls, Actions
<1>10. /\ stored \in [Tables -> SUBSET Row] /\ inflight \in [Tables -> [Actions -> Seq(Row)]]
  BY DEF IInv, TypeInv, TypeOK
<1>11. ASSUME NEW t \in Tables, NEW a \in Actions, WriteFails(t, a)
       PROVE  PlainCalls'
  <2>1. /\ UNCHANGED <<stored, buffer>> /\ inflight' = [inflight EXCEPT ![t][a] = << >>]
    BY <1>11 DEF WriteFails, database
  <2> QED
    BY <1>9, <1>10, <2>1
<1>12. ASSUME NEW t \in Tables, DropTable(t) \/ CreateTable(t)
       PROVE  PlainCalls'
  <2>1. /\ UNCHANGED <<buffer, inflight>> /\ (stored' = [stored EXCEPT ![t] = {}] \/ stored' = stored)
    BY <1>12 DEF DropTable, CreateTable, process
  <2> QED
    BY <1>9, <1>10, <2>1
<1>13. ASSUME NEW f \in Files, Sweep(f)
       PROVE  PlainCalls'
  <2>1. UNCHANGED <<buffer, inflight>> /\ \A t \in Tables : stored'[t] \subseteq stored[t]
    BY <1>10, <1>13 DEF Sweep
  <2> QED
    BY <1>9, <2>1
<1> QED
  BY <1>3, <1>4, <1>5, <1>6, <1>7, <1>8, <1>11, <1>12, <1>13 DEF Next, Work, Fault

\* Outside the reading of files a schedule has all its calls read.
LEMMA ReadOfAll ==
    ASSUME pc # "files", NEW f, NEW m
    PROVE  ReadOf(f, m) = CallLines(f, m)
  BY DEF ReadOf

\* A step that changes no row, and reads none, leaves the calls with their schedules.
LEMMA OwnFrame ==
    ASSUME NEW f \in Files, Mated(f), UNCHANGED stored,
           UNCHANGED <<buffer, inflight>> \/ (Quiet /\ Quiet'),
           (pc # "files" /\ pc' # "files") \/ UNCHANGED <<pc, next, at>>
    PROVE  /\ Mated(f)' /\ Trains(f)' = Trains(f) /\ Schedules(f)' = Schedules(f)
           /\ OrphanFree(f)' = OrphanFree(f) /\ Calls(f)' = Calls(f)
<1>1. /\ Trains(f)' = Trains(f) /\ Schedules(f)' = Schedules(f)
      /\ OrphanFree(f)' = OrphanFree(f) /\ Calls(f)' = Calls(f)
  BY SameRows
<1>2. \A m : ReadOf(f, m)' = ReadOf(f, m)
  BY DEF ReadOf, CallLines
<1> QED
  BY <1>1, <1>2, MatedFewer

\* While files are read, what is not a line of a file only takes schedules from it.
LEMMA OwnFewer ==
    ASSUME NEW f \in Files, Mated(f), Counting(f), Trains(f)' \subseteq Trains(f),
           Calls(f)' = Calls(f), UNCHANGED <<pc, next>>, at'[f] = at[f],
           lastId'[<<f, "schedule">>] = lastId[<<f, "schedule">>]
    PROVE  Mated(f)' /\ Counting(f)'
<1>1. \A m : ReadOf(f, m)' = ReadOf(f, m)
  BY DEF ReadOf, CallLines
<1>2. LinesOf(f)' = LinesOf(f)
  BY DEF LinesOf
<1>3. Counting(f)'
  <2>1. \A s \in Trains(f)' : s.of[1] <= next' /\ (s.of[1] = next' => s.of[2] <= at'[f])
    BY DEF Counting
  <2>2. \A c \in Calls(f)' : c.schedule <= lastId'[<<f, "schedule">>]
    BY DEF Counting
  <2>3. at'[f] > 0 =>
           LET j == OwnerLine(LinesOf(f)', at'[f])
           IN  ActionOf(f, LinesOf(f)'[j]) # "Delete" =>
                  \A s \in Trains(f)' : s.id = lastId'[<<f, "schedule">>] <=> s.of = <<next', j>>
    BY <1>2 DEF Counting
  <2> QED
    BY <2>1, <2>2, <2>3 DEF Counting, ActionOf
<1> QED
  BY <1>1, <1>3, MatedFewer

\* With nothing waiting there are the schedules stored, and no more.
LEMMA QuietTrains ==
    ASSUME Quiet, NEW f \in Files
    PROVE  Trains(f) = Schedules(f) /\ Calls(f) = stored[<<f, "stop_time">>]
<1>1. \A t \in Tables, a \in Actions : Waiting(t, a) = {}
  BY NoRowsOf DEF Quiet, Waiting
<1> QED
  BY <1>1, TableTypes DEF Trains, Calls, Actions

\* An import starts with counters past all that is stored, and nothing of its archive.
LEMMA OwnRestored ==
    ASSUME IInv, Emptied, MayNext, LA \in Nat, NEW f \in Files, RestoreIds, schema = Tables,
           Mated(f), Past(f)
    PROVE  Mated(f)' /\ Counting(f)'
<1> DEFINE s == <<f, "schedule">>
<1>1. /\ pc = "restore" /\ pc' = "files" /\ UNCHANGED <<stored, buffer, inflight, next, upto>>
      /\ lastId' = [t \in Tables |-> RestoredId(t)] /\ at' = [g \in Files |-> 0]
  BY DEF RestoreIds, database
<1>2. Quiet /\ next <= upto /\ next \in Nat
  BY <1>1 DEF IInv, Shape, TypeInv, TypeOK, InRange, Importing
<1>3. Trains(f) = Schedules(f) /\ Calls(f) = stored[<<f, "stop_time">>]
  BY <1>2, QuietTrains
<1>4. /\ Trains(f)' = Trains(f) /\ Calls(f)' = Calls(f)
  BY <1>1, SameRows
<1>5. \A u \in Trains(f) : u.of[1] < next /\ u.of[1] \in Nat
  <2>1. \A u \in Trains(f) : u.of[1] \in Nat
    BY TrainTypes
  <2>2. CASE Archives[next].full
    BY <1>1, <1>3, <2>2 DEF Past
  <2>3. CASE ~Archives[next].full
    <3>1. next = LA + 1
      BY <1>1, <1>2, <2>3 DEF MayNext
    <3>2. \A u \in Trains(f) : u.of[1] <= LA
      BY <1>1, <1>3 DEF Past
    <3> QED
      BY <2>1, <3>1, <3>2
  <2> QED
    BY <2>2, <2>3
<1>6. at'[f] = 0 /\ s \in Tables /\ lastId'[s] = RestoredId(s)
  BY <1>1, TableTypes
<1>7. \A u \in Trains(f) : ReadOf(f, u.of)' = ReadOf(f, u.of)
  <2>1. \A u \in Trains(f) : u.of[1] # next
    BY <1>2, <1>5
  <2> QED
    BY <1>1, <2>1 DEF ReadOf, CallLines
<1>8. Mated(f)'
  BY <1>4, <1>7, MatedFewer
<1>9. \A c \in Calls(f) : c.schedule <= RestoredId(s)
  <2>1. \A u \in stored[s] : u.id <= RestoredId(s)
    <3>1. stored[s] \subseteq Row
      BY <1>6 DEF IInv, TypeInv, TypeOK
    <3>2. PICK b \in Nat : \A r \in stored[s] : r.id <= b
      BY <1>6 DEF IInv, TypeInv, Bounded
    <3> QED
      BY <1>6, <3>1, <3>2, RestoredIdType
  <2>2. \A c \in Calls(f) : \E u \in stored[s] : c.schedule = u.id
    BY <1>1, <1>3 DEF Past, OrphanFree
  <2> QED
    BY <2>1, <2>2
<1>10. Counting(f)'
  <2>1. \A u \in Trains(f)' : u.of[1] <= next' /\ (u.of[1] = next' => u.of[2] <= at'[f])
    BY <1>1, <1>2, <1>4, <1>5
  <2>2. \A c \in Calls(f)' : c.schedule <= lastId'[s]
    BY <1>4, <1>6, <1>9
  <2>3. ~(at'[f] > 0)
    BY <1>6
  <2> QED
    BY <2>1, <2>2, <2>3 DEF Counting
<1> QED
  BY <1>8, <1>10

\* The sweep takes only calls that are no schedule's.
LEMMA OwnSwept ==
    ASSUME IInv, NEW f \in Files, NEW g \in Files, Sweep(g), Mated(f)
    PROVE  Mated(f)' /\ Schedules(f)' = Schedules(f)
<1> DEFINE c == <<f, "stop_time">>
<1>1. /\ pc = "sweep" /\ pc' = "sweep" /\ UNCHANGED <<buffer, inflight, next>>
      /\ stored' = [stored EXCEPT ![<<g, "stop_time">>] =
                       {r \in stored[<<g, "stop_time">>] :
                           \E s \in stored[<<g, "schedule">>] : r.schedule = s.id}]
  BY DEF Sweep
<1>2. Quiet /\ Quiet'
  <2>1. Quiet
    BY <1>1 DEF IInv, Shape
  <2> QED
    BY <1>1, <2>1 DEF Quiet
<1>3. Trains(f) = Schedules(f) /\ Calls(f) = stored[c]
  BY <1>2, QuietTrains
<1>4. (Trains(f) = Schedules(f) /\ Calls(f) = stored[<<f, "stop_time">>])'
  BY <1>2, QuietTrains, PTL
<1>5. /\ stored \in [Tables -> SUBSET Row] /\ c \in Tables /\ <<f, "schedule">> \in Tables
      /\ <<g, "stop_time">> \in Tables
  BY TableTypes DEF IInv, TypeInv, TypeOK
<1>6. Schedules(f)' = Schedules(f)
  BY <1>1, <1>5 DEF Schedules
<1>7. /\ stored'[c] \subseteq stored[c]
      /\ \A r \in stored[c] : (\E s \in Schedules(f) : r.schedule = s.id) => r \in stored'[c]
  BY <1>1, <1>5 DEF Schedules
<1>8. \A s \in Trains(f) : CallsOf(f, s)' = CallsOf(f, s)
  BY <1>3, <1>4, <1>7 DEF CallsOf
<1>9. \A m : ReadOf(f, m)' = ReadOf(f, m)
  BY <1>1 DEF ReadOf, CallLines
<1>10. ASSUME NEW s \in Trains(f)
       PROVE  /\ \A r \in CallsOf(f, s)' : r.of = s.of
              /\ IsFiniteSet(CallsOf(f, s)')
              /\ Cardinality(CallsOf(f, s)') = Cardinality(ReadOf(f, s.of)')
  BY <1>8, <1>9 DEF Mated
<1>11. Trains(f)' = Trains(f)
  BY <1>3, <1>4, <1>6
<1> QED
  BY <1>6, <1>10, <1>11 DEF Mated

\* A file that another step leaves alone, while files are read.
LEMMA OwnOtherStep ==
    ASSUME IInv, NEW f \in Files, Own(f), pc = "files", pc' = pc, Trains(f)' \subseteq Trains(f),
           Calls(f)' = Calls(f), next' = next, at'[f] = at[f],
           lastId'[<<f, "schedule">>] = lastId[<<f, "schedule">>]
    PROVE  Own(f)'
<1>1. Mated(f)' /\ Counting(f)'
  BY OwnFewer DEF Own
<1> QED
  BY <1>1 DEF Own

\* Every step leaves the calls of a watched file with their schedules.
LEMMA OwnStep ==
    ASSUME OnlyRefreshes \/ NothingFails, IInv, IInv', CallsInv, [Next]_vars,
           NEW f \in Files, Watched(f)'
    PROVE  Own(f)'
<1> USE TableTypes
<1>0. /\ Watched(f) => Own(f)
      /\ LA \in Nat
      /\ NothingFails => ~(faults < MaxFaults)
      /\ NothingFails /\ pc = "files" => \A g \in Files : stream[g] # "failed"
      /\ NothingFails /\ pc = "ending" => Quiet
      /\ pc \notin {"files", "ending"} => Quiet
      /\ pc' \notin {"files", "ending"} => Quiet'
      /\ stream \in [Files -> {"reading", "flushing", "closing", "done", "failed", "swept"}]
      /\ at \in [Files -> Nat] /\ lastId \in [Tables -> Nat]
  <2>1. pc \notin {"files", "ending"} => Quiet
    BY DEF IInv, Shape
  <2>2. pc' \notin {"files", "ending"} => Quiet'
    BY DEF IInv, Shape
  <2>3. NothingFails => ~(faults < MaxFaults)
    BY DEF NothingFails, IInv, TypeInv, TypeOK
  <2> QED
    BY <2>1, <2>2, <2>3 DEF CallsInv, OwnInv, IInv, TypeInv, TypeOK
<1>1. CASE pc' \in {"drop", "create"}
  BY <1>1 DEF Watched
<1>2. CASE Start \/ StartUnsure \/ End
  <2>1. /\ pc \in {"idle", "next", "ending"} /\ pc' \in {"idle", "next"} /\ NothingFails
        /\ UNCHANGED <<stored, log>>
    BY <1>2 DEF Start, StartUnsure, End, Gone, NoProcess, database, Watched
  <2>2. Mated(f) /\ Past(f) /\ Quiet /\ Quiet'
    BY <1>0, <2>1 DEF Watched, Own
  <2>3. Mated(f)' /\ Schedules(f)' = Schedules(f) /\ OrphanFree(f)' = OrphanFree(f)
    BY <2>1, <2>2, OwnFrame
  <2>4. LA' = LA
    BY <2>1 DEF LA
  <2> QED
    BY <2>1, <2>2, <2>3, <2>4 DEF Own, Past
<1>3. CASE Begin
  <2>1. /\ pc = "next" /\ next <= upto /\ UNCHANGED <<stored, log, next>>
        /\ pc' = IF Archives[next].full THEN "drop" ELSE "restore"
    BY <1>3 DEF Begin, database
  <2>2. CASE ~Archives[next].full
    <3>1. NothingFails
      <4>1. next \in Archive
        BY <2>1 DEF IInv, TypeInv, TypeOK
      <4> QED
        BY <2>2, <4>1 DEF OnlyRefreshes
    <3>2. Mated(f) /\ Past(f) /\ Quiet /\ Quiet'
      BY <1>0, <2>1, <2>2, <3>1 DEF Watched, Own
    <3>3. Mated(f)' /\ Schedules(f)' = Schedules(f) /\ OrphanFree(f)' = OrphanFree(f)
      BY <2>1, <2>2, <3>2, OwnFrame
    <3>4. LA' = LA
      BY <2>1 DEF LA
    <3> QED
      BY <2>1, <2>2, <3>2, <3>3, <3>4 DEF Own, Past
  <2> QED
    BY <1>1, <2>1, <2>2
<1>4. CASE Created
  <2>1. pc = "create" /\ pc' = "restore" /\ stored' = stored
    BY <1>4 DEF Created, database
  <2>2. Schedules(f)' = {} /\ stored'[<<f, "stop_time">>] = {}
    BY <2>1 DEF CallsInv, Emptied, Schedules
  <2>3. (Trains(f) = Schedules(f))'
    <3>1. Quiet'
      BY <1>0, <2>1
    <3> QED
      BY <3>1, QuietTrains, PTL
  <2>4. Mated(f)' /\ Past(f)'
    BY <2>2, <2>3 DEF Mated, Past, OrphanFree
  <2> QED
    BY <2>1, <2>4 DEF Own
<1>5. CASE RestoreIds
  <2>1. pc = "restore" /\ UNCHANGED <<stored, buffer, inflight, log, next>>
    BY <1>5 DEF RestoreIds, database
  <2>2. Mated(f) /\ Past(f)
    BY <1>0, <2>1 DEF Watched, Own
  <2>3. CASE schema = Tables
    <3>1. pc' = "files"
      BY <1>5, <2>3 DEF RestoreIds
    <3>2. Mated(f)' /\ Counting(f)'
      BY <1>0, <1>5, <2>2, <2>3, OwnRestored DEF CallsInv
    <3> QED
      BY <3>1, <3>2 DEF Own
  <2>4. CASE schema # Tables
    <3>1. pc' = "ending"
      BY <1>5, <2>4 DEF RestoreIds
    <3>2. Mated(f)' /\ Schedules(f)' = Schedules(f) /\ OrphanFree(f)' = OrphanFree(f)
      BY <2>1, <2>2, <3>1, OwnFrame
    <3>3. LA' = LA
      BY <2>1 DEF LA
    <3> QED
      BY <2>2, <3>1, <3>2, <3>3 DEF Own, Past
  <2> QED
    BY <2>3, <2>4
<1>6. CASE FilesSettled
  <2>1. /\ pc = "files" /\ UNCHANGED <<stored, buffer, inflight, next, at, stream>>
        /\ \A g \in Files : stream[g] \in {"done", "failed"}
        /\ pc' = IF \A g \in Files : stream[g] = "done" THEN "sweep" ELSE "ending"
    BY <1>6 DEF FilesSettled, database
  <2>2. pc' = "sweep" /\ stream[f] = "done"
    BY <1>0, <2>1 DEF Watched
  <2>3. Mated(f) /\ Counting(f)
    BY <1>0, <2>1, <2>2 DEF Watched, Own
  <2>4. at[f] = Len(LinesOf(f)) /\ next \in Archive
    BY <2>1, <2>2 DEF IInv, Shape, FileShape, TypeInv, TypeOK, InRange, Importing
  <2>5. \A m : ReadOf(f, m)' = ReadOf(f, m)
    <3>1. ASSUME NEW m
          PROVE  ReadOf(f, m) = CallLines(f, m)
      <4>1. m[1] = next => CallLines(f, m) \subseteq 1..Len(LinesOf(f)) /\ Len(LinesOf(f)) \in Nat
        <5>1. LinesOf(f) \in Seq(Line)
          BY <2>4, ArchiveTypes DEF LinesOf
        <5> QED
          BY <5>1 DEF CallLines, LinesOf
      <4> QED
        BY <2>4, <4>1 DEF ReadOf
    <3>2. \A m : ReadOf(f, m)' = CallLines(f, m)
      BY <2>2 DEF ReadOf, CallLines
    <3> QED
      BY <3>1, <3>2
  <2>6. Trains(f)' = Trains(f) /\ Calls(f)' = Calls(f) /\ Schedules(f)' = Schedules(f)
    BY <2>1, SameRows
  <2>7. Mated(f)'
    BY <2>3, <2>5, <2>6, MatedFewer
  <2>8. \A s \in Schedules(f)' : s.of[1] <= next'
    BY <2>1, <2>3, <2>6 DEF Counting, Trains
  <2> QED
    BY <2>2, <2>7, <2>8 DEF Own
<1>7. CASE Swept
  <2>1. pc = "sweep" /\ pc' = "log" /\ UNCHANGED <<stored, buffer, inflight, next, stream>>
    BY <1>7 DEF Swept, database
  <2>2. Mated(f) /\ \A s \in Schedules(f) : s.of[1] <= next
    BY <1>0, <2>1 DEF Watched, Own
  <2>3. Mated(f)' /\ Schedules(f)' = Schedules(f)
    BY <2>1, <2>2, OwnFrame
  <2> QED
    BY <2>1, <2>2, <2>3 DEF Own
<1>8. CASE UpdateLastFile
  <2>1. pc = "log" /\ pc' = "next" /\ UNCHANGED <<stored, buffer, inflight>>
    BY <1>8 DEF UpdateLastFile
  <2>2. stream[f] = "swept" /\ OrphanFree(f)
    BY <2>1 DEF CallsInv, SweptInv
  <2>3. Mated(f) /\ \A s \in Schedules(f) : s.of[1] <= next
    BY <1>0, <2>1, <2>2 DEF Watched, Own
  <2>4. Mated(f)' /\ Schedules(f)' = Schedules(f) /\ OrphanFree(f)' = OrphanFree(f)
    BY <2>1, <2>3, OwnFrame
  <2>5. LA' = next
    <3>1. log' = Append(log, next) /\ log \in Seq(Archive \cup {Other}) /\ next \in Archive /\ next # Other
      BY <1>8 DEF UpdateLastFile, IInv, TypeInv, TypeOK, InRange, Importing
    <3>2. ImportLog!LastArchive(Append(log, next)) = next
      BY <3>1, LastArchiveOf
    <3> QED
      BY <3>1, <3>2 DEF LA
  <2> QED
    BY <2>1, <2>2, <2>3, <2>4, <2>5 DEF Own, Past
<1>9. CASE Crash
  <2>1. pc' = "idle" /\ faults < MaxFaults
    BY <1>9 DEF Crash, Gone, NoProcess
  <2> QED
    BY <1>0, <2>1 DEF Watched
<1>10. CASE Publish \/ ImportOther \/ UNCHANGED vars
  <2>1. UNCHANGED <<stored, process>>
    BY <1>10 DEF Publish, ImportOther, vars, database
  <2>2. UNCHANGED <<stored, pc, next, lastId, stream, at, buffer, inflight>>
    BY <2>1 DEF process
  <2>3. Own(f)
    BY <1>0, <2>2 DEF Watched
  <2>4. /\ Mated(f)' /\ Trains(f)' = Trains(f) /\ Schedules(f)' = Schedules(f)
        /\ OrphanFree(f)' = OrphanFree(f) /\ Calls(f)' = Calls(f)
    BY <2>2, <2>3, OwnFrame DEF Own
  <2>5. pc = "files" => Counting(f)'
    BY <2>2, <2>3, <2>4, OwnFewer DEF Own
  <2>6. LA' = LA
    <3>1. ~UpdateLastFile
      BY <2>2 DEF UpdateLastFile
    <3> QED
      BY <3>1, LastArchiveStep
  <2> QED
    BY <2>2, <2>3, <2>4, <2>5, <2>6 DEF Own, Past
<1>11. ASSUME NEW t \in Tables, DropTable(t) \/ CreateTable(t)
       PROVE  Own(f)'
  BY <1>1, <1>11 DEF DropTable, CreateTable, process
<1>12. CASE Dropped
  BY <1>1, <1>12 DEF Dropped
<1>13. ASSUME NEW g \in Files, ReadLine(g)
       PROVE  Own(f)'
  <2>1. /\ pc = "files" /\ pc' = "files" /\ next' = next /\ stream[g] = "reading"
        /\ \A h \in Files \ {g} : stream'[h] = stream[h]
        /\ LinesOf(g)[at[g] + 1].table \in {"schedule", "stop_time"}
    BY <1>13, LineRead, RowRead
  <2>2. Own(f)
    BY <1>0, <2>1 DEF Watched
  <2>3. CASE g = f
    <3>1. Mated(f)' /\ Counting(f)'
      BY <1>13, <2>1, <2>2, <2>3, OwnCallRead, OwnTrainRead DEF Own
    <3> QED
      BY <2>1, <3>1 DEF Own
  <2>4. CASE g # f
    <3>1. Trains(f)' = Trains(f) /\ Calls(f)' = Calls(f)
      BY <1>13, <2>4, RowRead
    <3>2. at'[f] = at[f] /\ lastId'[<<f, "schedule">>] = lastId[<<f, "schedule">>]
      <4>1. PICK t \in Tables, a \in Actions, id \in Nat, rows \in Seq(Row) : ReadAs(g, t, a, id, rows)
        BY <1>13, ReadLineAs DEF IInv
      <4>2. t # <<f, "schedule">>
        BY <2>4, <4>1 DEF ReadAs
      <4> QED
        BY <1>0, <2>4, <4>1, <4>2 DEF ReadAs
    <3> QED
      BY <2>1, <2>2, <3>1, <3>2, OwnOtherStep
  <2> QED
    BY <2>3, <2>4
<1>14. ASSUME NEW g \in Files, CloseTables(g) \/ Closed(g) \/ RefuseLine(g)
       PROVE  Own(f)'
  <2>1. /\ pc = "files" /\ UNCHANGED <<pc, next, at, lastId, stored>>
        /\ stream'[f] # "failed" => stream[f] # "failed"
    BY <1>0, <1>14 DEF CloseTables, Closed, RefuseLine, database
  <2>2. Own(f)
    BY <1>0, <2>1 DEF Watched
  <2>3. \/ \A t \in Tables, a \in Actions : Waiting(t, a)' = Waiting(t, a)
        \/ UNCHANGED <<buffer, inflight>>
    BY <1>14, CloseRows DEF Closed, RefuseLine
  <2>4. Trains(f)' = Trains(f) /\ Calls(f)' = Calls(f)
    BY <2>1, <2>3, SameRows
  <2> QED
    BY <2>1, <2>2, <2>4, OwnOtherStep
<1>15. ASSUME NEW t \in Tables, NEW a \in Actions, Commit(t, a) \/ WriteFails(t, a)
       PROVE  Own(f)'
  <2>1. /\ inflight[t][a] # << >> /\ UNCHANGED <<pc, next, at, lastId>>
        /\ stream'[f] # "failed" => stream[f] # "failed"
    BY <1>0, <1>15 DEF Commit, WriteFails
  <2>2. pc = "files"
    <3>1. ~Quiet
      BY <2>1 DEF Quiet
    <3>2. pc \in {"files", "ending"}
      BY <1>0, <3>1
    <3> QED
      BY <1>0, <2>1, <3>1, <3>2 DEF Watched
  <2>3. Own(f)
    BY <1>0, <2>1, <2>2 DEF Watched
  <2>4. CASE Commit(t, a)
    <3>1. Trains(f)' \subseteq Trains(f) /\ Calls(f)' = Calls(f)
      BY <2>4, CommitRows DEF CallsInv
    <3> QED
      BY <2>1, <2>2, <2>3, <3>1, OwnOtherStep
  <2>5. CASE WriteFails(t, a)
    <3>1. /\ UNCHANGED <<stored, buffer>> /\ inflight' = [inflight EXCEPT ![t][a] = << >>]
          /\ stream' = [stream EXCEPT ![t[1]] = "failed"]
      BY <2>5 DEF WriteFails, database
    <3>2. t[1] # f
      BY <1>0, <2>1, <2>2, <3>1 DEF Watched
    <3>3. \A k \in {"schedule", "stop_time"}, b \in Actions :
             Waiting(<<f, k>>, b)' = Waiting(<<f, k>>, b)
      <4>1. ASSUME NEW k \in {"schedule", "stop_time"}
            PROVE  inflight'[<<f, k>>] = inflight[<<f, k>>]
        <5>1. <<f, k>> # t
          BY <3>2
        <5>2. <<f, k>> \in Tables
          BY DEF Tables
        <5> QED
          BY <3>1, <5>1, <5>2 DEF IInv, TypeInv, TypeOK
      <4> QED
        BY <3>1, <4>1 DEF Waiting
    <3>4. Trains(f)' = Trains(f) /\ Calls(f)' = Calls(f)
      BY <3>1, <3>3 DEF Trains, Calls, Schedules, Actions
    <3> QED
      BY <2>1, <2>2, <2>3, <3>4, OwnOtherStep
  <2> QED
    BY <1>15, <2>4, <2>5
<1>16. ASSUME NEW g \in Files, Sweep(g)
       PROVE  Own(f)'
  <2>1. /\ pc = "sweep" /\ pc' = "sweep" /\ next' = next
        /\ stream'[f] # "failed" => stream[f] # "failed"
    BY <1>0, <1>16 DEF Sweep
  <2>2. Mated(f) /\ \A s \in Schedules(f) : s.of[1] <= next
    BY <1>0, <2>1 DEF Watched, Own
  <2>3. Mated(f)' /\ Schedules(f)' = Schedules(f)
    BY <1>16, <2>2, OwnSwept
  <2> QED
    BY <2>1, <2>2, <2>3 DEF Own
<1> QED
  BY <1>2, <1>3, <1>4, <1>5, <1>6, <1>7, <1>8, <1>9, <1>10, <1>11, <1>12, <1>13, <1>14, <1>15,
     <1>16 DEF Next, Work, Fault

\* Every step leaves the calls of every watched file with their schedules.
LEMMA OwnInvStep ==
    ASSUME OnlyRefreshes \/ NothingFails, IInv, IInv', CallsInv, [Next]_vars
    PROVE  OwnInv'
<1>1. LA' \in Nat
  <2>1. next \in Nat
    BY DEF IInv, TypeInv, TypeOK
  <2> QED
    BY <2>1, LastArchiveStep DEF CallsInv, OwnInv
<1>2. ASSUME NothingFails
      PROVE  /\ pc' = "files" => \A f \in Files : stream'[f] # "failed"
             /\ pc' = "ending" => Quiet'
  <2>0. /\ ~(faults < MaxFaults)
        /\ pc = "files" => \A f \in Files : stream[f] # "failed"
        /\ pc = "ending" => Quiet
        /\ stream \in [Files -> {"reading", "flushing", "closing", "done", "failed", "swept"}]
    BY <1>2 DEF NothingFails, CallsInv, OwnInv, IInv, TypeInv, TypeOK
  <2>1. CASE pc' \notin {"files", "ending"}
    BY <2>1
  <2>2. CASE UNCHANGED <<pc, stream, buffer, inflight>>
    BY <2>0, <2>2 DEF Quiet
  <2>3. CASE \/ Start \/ StartUnsure \/ Begin \/ Dropped \/ Created \/ Swept \/ UpdateLastFile
             \/ End \/ Crash
    BY <2>1, <2>3 DEF Start, StartUnsure, Begin, Dropped, Created, Swept, UpdateLastFile, End,
                      Crash, Gone, NoProcess
  <2>4. CASE Publish \/ ImportOther \/ UNCHANGED vars
    BY <2>2, <2>4 DEF Publish, ImportOther, vars, process
  <2>5. CASE RestoreIds
    <3>1. /\ pc = "restore" /\ UNCHANGED <<buffer, inflight>>
          /\ pc' = "files" => \A f \in Files : stream'[f] = "reading"
      BY <2>5 DEF RestoreIds
    <3>2. Quiet'
      BY <3>1 DEF IInv, Shape, Quiet
    <3> QED
      BY <3>1, <3>2
  <2>6. CASE FilesSettled
    <3>1. \A f \in Files : stream[f] = "done"
      BY <2>0, <2>6 DEF FilesSettled
    <3> QED
      BY <2>6, <3>1 DEF FilesSettled
  <2>7. ASSUME NEW t \in Tables, DropTable(t) \/ CreateTable(t)
        PROVE  pc' \notin {"files", "ending"}
    BY <2>7 DEF DropTable, CreateTable, process
  <2>8. ASSUME NEW f \in Files, ReadLine(f) \/ CloseTables(f) \/ Closed(f)
        PROVE  pc' = "files" /\ \A g \in Files : stream'[g] # "failed"
    <3>1. /\ pc = "files" /\ pc' = "files"
          /\ \/ stream' = stream
             \/ \E s \in {"flushing", "closing", "done"} : stream' = [stream EXCEPT ![f] = s]
      BY <2>8 DEF ReadLine, CloseTables, Closed
    <3> QED
      BY <2>0, <3>1
  <2>9. ASSUME NEW f \in Files, Sweep(f)
        PROVE  pc' \notin {"files", "ending"}
    BY <2>9 DEF Sweep
  <2>10. ASSUME NEW f \in Files, RefuseLine(f)
         PROVE  FALSE
    BY <2>0, <2>10 DEF RefuseLine
  <2>11. ASSUME NEW t \in Tables, NEW a \in Actions, Commit(t, a)
         PROVE  pc' = "files" /\ \A g \in Files : stream'[g] # "failed"
    <3>1. ~Quiet /\ pc' = pc
      BY <2>11 DEF Commit, Quiet
    <3>2. pc = "files"
      BY <2>0, <3>1 DEF IInv, Shape
    <3> QED
      BY <2>0, <2>11, <3>1, <3>2 DEF Commit
  <2>12. ASSUME NEW t \in Tables, NEW a \in Actions, WriteFails(t, a)
         PROVE  FALSE
    BY <2>0, <2>12 DEF WriteFails
  <2> QED
    BY <2>3, <2>4, <2>5, <2>6, <2>7, <2>8, <2>9, <2>10, <2>11, <2>12 DEF Next, Work, Fault
<1>3. \A f \in Files : Watched(f)' => Own(f)'
  BY OwnStep
<1> QED
  BY <1>1, <1>2, <1>3 DEF OwnInv, NothingFails

\* Nothing is stored at first.
LEMMA InitCallsInv == Init => CallsInv
<1> SUFFICES ASSUME Init
             PROVE  CallsInv
  OBVIOUS
<1>1. /\ pc = "idle" /\ log = << >> /\ \A t \in Tables : stored[t] = {}
      /\ buffer = NoRows /\ inflight = NoRows
  BY DEF Init, NoProcess
<1>2. Quiet
  BY <1>1 DEF Quiet, NoRows
<1>3. \A f \in Files : Schedules(f) = {} /\ Trains(f) = {} /\ Calls(f) = {}
  BY <1>1, <1>2, QuietTrains, TableTypes DEF Schedules
<1>4. PlainCalls
  <2>1. \A t \in Tables, a \in Actions : Waiting(t, a) = {}
    BY <1>2, NoRowsOf DEF Quiet, Waiting
  <2> QED
    BY <1>3, <2>1, TableTypes DEF PlainCalls, Actions
<1>5. LA = 0
  BY <1>1 DEF LA, ImportLog!LastArchive
<1>6. OwnInv
  <2>1. \A f \in Files : Own(f)
    BY <1>1, <1>3, TableTypes DEF Own, Mated, Past, OrphanFree
  <2> QED
    BY <1>1, <1>5, <2>1 DEF OwnInv
<1>7. Emptied /\ MayNext /\ SweptInv
  BY <1>1, <1>2 DEF Emptied, MayNext, SweptInv
<1> QED
  BY <1>4, <1>6, <1>7 DEF CallsInv

\* Where no import fails, or the feed has no changes archive, an archive is recorded only
\* with every schedule having the calls the feed gave it, each of them once, and no
\* other's, however the writes of the two tables are interleaved
\* (restoreIdCounters, ImportFeedCommand.ts:104-116, and
\* removeOrphanStopTimes).  A changes archive that is tried again does not keep to it.
THEOREM CallsTheirOwnCorrect ==
    ASSUME OnlyRefreshes \/ MaxFaults = 0
    PROVE  Spec => []CallsTheirOwn
<1>1. Init => CallsInv
  BY InitCallsInv
<1>2. IInv /\ CallsInv /\ [Next]_vars => CallsInv'
  <2> SUFFICES ASSUME IInv, CallsInv, [Next]_vars
               PROVE  CallsInv'
    OBVIOUS
  <2>1. IInv'
    BY NextIInv
  <2>2. PlainCalls' /\ Emptied' /\ MayNext' /\ SweptInv'
    BY <2>1, PlainStep, EmptiedStep, MayNextStep, SweptStep DEF CallsInv
  <2>3. OwnInv'
    BY <2>1, OwnInvStep DEF NothingFails
  <2> QED
    BY <2>2, <2>3 DEF CallsInv
<1>3. IInv /\ CallsInv => CallsTheirOwn
  <2> SUFFICES ASSUME IInv, CallsInv, pc = "log", NEW f \in Files, NEW s \in Schedules(f)
               PROVE  LET calls == {c \in stored[<<f, "stop_time">>] : c.schedule = s.id}
                      IN  /\ \A c \in calls : c.of = s.of
                          /\ Cardinality(calls) = Cardinality(CallLines(f, s.of))
    BY DEF CallsTheirOwn, Schedules
  <2>1. Quiet
    BY DEF IInv, Shape
  <2>2. Trains(f) = Schedules(f) /\ Calls(f) = stored[<<f, "stop_time">>]
    BY <2>1, QuietTrains
  <2>3. Mated(f)
    <3>1. stream[f] = "swept"
      BY DEF CallsInv, SweptInv
    <3> QED
      BY <3>1 DEF CallsInv, OwnInv, Watched, Own
  <2>4. ReadOf(f, s.of) = CallLines(f, s.of)
    BY DEF ReadOf
  <2> QED
    BY <2>2, <2>3, <2>4 DEF Mated, CallsOf
<1> QED
  BY <1>1, <1>2, <1>3, Invariance, PTL DEF Spec
=============================================================================
