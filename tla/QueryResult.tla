----------------------------- MODULE QueryResult -----------------------------
(***************************************************************************)
(* DataBase/KaMysql/MysqlBase.cpp and MysqlBase.h, classes QueryResult and *)
(* Field: the rows of a stored result, copied one at a time into           *)
(* m_CurrentRow, an array of Fields that every row overwrites.             *)
(***************************************************************************)
EXTENDS Integers, Sequences, FiniteSetsExt

CONSTANTS Names,        \* names a column may have
          Texts,        \* values of a column
          Null,         \* SQL NULL
          NativeTypes,  \* enum_field_types
          MaxRows, MaxFields   \* bounds on the size of a result

VARIABLES table,        \* the stored result (external): names, types, rows
          m_Result,     \* it is not freed yet
          m_CurrentRow, \* <<>> once deleted
          cursor,       \* rows fetched from m_Result
          copied        \* a Field the caller copied from m_CurrentRow, or <<>>

resultVars == <<table, m_Result, m_CurrentRow, cursor, copied>>

Columns == 1..Len(table.names)

\* QueryResult::convertNativeType: DECIMAL has had another code since MySQL 5
\* (NEWDECIMAL), which is not in the switch.
convertNativeType(t) ==
  CASE t \in {"TIMESTAMP", "DATE", "TIME", "DATETIME", "YEAR", "STRING",
              "VAR_STRING", "BLOB", "SET", "NULL"} -> "STRING"
    [] t \in {"TINY", "SHORT", "LONG", "INT24", "LONGLONG", "ENUM"} -> "INTEGER"
    [] t \in {"DECIMAL", "FLOAT", "DOUBLE"} -> "FLOAT"
    [] OTHER -> "UNKNOW"

\* Field::Field and setType.
EmptyField(t) == [m_Value |-> "", m_NULL |-> FALSE, m_Type |-> t]

\* A statement's result, and the constructor on it.
ResultInit ==
  /\ \E n \in 1..MaxFields, k \in 0..MaxRows :
       table \in [names : [1..n -> Names], types : [1..n -> NativeTypes],
                  rows : [1..k -> [1..n -> Texts \cup {Null}]]]
  /\ m_Result = TRUE
  /\ m_CurrentRow = [i \in Columns |-> EmptyField(convertNativeType(table.types[i]))]
  /\ cursor = 0
  /\ copied = <<>>

-----------------------------------------------------------------------------
\* endQuery: both resources, each once.
endQuery ==
  /\ m_CurrentRow' = <<>>
  /\ m_Result' = FALSE

\* The field keeps the m_NULL of the row before.
Load_StaleNull(f, text) ==
  IF text = Null THEN [f EXCEPT !.m_NULL = TRUE, !.m_Value = ""]
  ELSE [f EXCEPT !.m_Value = text]

\* One field of a row: NULL or a value, both members set.
Load(f, text) ==
  IF text = Null THEN [f EXCEPT !.m_NULL = TRUE, !.m_Value = ""]
  ELSE [f EXCEPT !.m_NULL = FALSE, !.m_Value = text]

\* nextRow: the next row, or the end of the query after the last.
nextRow ==
  /\ IF m_Result /\ cursor < Len(table.rows)
     THEN /\ cursor' = cursor + 1
          /\ m_CurrentRow' = [i \in Columns |->
                                Load(m_CurrentRow[i], table.rows[cursor + 1][i])]
          /\ UNCHANGED m_Result
     ELSE /\ IF m_Result THEN endQuery ELSE UNCHANGED <<m_Result, m_CurrentRow>>
          /\ UNCHANGED cursor
  /\ UNCHANGED <<table, copied>>

\* A caller ends the query early (or the destructor does).
EndEarly ==
  /\ endQuery
  /\ UNCHANGED <<table, cursor, copied>>

\* getField_idx: the first column of that name, and the first column of all if
\* there is none.  (Columns are numbered from 1 here.)
getField_idx(name) ==
  LET found == {i \in Columns : table.names[i] = name} IN
  IF found = {} THEN 1 ELSE Min(found)

\* operator[](name) and a copy of the field it refers to; the getters of Field
\* are not const, so callers copy.  Field's copy constructor leaves m_NULL as
\* it finds it in memory.
CopyField(name) ==
  /\ m_CurrentRow # <<>>
  /\ \E garbage \in BOOLEAN :
       copied' = <<name, cursor, [m_CurrentRow[getField_idx(name)] EXCEPT !.m_NULL = garbage]>>
  /\ UNCHANGED <<table, m_Result, m_CurrentRow, cursor>>

ResultNext == nextRow \/ EndEarly \/ \E name \in Names : CopyField(name)

ResultSpec == ResultInit /\ [][ResultNext]_resultVars

-----------------------------------------------------------------------------
\* The row in m_CurrentRow is the one that was fetched last, and nothing of the
\* rows before it: not a value, not the mark of a NULL (lines 110-124).
RowIsCurrent ==
  m_CurrentRow # <<>> /\ cursor > 0 =>
    \A i \in Columns :
      LET text == table.rows[cursor][i] IN
      /\ m_CurrentRow[i].m_NULL = (text = Null)
      /\ text # Null => m_CurrentRow[i].m_Value = text
      /\ m_CurrentRow[i].m_Type = convertNativeType(table.types[i])

\* A field copied by name is still that of the first column of the name, in the
\* row it was copied from, when later rows have overwritten the array or the
\* query has ended.
CopyOutlivesRow ==
  copied # <<>> /\ copied[2] > 0 =>
    \A i \in Columns :
      /\ table.names[i] = copied[1]
      /\ \A j \in 1..(i - 1) : table.names[j] # copied[1]
      => LET text == table.rows[copied[2]][i] IN
         copied[3].m_Value = IF text = Null THEN "" ELSE text

\* The array is overwritten by every row; what it shows, and what was copied out of
\* it before, stay apart.
RowsAreCurrent == RowIsCurrent /\ CopyOutlivesRow
=============================================================================
