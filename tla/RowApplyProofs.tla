--------------------------- MODULE RowApplyProofs ---------------------------
(***************************************************************************)
(* For any columns, keys, values and NULLs, and any number of changes and  *)
(* redeliveries: statements never mix images, and the replica converges    *)
(* unless a message was lossy.                                             *)
(***************************************************************************)
EXTENDS RowApply, FiniteSetTheorems, TLAPS

-----------------------------------------------------------------------------
(* Columns.                                                                *)

\* Both orders of the columns enumerate the names once.
LEMMA ColumnFacts ==
    /\ Len(Columns) \in Nat \ {0} /\ DOMAIN Columns = 1..Len(Columns)
    /\ Len(SortedColumns) \in Nat /\ DOMAIN SortedColumns = 1..Len(SortedColumns)
    /\ Names # {}
    /\ \A i \in DOMAIN Columns : Columns[i] \in Names
    /\ \A i \in DOMAIN SortedColumns : SortedColumns[i] \in Names
    /\ \A c \in Names : \E i \in DOMAIN Columns : Columns[i] = c
    /\ \A c \in Names : \E i \in DOMAIN SortedColumns : SortedColumns[i] = c
    /\ \A i, j \in DOMAIN Columns : Columns[i] = Columns[j] => i = j
    /\ \A i, j \in DOMAIN SortedColumns : SortedColumns[i] = SortedColumns[j] => i = j
<1>1. Columns \in Seq(STRING) /\ Columns # <<>> /\ SortedColumns \in Seq(STRING)
    BY RowAssumption
<1>2. Len(Columns) \in Nat \ {0} /\ DOMAIN Columns = 1..Len(Columns)
    BY <1>1
<1>3. Len(SortedColumns) \in Nat /\ DOMAIN SortedColumns = 1..Len(SortedColumns)
    BY <1>1
<1>4. 1 \in DOMAIN Columns
    BY <1>2
<1>5. Names = {Columns[i] : i \in DOMAIN Columns}
    BY DEF Names, Range
<1>6. Names = {SortedColumns[i] : i \in DOMAIN SortedColumns}
    BY RowAssumption DEF Names, Range
<1>7. /\ \A i, j \in DOMAIN Columns : Columns[i] = Columns[j] => i = j
      /\ \A i, j \in DOMAIN SortedColumns : SortedColumns[i] = SortedColumns[j] => i = j
    BY RowAssumption DEF IsInjective
<1>8. /\ \A i \in DOMAIN Columns : Columns[i] \in Names
      /\ \A c \in Names : \E i \in DOMAIN Columns : Columns[i] = c
    BY <1>5
<1>9. /\ \A i \in DOMAIN SortedColumns : SortedColumns[i] \in Names
      /\ \A c \in Names : \E i \in DOMAIN SortedColumns : SortedColumns[i] = c
    BY <1>6
<1>10. Names # {}
    BY <1>4, <1>8
<1> QED
    BY <1>2, <1>3, <1>7, <1>8, <1>9, <1>10

\* extractTuple of no tuple is nil.
LEMMA ExtractNone == DOMAIN ExtractTuple(NoTuple) = {}
BY DEF ExtractTuple, NoTuple

\* extractTuple of a tuple has all the columns.
LEMMA ExtractFull ==
    ASSUME NEW tuple \in Tuples
    PROVE  /\ DOMAIN ExtractTuple(tuple) = Names
           /\ ExtractTuple(tuple) = [c \in Names |-> ExtractTuple(tuple)[c]]
<1>1. {Columns[i] : i \in DOMAIN tuple} = Names
    BY DEF Tuples, Names, Range
<1> QED
    BY <1>1 DEF ExtractTuple

\* extractTuple undoes the encoding of a complete tuple.
LEMMA ExtractComplete ==
    ASSUME NEW row \in Row
    PROVE  Tuple(row) \in Tuples /\ Tuple(row) # NoTuple /\ ExtractTuple(Tuple(row)) = row
<1>1. row = [c \in Names |-> row[c]] /\ \A c \in Names : row[c] \in (UNION Range(Texts)) \cup {Null}
    BY DEF Row
<1>2. Tuple(row) \in Tuples
    BY <1>1, ColumnFacts DEF Tuple, Tuples, Text
<1>3. Tuple(row) # NoTuple
    BY ColumnFacts DEF Tuple, NoTuple
<1>4. ASSUME NEW c \in Names
      PROVE  ExtractTuple(Tuple(row))[c] = row[c]
    <2> DEFINE i == CHOOSE i \in DOMAIN Columns : Columns[i] = c
    <2>1. i \in DOMAIN Columns /\ Columns[i] = c
        BY ColumnFacts
    <2>2. DOMAIN Tuple(row) = DOMAIN Columns
        BY DEF Tuple
    <2>3. Tuple(row)[i] = Text(row[c])
        BY <2>1 DEF Tuple
    <2>4. c \in {Columns[j] : j \in DOMAIN Tuple(row)}
        BY <2>1, <2>2
    <2>5. ExtractTuple(Tuple(row))[c] =
             CASE Text(row[c]).DataType = "n" -> Null
               [] Text(row[c]).DataType = "u" -> ToastText
               [] OTHER -> Text(row[c]).Data
        BY <2>2, <2>3, <2>4 DEF ExtractTuple
    <2> QED
        BY <2>5 DEF Text
<1>5. ExtractTuple(Tuple(row)) = [c \in Names |-> ExtractTuple(Tuple(row))[c]]
    BY <1>2, ExtractFull
<1> QED
    BY <1>1, <1>2, <1>3, <1>4, <1>5

-----------------------------------------------------------------------------
(* Statements.                                                             *)

\* The number buildWhereClause gives to the i-th column, of those bound.
Rank(bound, i) == Cardinality({j \in bound : j <= i})

\* The numbers of the bound columns are distinct and are those of the
\* arguments.
LEMMA RankFacts ==
    ASSUME NEW n \in Nat, NEW bound \in SUBSET (1..n)
    PROVE  /\ Cardinality(bound) \in Nat
           /\ \A i \in bound : Rank(bound, i) \in 1..Cardinality(bound)
           /\ \A i, k \in bound : Rank(bound, i) = Rank(bound, k) => i = k
           /\ \A m \in 1..Cardinality(bound) : \E i \in bound : Rank(bound, i) = m
<1> DEFINE upto(i) == {j \in bound : j <= i}
<1>0. \A i \in bound : i \in Int
    OBVIOUS
<1>1. IsFiniteSet(bound) /\ Cardinality(bound) \in Nat
    <2>1. IsFiniteSet(1..n)
        BY FS_Interval
    <2>2. IsFiniteSet(bound)
        BY <2>1, FS_Subset
    <2> QED
        BY <2>2, FS_CardinalityType
<1>2. ASSUME NEW i \in bound
      PROVE  /\ IsFiniteSet(upto(i)) /\ Cardinality(upto(i)) \in Nat
             /\ Cardinality(upto(i)) <= Cardinality(bound)
             /\ Cardinality(upto(i)) # 0
    <2>1. upto(i) \in SUBSET bound /\ i \in upto(i)
        OBVIOUS
    <2>2. IsFiniteSet(upto(i)) /\ Cardinality(upto(i)) <= Cardinality(bound)
        BY <1>1, <2>1, FS_Subset
    <2> QED
        BY <2>1, <2>2, FS_CardinalityType, FS_EmptySet
<1>3. ASSUME NEW i \in bound, NEW k \in bound, i < k
      PROVE  Cardinality(upto(i)) # Cardinality(upto(k))
    <2>1. \A j \in bound : j <= i => j <= k
        BY <1>0, <1>3
    <2>2. k <= k /\ ~(k <= i)
        BY <1>0, <1>3
    <2>3. upto(i) \in SUBSET upto(k) /\ k \in upto(k) /\ k \notin upto(i)
        BY <2>1, <2>2
    <2> QED
        BY <1>2, <2>3, FS_Subset
<1>4. ASSUME NEW i \in bound, NEW k \in bound, Rank(bound, i) = Rank(bound, k)
      PROVE  i = k
    <2>1. i < k \/ k < i \/ i = k
        BY <1>0
    <2> QED
        BY <1>3, <1>4, <2>1 DEF Rank
<1>5. \A i \in bound : Rank(bound, i) \in 1..Cardinality(bound)
    BY <1>1, <1>2 DEF Rank
<1>6. \A m \in 1..Cardinality(bound) : \E i \in bound : Rank(bound, i) = m
    <2> DEFINE f == [i \in bound |-> Rank(bound, i)]
               T == 1..Cardinality(bound)
    <2>1. f \in Injection(bound, T)
        BY <1>4, <1>5 DEF Injection, IsInjective
    <2>2. IsFiniteSet(T) /\ Cardinality(T) = Cardinality(bound)
        BY <1>1, FS_Interval
    <2>3. f \in Surjection(bound, T)
        BY <2>1, <2>2, FS_Injection
    <2> QED
        BY <2>3 DEF Surjection
<1> QED
    BY <1>1, <1>4, <1>5, <1>6

\* A function on 1..n is a sequence.
LEMMA SequenceOf ==
    ASSUME NEW n \in Nat, NEW V, NEW f, f = [m \in 1..n |-> f[m]],
           \A m \in 1..n : f[m] \in V
    PROVE  f \in Seq(V) /\ Len(f) = n
OBVIOUS

\* The elements of a concatenation.
LEMMA Joined ==
    ASSUME NEW V, NEW s \in Seq(V), NEW t \in Seq(V)
    PROVE  /\ s \o t \in Seq(V)
           /\ \A i \in 1..Len(s) : (s \o t)[i] = s[i]
           /\ \A i \in 1..Len(t) : (s \o t)[Len(s) + i] = t[i]
OBVIOUS

\* WHERE holds of exactly the rows that equal the predicate in every column,
\* wherever the NULLs are and whatever arguments come before.
LEMMA WhereSelects ==
    ASSUME NEW predicate, DOMAIN predicate = Names,
           NEW V, \A c \in Names : predicate[c] \in V,
           NEW before \in Seq(V), NEW row,
           NEW clause, clause = BuildWhereClause(predicate, Len(before) + 1)
    PROVE  /\ clause.args \in Seq(V)
           /\ (\A i \in DOMAIN clause.parts :
                  Holds(clause.parts[i], before \o clause.args, row))
              <=> \A c \in Names : row[c] = predicate[c]
<1> DEFINE keys == SortedColumns
           bound == {i \in DOMAIN keys : predicate[keys[i]] # Null}
           size == Cardinality(bound)
           args == [m \in 1..size |->
                       predicate[keys[CHOOSE i \in bound : Rank(bound, i) = m]]]
<1>1. SortedKeys(predicate) = keys
    BY ColumnFacts DEF SortedKeys
<1>2. /\ clause.parts = [i \in DOMAIN keys |->
             [column |-> keys[i],
              n |-> IF i \in bound THEN Len(before) + 1 + Rank(bound, i) - 1 ELSE IsNull]]
      /\ clause.args = args
    BY <1>1 DEF BuildWhereClause, Rank
<1>3. bound \in SUBSET (1..Len(keys))
    BY ColumnFacts
<1>4. /\ size \in Nat
      /\ \A i \in bound : Rank(bound, i) \in 1..size
      /\ \A i, k \in bound : Rank(bound, i) = Rank(bound, k) => i = k
      /\ \A m \in 1..size : \E i \in bound : Rank(bound, i) = m
    BY <1>3, ColumnFacts, RankFacts
<1>5. ASSUME NEW i \in bound
      PROVE  args[Rank(bound, i)] = predicate[keys[i]]
    <2>1. (CHOOSE k \in bound : Rank(bound, k) = Rank(bound, i)) = i
        BY <1>4
    <2> QED
        BY <1>4, <2>1
<1>6. args \in Seq(V) /\ Len(args) = size
    <2>1. ASSUME NEW m \in 1..size
          PROVE  args[m] \in V
        <3>1. PICK i \in bound : Rank(bound, i) = m
            BY <1>4
        <3>2. SortedColumns[i] \in Names /\ args[m] = predicate[keys[i]]
            BY <1>3, <1>5, <3>1, ColumnFacts
        <3> HIDE DEF args
        <3> QED
            BY <3>2
    <2>2. args = [m \in 1..size |-> args[m]]
        OBVIOUS
    <2> HIDE DEF args, size
    <2> QED
        BY <1>4, <2>1, <2>2, SequenceOf
<1> HIDE DEF args, size
<1>7. /\ before \o args \in Seq(V)
      /\ \A m \in 1..size : (before \o args)[Len(before) + m] = args[m]
    BY <1>4, <1>6, Joined
<1>8. ASSUME NEW i \in DOMAIN keys
      PROVE  Holds(clause.parts[i], before \o args, row)
                <=> row[keys[i]] = predicate[keys[i]]
    <2> DEFINE part == clause.parts[i]
    <2>0. part = [column |-> keys[i],
                  n |-> IF i \in bound THEN Len(before) + 1 + Rank(bound, i) - 1 ELSE IsNull]
        BY <1>2
    <2> HIDE DEF part
    <2>1. CASE i \in bound
        <3> DEFINE n == Len(before) + Rank(bound, i)
        <3>1. Rank(bound, i) \in 1..size /\ Rank(bound, i) \in Nat \ {0} /\ Len(before) \in Nat
            BY <1>4, <2>1
        <3>2. part.column = keys[i] /\ part.n = n /\ n # IsNull
            BY <2>0, <2>1, <3>1 DEF IsNull
        <3>3. (before \o args)[n] = predicate[keys[i]]
            BY <1>5, <1>7, <2>1, <3>1
        <3>4. predicate[keys[i]] # Null
            BY <2>1
        <3> HIDE DEF n
        <3> QED
            BY <3>2, <3>3, <3>4 DEF Holds, part
    <2>2. CASE i \notin bound
        <3>1. part.column = keys[i] /\ part.n = IsNull
            BY <2>0, <2>2
        <3>2. predicate[keys[i]] = Null
            BY <2>2
        <3> QED
            BY <3>1, <3>2 DEF Holds, part
    <2> QED
        BY <2>1, <2>2
<1>9. DOMAIN clause.parts = DOMAIN keys
    BY <1>2
<1>10. (\A i \in DOMAIN keys : row[keys[i]] = predicate[keys[i]])
          <=> \A c \in Names : row[c] = predicate[c]
    BY ColumnFacts
<1> QED
    BY <1>2, <1>6, <1>8, <1>9, <1>10

\* A row as extractTuple makes it.
IsRow(row) == row = [c \in Names |-> row[c]]

\* The values assigned by INSERT and UPDATE are the new row's.
LEMMA SetAssigns ==
    ASSUME NEW row, IsRow(row),
           NEW V, \A c \in Names : row[c] \in V, NEW rest \in Seq(V),
           NEW sql, sql.set = Placeholders(SortedKeys(row)),
           sql.args = Values(row, SortedKeys(row)) \o rest
    PROVE  Assigned(sql) = row
<1> DEFINE keys == SortedColumns
           vals == [i \in DOMAIN keys |-> row[keys[i]]]
<1>1. SortedKeys(row) = keys
    BY ColumnFacts DEF SortedKeys, IsRow
<1> DEFINE set == sql.set
           args == sql.args
<1>2. set = [i \in DOMAIN keys |-> [column |-> keys[i], n |-> i]]
    BY <1>1 DEF Placeholders
<1>3. args = vals \o rest
    BY <1>1 DEF Values
<1>4. Assigned(sql) =
         [c \in {set[i].column : i \in DOMAIN set} |->
             args[set[CHOOSE i \in DOMAIN set : set[i].column = c].n]]
    BY DEF Assigned
<1> HIDE DEF set, args
<1>5. vals \in Seq(V) /\ Len(vals) = Len(keys)
    <2>1. vals = [i \in 1..Len(keys) |-> vals[i]] /\ \A i \in 1..Len(keys) : vals[i] \in V
        BY ColumnFacts
    <2> HIDE DEF vals
    <2> QED
        BY <2>1, ColumnFacts, SequenceOf
<1>6. \A i \in DOMAIN keys : args[i] = row[keys[i]]
    <2>1. \A i \in DOMAIN keys : vals[i] = row[keys[i]]
        OBVIOUS
    <2> HIDE DEF vals
    <2>2. \A i \in 1..Len(vals) : args[i] = vals[i]
        BY <1>3, <1>5, Joined
    <2> QED
        BY <1>5, <2>1, <2>2, ColumnFacts
<1>7. DOMAIN set = DOMAIN keys
      /\ \A i \in DOMAIN keys : set[i].column = keys[i] /\ set[i].n = i
    BY <1>2
<1>8. {set[i].column : i \in DOMAIN set} = Names
    <2>1. ASSUME NEW c \in Names
          PROVE  \E i \in DOMAIN set : set[i].column = c
        <3>1. PICK i \in DOMAIN keys : keys[i] = c
            BY ColumnFacts
        <3>2. i \in DOMAIN set /\ set[i].column = c
            BY <1>7, <3>1
        <3> QED
            BY <3>2
    <2>2. \A i \in DOMAIN set : set[i].column \in Names
        BY <1>7, ColumnFacts
    <2> QED
        BY <2>1, <2>2
<1>9. ASSUME NEW c \in Names
      PROVE  Assigned(sql)[c] = row[c]
    <2> DEFINE i == CHOOSE i \in DOMAIN set : set[i].column = c
    <2>1. i \in DOMAIN set /\ set[i].column = c
        BY <1>8
    <2>2. Assigned(sql)[c] = args[set[i].n]
        BY <1>4, <1>8
    <2> HIDE DEF i
    <2>3. set[i].n = i /\ keys[i] = c
        BY <1>7, <2>1
    <2>4. args[i] = row[c]
        BY <1>6, <1>7, <2>1, <2>3
    <2> QED
        BY <2>2, <2>3, <2>4
<1>10. Assigned(sql) = [c \in Names |-> Assigned(sql)[c]]
    BY <1>4, <1>8
<1> QED
    BY <1>9, <1>10 DEF IsRow

\* What the statement of an INSERT does.
LEMMA ExecInsert ==
    ASSUME NEW row, IsRow(row), NEW table
    PROVE  Exec(BuildInsertSQL(row), table) = table (+) Copies(row, 1)
<1> DEFINE sql == BuildInsertSQL(row)
           V == {row[c] : c \in Names}
           vals == Values(row, SortedKeys(row))
<1>1. vals \in Seq(V) /\ vals \o <<>> = vals
    <2>1. vals = [i \in 1..Len(SortedColumns) |-> vals[i]]
          /\ \A i \in 1..Len(SortedColumns) : vals[i] \in V
        BY ColumnFacts DEF SortedKeys, Values, IsRow
    <2> HIDE DEF vals
    <2>2. vals \in Seq(V)
        BY <2>1, ColumnFacts, SequenceOf
    <2> QED
        BY <2>2
<1>2. sql.verb = "INSERT" /\ sql.set = Placeholders(SortedKeys(row)) /\ sql.args = vals
    BY DEF BuildInsertSQL
<1> HIDE DEF sql, vals
<1>3. Assigned(sql) = row
    <2>1. <<>> \in Seq(V) /\ sql.args = vals \o <<>>
        BY <1>1, <1>2
    <2> HIDE DEF V
    <2>2. \A c \in Names : row[c] \in V
        BY DEF V
    <2> QED
        BY <1>2, <2>1, <2>2, SetAssigns DEF vals
<1> QED
    BY <1>2, <1>3 DEF Exec, sql

\* The statement of an UPDATE assigns the new row to the rows that equal the
\* predicate.
LEMMA UpdateStatement ==
    ASSUME NEW new, IsRow(new), NEW old, IsRow(old),
           NEW table, \A r \in Rows(table) : IsRow(r),
           NEW sql, sql = BuildUpdateSQL(new, old)
    PROVE  /\ sql.verb = "UPDATE" /\ Assigned(sql) = new
           /\ Matched(sql, table) = {r \in Rows(table) : r = old}
<1> DEFINE V == {new[c] : c \in Names} \cup {old[c] : c \in Names}
           keys == SortedKeys(new)
           vals == Values(new, keys)
           clause == BuildWhereClause(old, Len(vals) + 1)
<1>1. keys = SortedColumns
    BY ColumnFacts DEF SortedKeys, IsRow
<1>2. vals \in Seq(V) /\ Len(vals) = Len(keys)
    <2>1. vals = [i \in 1..Len(keys) |-> vals[i]] /\ \A i \in 1..Len(keys) : vals[i] \in V
        BY <1>1, ColumnFacts DEF Values
    <2> HIDE DEF vals, keys, V
    <2> QED
        BY <1>1, <2>1, ColumnFacts, SequenceOf
<1>3. sql = [verb |-> "UPDATE", set |-> Placeholders(keys), where |-> clause.parts,
             args |-> vals \o clause.args]
    BY <1>2 DEF BuildUpdateSQL
<1>4. DOMAIN old = Names /\ \A c \in Names : old[c] \in V /\ new[c] \in V
    BY DEF IsRow
<1> HIDE DEF V, vals, keys, clause
<1>5. clause.args \in Seq(V)
    BY <1>2, <1>4, WhereSelects DEF clause
<1>6. Assigned(sql) = new
    <2>1. sql.set = Placeholders(SortedKeys(new))
          /\ sql.args = Values(new, SortedKeys(new)) \o clause.args
        BY <1>3 DEF vals, keys
    <2>2. \A c \in Names : new[c] \in V
        BY <1>4
    <2> QED
        BY <1>5, <2>1, <2>2, SetAssigns
<1>7. ASSUME NEW r \in Rows(table)
      PROVE  (\A i \in DOMAIN sql.where : Holds(sql.where[i], sql.args, r)) <=> r = old
    <2>1. (\A i \in DOMAIN clause.parts : Holds(clause.parts[i], vals \o clause.args, r))
             <=> \A c \in Names : r[c] = old[c]
        BY <1>2, <1>4, WhereSelects DEF clause
    <2>2. (\A c \in Names : r[c] = old[c]) <=> r = old
        BY DEF IsRow
    <2>3. sql.where = clause.parts /\ sql.args = vals \o clause.args
        BY <1>3
    <2> QED
        BY <2>1, <2>2, <2>3
<1>8. sql.verb = "UPDATE"
    BY <1>3
<1> QED
    BY <1>6, <1>7, <1>8 DEF Matched

\* The statement of a DELETE selects the rows that equal the predicate.
LEMMA DeleteStatement ==
    ASSUME NEW old, IsRow(old),
           NEW table, \A r \in Rows(table) : IsRow(r),
           NEW sql, sql = BuildDeleteSQL(old)
    PROVE  /\ sql.verb = "DELETE"
           /\ Matched(sql, table) = {r \in Rows(table) : r = old}
<1> DEFINE V == {old[c] : c \in Names}
           none == <<>>
           clause == BuildWhereClause(old, 1)
<1>1. none \in Seq(V) /\ Len(none) = 0
    OBVIOUS
<1>2. sql = [verb |-> "DELETE", set |-> <<>>, where |-> clause.parts, args |-> clause.args]
    BY DEF BuildDeleteSQL
<1>3. DOMAIN old = Names /\ \A c \in Names : old[c] \in V
    BY DEF IsRow
<1>4. clause = BuildWhereClause(old, Len(none) + 1)
    BY <1>1
<1> HIDE DEF V, none, clause
<1>5. clause.args \in Seq(V)
    BY <1>1, <1>3, <1>4, WhereSelects
<1>6. none \o clause.args = clause.args
    BY <1>5 DEF none
<1>7. ASSUME NEW r \in Rows(table)
      PROVE  (\A i \in DOMAIN sql.where : Holds(sql.where[i], sql.args, r)) <=> r = old
    <2>1. (\A i \in DOMAIN clause.parts : Holds(clause.parts[i], none \o clause.args, r))
             <=> \A c \in Names : r[c] = old[c]
        <3>1. \A c \in Names : old[c] \in V
            BY <1>3
        <3>2. DOMAIN old = Names /\ none \in Seq(V)
            BY <1>1, <1>3
        <3> QED
            BY <1>4, <3>1, <3>2, WhereSelects
    <2>2. (\A c \in Names : r[c] = old[c]) <=> r = old
        BY <1>3 DEF IsRow
    <2>3. sql.where = clause.parts /\ sql.args = clause.args
        BY <1>2
    <2> QED
        BY <1>6, <2>1, <2>2, <2>3
<1>8. sql.verb = "DELETE"
    BY <1>2
<1> QED
    BY <1>7, <1>8 DEF Matched

-----------------------------------------------------------------------------
(* Tables.                                                                 *)

\* What it is to be a table.
LEMMA TableFacts ==
    ASSUME NEW table \in Tables
    PROVE  /\ Rows(table) = DOMAIN table /\ Rows(table) \subseteq Row
           /\ table \in [Rows(table) -> Nat \ {0}]
           /\ table = [r \in Rows(table) |-> table[r]]
           /\ \A r \in Rows(table) : table[r] \in Nat \ {0} /\ IsRow(r)
BY DEF Tables, Rows, BagToSet, Row, IsRow

\* A function from rows to counts is a table.
LEMMA TableIntro ==
    ASSUME NEW rows \in SUBSET Row, NEW table \in [rows -> Nat \ {0}]
    PROVE  table \in Tables
BY DEF Tables

\* A row is inserted.
LEMMA AddRow ==
    ASSUME NEW table \in Tables, NEW new \in Row, NEW after,
           after = table (+) Copies(new, 1)
    PROVE  /\ after \in Tables
           /\ Rows(after) = Rows(table) \cup {new}
           /\ \A r \in Rows(after) :
                 after[r] = (IF r \in Rows(table) THEN table[r] ELSE 0)
                               + (IF r = new THEN 1 ELSE 0)
<1>1. after = [r \in Rows(table) \cup {new} |->
                  (IF r \in Rows(table) THEN table[r] ELSE 0)
                     + (IF r = new THEN 1 ELSE 0)]
    <2>1. Copies(new, 1) = [r \in {new} |-> 1]
        BY DEF Copies
    <2> QED
        BY <2>1, TableFacts DEF (+)
<1>2. after \in [Rows(table) \cup {new} -> Nat \ {0}]
    BY <1>1, TableFacts
<1>3. after \in Tables
    BY <1>2, TableFacts, TableIntro
<1> QED
    BY <1>1, <1>3 DEF Rows, BagToSet

\* One copy of a row is removed.
LEMMA TakeRow ==
    ASSUME NEW table \in Tables, NEW old \in Rows(table)
    PROVE  /\ table (-) Copies(old, 1) \in Tables
           /\ table[old] = 1 => table (-) Copies(old, 1) = Without(table, {old})
<1> DEFINE less == [r \in Rows(table) |-> IF r = old THEN table[r] - 1 ELSE table[r]]
           rest == {r \in Rows(table) : less[r] > 0}
<1>1. table (-) Copies(old, 1) = [r \in rest |-> less[r]]
    <2>1. Copies(old, 1) = [r \in {old} |-> 1]
        BY DEF Copies
    <2> QED
        BY <2>1, TableFacts DEF (-)
<1>2. [r \in rest |-> less[r]] \in [rest -> Nat \ {0}]
    BY TableFacts
<1>3. rest \in SUBSET Row
    BY TableFacts
<1>4. table (-) Copies(old, 1) \in Tables
    BY <1>1, <1>2, <1>3, TableIntro
<1>5. ASSUME table[old] = 1
      PROVE  table (-) Copies(old, 1) = Without(table, {old})
    <2>1. rest = Rows(table) \ {old}
        BY <1>5, TableFacts
    <2>2. \A r \in rest : less[r] = table[r]
        BY <2>1
    <2> QED
        BY <1>1, <2>1, <2>2 DEF Without
<1> QED
    BY <1>4, <1>5

\* All copies of a row are removed.
LEMMA DropRow ==
    ASSUME NEW table \in Tables, NEW old
    PROVE  /\ Without(table, {old}) \in Tables
           /\ Rows(Without(table, {old})) = Rows(table) \ {old}
           /\ \A r \in Rows(table) \ {old} : Without(table, {old})[r] = table[r]
<1>1. Without(table, {old}) \in [Rows(table) \ {old} -> Nat \ {0}]
    BY TableFacts DEF Without
<1>2. Without(table, {old}) \in Tables
    BY <1>1, TableFacts, TableIntro
<1> QED
    BY <1>1, <1>2 DEF Rows, BagToSet, Without

-----------------------------------------------------------------------------
(* What a statement does to a table.                                       *)

\* No rows are none.
LEMMA CountNone == ASSUME NEW table PROVE Count(table, {}) = 0
<1> DEFINE Step(f) == [s \in SUBSET {} |->
                          IF s = {} THEN 0
                          ELSE table[CHOOSE y \in s : TRUE] + f[s \ {CHOOSE y \in s : TRUE}]]
           sum == CHOOSE f : f = Step(f)
<1>1. [s \in SUBSET {} |-> 0] = Step([s \in SUBSET {} |-> 0])
    OBVIOUS
<1>2. sum = Step(sum)
    BY <1>1
<1>3. sum[{}] = 0
    BY <1>2
<1>4. Count(table, {}) = sum[{}]
    BY DEF Count, MapThenSumSet, MapThenFoldSet
<1> QED
    BY <1>3, <1>4

\* One row counts with its copies.
LEMMA CountOne ==
    ASSUME NEW table, NEW row, table[row] \in Nat
    PROVE  Count(table, {row}) = table[row]
<1> DEFINE Step(f) == [s \in SUBSET {row} |->
                          IF s = {} THEN 0
                          ELSE table[CHOOSE y \in s : TRUE] + f[s \ {CHOOSE y \in s : TRUE}]]
           total == [s \in SUBSET {row} |-> IF s = {} THEN 0 ELSE table[row]]
           sum == CHOOSE f : f = Step(f)
<1>1. \A s \in SUBSET {row} :
         s # {} => (CHOOSE y \in s : TRUE) = row /\ s \ {CHOOSE y \in s : TRUE} = {}
    OBVIOUS
<1>2. total = Step(total)
    BY <1>1
<1>3. sum = Step(sum)
    BY <1>2
<1> HIDE DEF sum
<1>4. sum[{}] = 0
    BY <1>3
<1>5. sum[{row}] = table[row] + sum[{}]
    BY <1>1, <1>3
<1>6. Count(table, {row}) = sum[{row}]
    BY DEF Count, MapThenSumSet, MapThenFoldSet, sum
<1> QED
    BY <1>4, <1>5, <1>6

\* An UPDATE changes the row it names, if it is there.
LEMMA ExecUpdate ==
    ASSUME NEW table \in Tables, NEW old \in Row, NEW new \in Row
    PROVE  Exec(BuildUpdateSQL(new, old), table) =
              IF old \in Rows(table)
              THEN Without(table, {old}) (+) Copies(new, table[old])
              ELSE table
<1> DEFINE sql == BuildUpdateSQL(new, old)
           matched == Matched(sql, table)
<1>1. IsRow(old) /\ IsRow(new)
    BY DEF Row, IsRow
<1>2. sql.verb = "UPDATE" /\ Assigned(sql) = new /\ matched = {r \in Rows(table) : r = old}
    BY <1>1, TableFacts, UpdateStatement
<1> HIDE DEF sql, matched
<1>3. Exec(sql, table) = Without(table, matched) (+) Copies(new, Count(table, matched))
    BY <1>2 DEF Exec, matched
<1>4. CASE old \in Rows(table)
    <2>1. matched = {old}
        BY <1>2, <1>4
    <2>2. Count(table, matched) = table[old]
        BY <1>4, <2>1, TableFacts, CountOne
    <2> QED
        BY <1>3, <1>4, <2>1, <2>2 DEF sql
<1>5. CASE old \notin Rows(table)
    <2>1. matched = {}
        BY <1>2, <1>5
    <2>2. Count(table, matched) = 0
        BY <2>1, CountNone
    <2>3. Without(table, matched) = table
        BY <2>1, TableFacts DEF Without
    <2>4. Copies(new, 0) = [e \in {} |-> 1]
        BY DEF Copies, EmptyBag, SetToBag
    <2>5. table (+) Copies(new, 0) = table
        <3> DEFINE none == [e \in {} |-> 1]
        <3>1. DOMAIN none = {}
            OBVIOUS
        <3> HIDE DEF none
        <3>2. table (+) none =
                 [r \in Rows(table) |->
                     (IF r \in Rows(table) THEN table[r] ELSE 0) + 0]
            BY <3>1, TableFacts DEF (+)
        <3>3. table (+) none = [r \in Rows(table) |-> table[r]]
            BY <3>2, TableFacts
        <3> QED
            BY <2>4, <3>3, TableFacts DEF none
    <2> QED
        BY <1>3, <1>5, <2>2, <2>3, <2>5 DEF sql
<1> QED
    BY <1>4, <1>5

\* A DELETE removes the row it names, if it is there.
LEMMA ExecDelete ==
    ASSUME NEW table \in Tables, NEW old \in Row
    PROVE  Exec(BuildDeleteSQL(old), table) = Without(table, {old})
<1> DEFINE sql == BuildDeleteSQL(old)
           matched == Matched(sql, table)
<1>1. IsRow(old)
    BY DEF Row, IsRow
<1>2. sql.verb = "DELETE" /\ matched = {r \in Rows(table) : r = old}
    BY <1>1, TableFacts, DeleteStatement
<1> HIDE DEF sql, matched
<1>3. Exec(sql, table) = Without(table, matched)
    BY <1>2 DEF Exec, matched
<1>4. Rows(table) \ matched = Rows(table) \ {old}
    BY <1>2
<1> QED
    BY <1>3, <1>4 DEF Without, sql

-----------------------------------------------------------------------------
(* From messages to statements.                                            *)

\* What the server sends is well formed.
LEMMA MessageTypes ==
    /\ NoTuple \notin Tuples
    /\ \A new \in Row : Insert(new) \in Messages
    /\ \A old, new \in Row : Update(old, new) \in Messages
    /\ \A old \in Row : Delete(old) \in Messages
<1> DEFINE D == (UNION Range(Texts)) \cup {Null}
           W == [DataType : {"n", "t", "u"}, Data : D]
<1>0. Null \in D
    OBVIOUS
<1>3. Tuples = [DOMAIN Columns -> W]
    BY DEF Tuples
<1>4. \A row \in Row : \A c \in Names : row[c] \in D
    BY DEF Row
<1> HIDE DEF D
<1>1. \A v \in D : Text(v) \in W
    BY <1>0 DEF Text
<1>2. Unchanged \in W
    BY <1>0 DEF Unchanged
<1> HIDE DEF W
<1>5. ASSUME NEW row, \A c \in Names : row[c] \in D
      PROVE  Tuple(row) \in Tuples
    BY <1>1, <1>3, <1>5, ColumnFacts DEF Tuple
<1>6. ASSUME NEW old \in Row, NEW new \in Row
      PROVE  NewTuple(old, new) \in Tuples
    BY <1>1, <1>2, <1>3, <1>4, ColumnFacts DEF NewTuple
<1>7. ASSUME NEW old \in Row
      PROVE  OldTuple(old) \in Tuples
    <2> DEFINE image == [c \in Names |-> IF c \in Key THEN old[c] ELSE Null]
    <2>1. \A c \in Names : image[c] \in D
        BY <1>0, <1>4
    <2>2. Tuple(image) \in Tuples
        BY <1>5, <2>1
    <2>3. Tuple(old) \in Tuples
        BY <1>4, <1>5
    <2> QED
        BY <2>2, <2>3 DEF OldTuple
<1>8. NoTuple \notin Tuples
    BY <1>3, ColumnFacts DEF NoTuple
<1>9. \A new \in Row : Tuple(new) \in Tuples
    BY <1>4, <1>5
<1>10. \A new \in Row : Insert(new) \in Messages
    BY <1>9 DEF Insert, Messages
<1>11. \A old, new \in Row : Update(old, new) \in Messages
    <2> TAKE old, new \in Row
    <2>1. OldTuple(old) \in Tuples /\ NewTuple(old, new) \in Tuples
        BY <1>6, <1>7
    <2> QED
        BY <2>1 DEF Update, Messages
<1>12. \A old \in Row : Delete(old) \in Messages
    BY <1>7 DEF Delete, Messages
<1> QED
    BY <1>8, <1>10, <1>11, <1>12

\* The statement of a message with complete images.
LEMMA CompleteStatements ==
    ASSUME NEW old \in Row, NEW new \in Row
    PROVE  /\ BuildDML(Event(Insert(new))) = BuildInsertSQL(new)
           /\ BuildDML(Event([Operation |-> "UPDATE", OldTuple |-> Tuple(old),
                              Tuple |-> Tuple(new)])) = BuildUpdateSQL(new, old)
           /\ BuildDML(Event([Operation |-> "DELETE", OldTuple |-> Tuple(old),
                              Tuple |-> NoTuple])) = BuildDeleteSQL(old)
<1>1. ExtractTuple(Tuple(old)) = old /\ ExtractTuple(Tuple(new)) = new
    BY ExtractComplete
<1>2. DOMAIN old # {}
    BY ColumnFacts DEF Row
<1>3. BuildDML(Event(Insert(new))) = BuildInsertSQL(new)
    <2>1. Event(Insert(new)).Operation = "INSERT" /\ Event(Insert(new)).NewRow = new
        BY <1>1 DEF Event, Insert
    <2> QED
        BY <2>1 DEF BuildDML
<1>4. ASSUME NEW message,
             message = [Operation |-> "UPDATE", OldTuple |-> Tuple(old), Tuple |-> Tuple(new)]
      PROVE  BuildDML(Event(message)) = BuildUpdateSQL(new, old)
    <2>1. /\ Event(message).Operation = "UPDATE"
          /\ Event(message).OldRow = old /\ Event(message).NewRow = new
        BY <1>1, <1>4 DEF Event
    <2>2. ChoosePredicateRow(old, new) = old
        BY <1>2 DEF ChoosePredicateRow
    <2> QED
        BY <2>1, <2>2 DEF BuildDML
<1>5. ASSUME NEW message,
             message = [Operation |-> "DELETE", OldTuple |-> Tuple(old), Tuple |-> NoTuple]
      PROVE  BuildDML(Event(message)) = BuildDeleteSQL(old)
    <2>1. Event(message).Operation = "DELETE" /\ Event(message).OldRow = old
        BY <1>1, <1>5 DEF Event
    <2>2. ChoosePredicateRow(old, Event(message).NewRow) = old
        BY <1>2 DEF ChoosePredicateRow
    <2> QED
        BY <2>1, <2>2 DEF BuildDML
<1> QED
    BY <1>3, <1>4, <1>5

\* A statement puts no other row into the table than the new image of its
\* message, complete or not.
LEMMA ExecImages ==
    ASSUME NEW message \in Messages, NEW table
    PROVE  Rows(Exec(BuildDML(Event(message)), table))
              \subseteq Rows(table) \cup {ExtractTuple(message.Tuple)}
<1> DEFINE new == ExtractTuple(message.Tuple)
           old == ExtractTuple(message.OldTuple)
           sql == BuildDML(Event(message))
<1>1. \A rows : Rows(Without(table, rows)) \subseteq Rows(table)
    BY DEF Rows, BagToSet, Without
<1>2. \A t, n : Rows(t (+) Copies(new, n)) \subseteq Rows(t) \cup {new}
    BY DEF Rows, BagToSet, (+), Copies, EmptyBag, SetToBag
<1>3. /\ Event(message).Operation = message.Operation
      /\ Event(message).NewRow = new /\ Event(message).OldRow = old
    BY DEF Event
<1>4. ASSUME NEW tuple \in Tuples
      PROVE  IsRow(ExtractTuple(tuple)) /\ DOMAIN ExtractTuple(tuple) # {}
    BY ExtractFull, ColumnFacts DEF IsRow
<1> HIDE DEF new, old, sql
<1>5. CASE message.Operation = "INSERT"
    <2>1. message.Tuple \in Tuples
        BY <1>5 DEF Messages
    <2>2. IsRow(new)
        BY <1>4, <2>1 DEF new
    <2>3. sql = BuildInsertSQL(new)
        BY <1>3, <1>5 DEF BuildDML, sql
    <2>4. Exec(sql, table) = table (+) Copies(new, 1)
        BY <2>2, <2>3, ExecInsert
    <2> QED
        BY <1>2, <2>4 DEF sql, new
<1>6. CASE message.Operation = "UPDATE"
    <2> DEFINE predicate == ChoosePredicateRow(old, new)
               none == [r \in {} |-> 1]
    <2>1. message.Tuple \in Tuples /\ (message.OldTuple \in Tuples \/ message.OldTuple = NoTuple)
        BY <1>6 DEF Messages
    <2>2. IsRow(new)
        BY <1>4, <2>1 DEF new
    <2>3. IsRow(predicate)
        BY <1>4, <2>1, <2>2, ExtractNone DEF ChoosePredicateRow, old
    <2>4. sql = BuildUpdateSQL(new, predicate)
        BY <1>3, <1>6 DEF BuildDML, sql
    <2>5. Rows(none) = {}
        BY DEF Rows, BagToSet
    <2> HIDE DEF predicate, none
    <2>6. sql.verb = "UPDATE" /\ Assigned(sql) = new
        BY <2>2, <2>3, <2>4, <2>5, UpdateStatement
    <2>7. Exec(sql, table) = Without(table, Matched(sql, table))
                                (+) Copies(new, Count(table, Matched(sql, table)))
        BY <2>6 DEF Exec
    <2>8. Rows(Exec(sql, table)) \subseteq Rows(Without(table, Matched(sql, table))) \cup {new}
        BY <1>2, <2>7
    <2> QED
        BY <1>1, <2>8 DEF sql, new
<1>7. CASE message.Operation = "DELETE"
    <2>1. sql.verb = "DELETE"
        BY <1>3, <1>7 DEF BuildDML, BuildDeleteSQL, sql
    <2>2. Exec(sql, table) = Without(table, Matched(sql, table))
        BY <2>1 DEF Exec
    <2> QED
        BY <1>1, <2>2 DEF sql, new
<1> QED
    BY <1>5, <1>6, <1>7 DEF Messages

-----------------------------------------------------------------------------
(* Applying an event: for the first time, and again.                       *)

\* Applied to the version it changed, a complete message makes the next one.
LEMMA FirstTime ==
    ASSUME NEW message, NEW before \in Tables, NEW after,
           Complete(message, before, after)
    PROVE  Exec(BuildDML(Event(message)), before) = after
<1>0. \A row \in Row : IsRow(row)
    BY DEF Row, IsRow
<1>1. CASE \E new \in Row : message = Insert(new) /\ after = before (+) Copies(new, 1)
    <2>1. PICK new \in Row : message = Insert(new) /\ after = before (+) Copies(new, 1)
        BY <1>1
    <2> QED
        BY <1>0, <2>1, CompleteStatements, ExecInsert
<1>2. CASE \E old \in Rows(before), new \in Row :
              /\ message = [Operation |-> "UPDATE", OldTuple |-> Tuple(old),
                            Tuple |-> Tuple(new)]
              /\ before[old] = 1
              /\ after = (before (-) Copies(old, 1)) (+) Copies(new, 1)
    <2>1. PICK old \in Rows(before), new \in Row :
              /\ message = [Operation |-> "UPDATE", OldTuple |-> Tuple(old),
                            Tuple |-> Tuple(new)]
              /\ before[old] = 1
              /\ after = (before (-) Copies(old, 1)) (+) Copies(new, 1)
        BY <1>2
    <2>2. old \in Row
        BY TableFacts
    <2>3. BuildDML(Event(message)) = BuildUpdateSQL(new, old)
        BY <2>1, <2>2, CompleteStatements
    <2>4. Exec(BuildUpdateSQL(new, old), before) = Without(before, {old}) (+) Copies(new, 1)
        BY <2>1, <2>2, ExecUpdate
    <2>5. before (-) Copies(old, 1) = Without(before, {old})
        BY <2>1, TakeRow
    <2> QED
        BY <2>1, <2>3, <2>4, <2>5
<1>3. CASE \E old \in Rows(before) :
              /\ message = [Operation |-> "DELETE", OldTuple |-> Tuple(old),
                            Tuple |-> NoTuple]
              /\ before[old] = 1
              /\ after = before (-) Copies(old, 1)
    <2>1. PICK old \in Rows(before) :
              /\ message = [Operation |-> "DELETE", OldTuple |-> Tuple(old),
                            Tuple |-> NoTuple]
              /\ before[old] = 1
              /\ after = before (-) Copies(old, 1)
        BY <1>3
    <2>2. old \in Row
        BY TableFacts
    <2>3. BuildDML(Event(message)) = BuildDeleteSQL(old)
        BY <2>1, <2>2, CompleteStatements
    <2>4. Exec(BuildDeleteSQL(old), before) = Without(before, {old})
        BY <2>2, ExecDelete
    <2>5. before (-) Copies(old, 1) = Without(before, {old})
        BY <2>1, TakeRow
    <2> QED
        BY <2>1, <2>3, <2>4, <2>5
<1> QED
    BY <1>1, <1>2, <1>3 DEF Complete

\* A complete message that changes no key names rows with the same key.
LEMMA KeyKept ==
    ASSUME NEW old \in Row, NEW new \in Row,
           ~ChangesKey([Operation |-> "UPDATE", OldTuple |-> Tuple(old),
                        Tuple |-> Tuple(new)])
    PROVE  SameKey(old, new)
<1> SUFFICES ASSUME NEW c \in Key PROVE old[c] = new[c]
    BY DEF SameKey
<1>1. PICK i \in DOMAIN Columns : Columns[i] = c
    BY RowAssumption, ColumnFacts DEF Names
<1>2. Tuple(old) # NoTuple
    BY ExtractComplete
<1>3. Tuple(old)[i] = Tuple(new)[i]
    BY <1>1, <1>2 DEF ChangesKey
<1>4. Text(old[c]) = Text(new[c])
    BY <1>1, <1>3 DEF Tuple
<1> QED
    BY <1>4 DEF Text

\* With a primary key a table is known by what it has under every key.
LEMMA SameTable ==
    ASSUME kind # "keyless", NEW t \in Tables, Valid(t), NEW u \in Tables, Valid(u),
           \A row \in Row : Having(t, row) = Having(u, row)
    PROVE  t = u
<1>1. \A r : SameKey(r, r)
    BY DEF SameKey
<1>2. Rows(t) \subseteq Rows(u) /\ Rows(u) \subseteq Rows(t)
    <2>1. \A r \in Rows(t) : r \in Row /\ r \in Having(t, r)
        BY <1>1, TableFacts DEF Having
    <2>2. \A r \in Rows(u) : r \in Row /\ r \in Having(u, r)
        BY <1>1, TableFacts DEF Having
    <2> QED
        BY <2>1, <2>2 DEF Having
<1>3. \A r \in Rows(t) : t[r] = 1 /\ u[r] = 1
    BY <1>2 DEF Valid
<1> QED
    BY <1>2, <1>3, TableFacts

\* Under a primary key a row is alone with its key.
LEMMA AloneWithKey ==
    ASSUME kind # "keyless", NEW t, Valid(t), NEW r \in Rows(t), NEW row, SameKey(r, row)
    PROVE  Having(t, row) = {r}
<1>1. \A s \in Rows(t) : SameKey(s, row) => SameKey(s, r)
    BY DEF SameKey
<1>2. \A s \in Rows(t) : SameKey(s, r) => s = r
    BY DEF Valid
<1> QED
    BY <1>1, <1>2 DEF Having

\* Applied again to a table with a key, a complete message that changes no key
\* leaves under every key what the next version has there, or what was there.
\* In the second case it was not what the message had changed.
LEMMA ReplayRow ==
    ASSUME kind # "keyless",
           NEW table \in Tables, Valid(table),
           NEW before \in Tables, Valid(before), NEW after, Valid(after),
           NEW message, Complete(message, before, after), ~ChangesKey(message),
           NEW result, result = Exec(BuildDML(Event(message)), table), Valid(result)
    PROVE  /\ result \in Tables
           /\ \A row \in Row :
                 \/ Having(result, row) = Having(after, row)
                 \/ /\ Having(result, row) = Having(table, row)
                    /\ Having(table, row) = Having(before, row)
                          => Having(after, row) = Having(before, row)
<1>0. \A row \in Row : IsRow(row)
    BY DEF Row, IsRow
<1> DEFINE Elsewhere(t, u, r) ==
               \A row : ~SameKey(r, row) => Having(t, row) = Having(u, row)
<1>1. CASE \E new \in Row : message = Insert(new) /\ after = before (+) Copies(new, 1)
    <2>1. PICK new \in Row : message = Insert(new) /\ after = before (+) Copies(new, 1)
        BY <1>1
    <2>2. result = table (+) Copies(new, 1)
        BY <1>0, <2>1, CompleteStatements, ExecInsert
    <2>3. result \in Tables /\ Rows(result) = Rows(table) \cup {new}
        BY <2>2, AddRow
    <2>4. Rows(after) = Rows(before) \cup {new}
        BY <2>1, AddRow
    <2>5. \A row : SameKey(new, row) => Having(result, row) = Having(after, row)
        BY <2>3, <2>4, AloneWithKey
    <2>6. Elsewhere(result, table, new) /\ Elsewhere(after, before, new)
        BY <2>3, <2>4 DEF Having
    <2> QED
        BY <2>3, <2>5, <2>6
<1>2. CASE \E old \in Rows(before), new \in Row :
              /\ message = [Operation |-> "UPDATE", OldTuple |-> Tuple(old),
                            Tuple |-> Tuple(new)]
              /\ before[old] = 1
              /\ after = (before (-) Copies(old, 1)) (+) Copies(new, 1)
    <2>1. PICK old \in Rows(before), new \in Row :
              /\ message = [Operation |-> "UPDATE", OldTuple |-> Tuple(old),
                            Tuple |-> Tuple(new)]
              /\ before[old] = 1
              /\ after = (before (-) Copies(old, 1)) (+) Copies(new, 1)
        BY <1>2
    <2>2. old \in Row
        BY TableFacts
    <2>3. SameKey(old, new)
        BY <2>1, <2>2, KeyKept
    <2>4. \A row : SameKey(new, row) <=> SameKey(old, row)
        BY <2>3 DEF SameKey
    <2>5. Rows(after) = (Rows(before) \ {old}) \cup {new}
        <3> DEFINE rest == Without(before, {old})
        <3>1. rest \in Tables /\ Rows(rest) = Rows(before) \ {old}
            BY DropRow
        <3>2. after = rest (+) Copies(new, 1)
            BY <2>1, TakeRow
        <3> HIDE DEF rest
        <3> QED
            BY <3>1, <3>2, AddRow
    <2>6. Elsewhere(after, before, new)
        BY <2>4, <2>5 DEF Having
    <2>7. result = IF old \in Rows(table)
                   THEN Without(table, {old}) (+) Copies(new, table[old])
                   ELSE table
        <3>1. BuildDML(Event(message)) = BuildUpdateSQL(new, old)
            BY <2>1, <2>2, CompleteStatements
        <3> QED
            BY <2>2, <3>1, ExecUpdate
    <2>8. CASE old \in Rows(table)
        <3>1. table[old] = 1
            BY <2>8 DEF Valid
        <3>2. result \in Tables /\ Rows(result) = (Rows(table) \ {old}) \cup {new}
            <4> DEFINE rest == Without(table, {old})
            <4>1. rest \in Tables /\ Rows(rest) = Rows(table) \ {old}
                BY DropRow
            <4>2. result = rest (+) Copies(new, 1)
                BY <2>7, <2>8, <3>1
            <4> HIDE DEF rest
            <4> QED
                BY <4>1, <4>2, AddRow
        <3>3. \A row : SameKey(new, row) => Having(result, row) = Having(after, row)
            BY <2>5, <3>2, AloneWithKey
        <3>4. Elsewhere(result, table, new)
            BY <2>4, <3>2 DEF Having
        <3> QED
            BY <2>6, <3>2, <3>3, <3>4
    <2>9. CASE old \notin Rows(table)
        <3>1. result = table
            BY <2>7, <2>9
        <3>2. \A row : SameKey(new, row) => Having(table, row) # Having(before, row)
            BY <2>4, <2>9 DEF Having
        <3> QED
            BY <2>6, <3>1, <3>2
    <2> QED
        BY <2>8, <2>9
<1>3. CASE \E old \in Rows(before) :
              /\ message = [Operation |-> "DELETE", OldTuple |-> Tuple(old),
                            Tuple |-> NoTuple]
              /\ before[old] = 1
              /\ after = before (-) Copies(old, 1)
    <2>1. PICK old \in Rows(before) :
              /\ message = [Operation |-> "DELETE", OldTuple |-> Tuple(old),
                            Tuple |-> NoTuple]
              /\ before[old] = 1
              /\ after = before (-) Copies(old, 1)
        BY <1>3
    <2>2. old \in Row
        BY TableFacts
    <2>3. Rows(after) = Rows(before) \ {old}
        BY <2>1, TakeRow, DropRow
    <2>4. result \in Tables /\ Rows(result) = Rows(table) \ {old}
        <3>1. BuildDML(Event(message)) = BuildDeleteSQL(old)
            BY <2>1, <2>2, CompleteStatements
        <3>2. result = Without(table, {old})
            BY <2>2, <3>1, ExecDelete
        <3>3. /\ Without(table, {old}) \in Tables
              /\ Rows(Without(table, {old})) = Rows(table) \ {old}
            BY DropRow
        <3> QED
            BY <3>2, <3>3
    <2>5. Elsewhere(after, before, old) /\ Elsewhere(result, table, old)
        BY <2>3, <2>4 DEF Having
    <2>6. \A row : SameKey(old, row) => Having(after, row) = {}
        <3>1. \A row : SameKey(old, row) => Having(before, row) = {old}
            BY <2>1, AloneWithKey
        <3> QED
            BY <2>3, <3>1 DEF Having
    <2>7. CASE old \in Rows(table)
        <3>1. \A row : SameKey(old, row) => Having(table, row) = {old}
            BY <2>7, AloneWithKey
        <3>2. \A row : SameKey(old, row) => Having(result, row) = {}
            BY <2>4, <3>1 DEF Having
        <3> QED
            BY <2>4, <2>5, <2>6, <3>2
    <2>8. CASE old \notin Rows(table)
        <3>1. \A row : Having(result, row) = Having(table, row)
            BY <2>4, <2>8 DEF Having
        <3>2. \A row : SameKey(old, row) => Having(table, row) # Having(before, row)
            BY <2>1, <2>8 DEF Having
        <3> QED
            BY <2>4, <2>5, <3>1, <3>2
    <2> QED
        BY <2>7, <2>8
<1> QED
    BY <1>1, <1>2, <1>3 DEF Complete

-----------------------------------------------------------------------------
(* The steps.                                                              *)

\* What an appended element changes.
LEMMA Appended ==
    ASSUME NEW S, NEW s \in Seq(S), NEW e \in S
    PROVE  /\ Append(s, e) \in Seq(S) /\ Len(Append(s, e)) = Len(s) + 1
           /\ DOMAIN Append(s, e) = 1..(Len(s) + 1) /\ DOMAIN s = 1..Len(s)
           /\ Append(s, e)[Len(s) + 1] = e
           /\ \A i \in 1..Len(s) : Append(s, e)[i] = s[i]
           /\ Len(s) \in Nat
OBVIOUS

\* Nothing is there at first.
LEMMA EmptyTable == EmptyBag \in Tables /\ Valid(EmptyBag) /\ Rows(EmptyBag) = {}
<1>1. EmptyBag = [e \in {} |-> 1]
    BY DEF EmptyBag, SetToBag
<1>2. DOMAIN EmptyBag = {} /\ EmptyBag \in [{} -> Nat \ {0}]
    BY <1>1
<1>3. Rows(EmptyBag) = {}
    BY <1>2 DEF Rows, BagToSet
<1>4. EmptyBag \in Tables
    BY <1>2, TableIntro
<1> QED
    BY <1>3, <1>4 DEF Valid

\* The initial state satisfies the invariant.
LEMMA InitRows == Init => IInv
<1> SUFFICES ASSUME Init PROVE IInv
    OBVIOUS
<1>1. /\ kind \in {"full", "default", "keyless"} /\ source = EmptyBag /\ replica = EmptyBag
      /\ log = <<>> /\ pos = 1 /\ lossy = FALSE
      /\ versions = <<EmptyBag>> /\ reached = 1
    BY RowAssumption DEF Init
<1>2. /\ versions \in Seq(Tables) /\ Len(versions) = 1 /\ versions[1] = EmptyBag
      /\ DOMAIN versions = 1..1
    BY <1>1, EmptyTable
<1>3. log \in Seq(Messages) /\ Len(log) = 0 /\ DOMAIN log = {}
    BY <1>1
<1>4. WellFormed
    <2>1. \A i \in DOMAIN versions : Valid(versions[i])
        BY <1>2, EmptyTable
    <2>2. source = versions[Len(versions)] /\ Len(versions) = Len(log) + 1
        BY <1>1, <1>2, <1>3
    <2>3. reached \in 1..Len(versions) /\ pos \in 1..reached
        BY <1>1, <1>2
    <2>4. kind \in {"full", "default", "keyless"} /\ lossy \in BOOLEAN
        BY <1>1
    <2> QED
        BY <1>2, <1>3, <2>1, <2>2, <2>3, <2>4 DEF WellFormed
<1>5. RowsAreImages
    BY <1>1, EmptyTable DEF RowsAreImages
<1>6. AllComplete
    BY <1>3 DEF AllComplete
<1>7. Tracks
    <2>1. replica \in Tables /\ Valid(replica) /\ replica = versions[1]
        BY <1>1, <1>2, EmptyTable
    <2>2. pos = 1 /\ reached = 1 /\ pos..(reached - 1) = {} /\ 1 \in pos..reached
        BY <1>1
    <2> QED
        BY <2>1, <2>2 DEF Tracks
<1> QED
    BY <1>4, <1>5, <1>6, <1>7 DEF IInv

\* A change of the source, complete or not.
LEMMA ChangeRows ==
    ASSUME IInv, NEW table \in Tables, NEW message \in Messages,
           NEW complete \in BOOLEAN, complete => Complete(message, source, table),
           Change(table, message, complete)
    PROVE  IInv'
<1>1. WellFormed /\ RowsAreImages /\ (~lossy => AllComplete /\ Tracks)
    BY DEF IInv
<1>2. /\ source' = table /\ log' = Append(log, message) /\ versions' = Append(versions, table)
      /\ lossy' = (lossy \/ ~complete) /\ kind' = kind /\ replica' = replica
      /\ pos' = pos /\ reached' = reached /\ Valid(table)
    BY DEF Change
<1>3. /\ log \in Seq(Messages) /\ versions \in Seq(Tables) /\ Len(versions) = Len(log) + 1
      /\ source = versions[Len(versions)] /\ \A i \in DOMAIN versions : Valid(versions[i])
      /\ reached \in 1..Len(versions) /\ pos \in 1..reached
    BY <1>1 DEF WellFormed
<1>4. /\ log' \in Seq(Messages) /\ Len(log') = Len(log) + 1 /\ Len(log) \in Nat
      /\ DOMAIN log = 1..Len(log) /\ DOMAIN log' = 1..(Len(log) + 1)
      /\ log'[Len(log) + 1] = message /\ \A i \in 1..Len(log) : log'[i] = log[i]
    BY <1>2, <1>3, Appended
<1>5. /\ versions' \in Seq(Tables) /\ Len(versions') = Len(log) + 2
      /\ DOMAIN versions = 1..(Len(log) + 1) /\ DOMAIN versions' = 1..(Len(log) + 2)
      /\ versions'[Len(log) + 2] = table
      /\ \A i \in 1..(Len(log) + 1) : versions'[i] = versions[i]
    <2>1. /\ versions' \in Seq(Tables) /\ Len(versions') = Len(versions) + 1
          /\ DOMAIN versions = 1..Len(versions) /\ DOMAIN versions' = 1..(Len(versions) + 1)
          /\ versions'[Len(versions) + 1] = table
          /\ \A i \in 1..Len(versions) : versions'[i] = versions[i]
        BY <1>2, <1>3, Appended
    <2>2. Len(versions) + 1 = Len(log) + 2
        BY <1>3, <1>4
    <2> QED
        BY <1>3, <2>1, <2>2
<1>6. \A t : Valid(t)' <=> Valid(t)
    BY <1>2 DEF Valid
<1>7. WellFormed'
    <2>1. (\A i \in DOMAIN versions : Valid(versions[i]))'
        <3> SUFFICES ASSUME NEW i \in 1..(Len(log) + 2)
                     PROVE  Valid(versions'[i])
            BY <1>2, <1>5 DEF Valid
        <3>1. i \in 1..(Len(log) + 1) \/ i = Len(log) + 2
            BY <1>4
        <3> QED
            BY <1>2, <1>3, <1>5, <3>1
    <2>2. (source = versions[Len(versions)])'
        BY <1>2, <1>5
    <2>3. lossy' \in BOOLEAN /\ kind' \in {"full", "default", "keyless"}
        BY <1>1, <1>2 DEF WellFormed
    <2>4. (Len(versions) = Len(log) + 1)' /\ reached' \in 1..Len(versions')
          /\ pos' \in 1..reached'
        BY <1>2, <1>3, <1>4, <1>5
    <2> QED
        BY <1>4, <1>5, <2>1, <2>2, <2>3, <2>4 DEF WellFormed
<1>8. RowsAreImages'
    <2> SUFFICES ASSUME NEW r \in Rows(replica)
                 PROVE  \E i \in 1..Len(log') : r = ExtractTuple(log'[i].Tuple)
        BY <1>2 DEF RowsAreImages
    <2>1. PICK i \in 1..Len(log) : r = ExtractTuple(log[i].Tuple)
        BY <1>1 DEF RowsAreImages
    <2>2. i \in 1..Len(log') /\ log'[i] = log[i]
        BY <1>4
    <2> QED
        BY <2>1, <2>2
<1>9. ASSUME ~lossy'
      PROVE  AllComplete' /\ Tracks'
    <2>1. AllComplete /\ Tracks /\ Complete(message, source, table)
        BY <1>1, <1>2, <1>9
    <2>2. AllComplete'
        <3> SUFFICES ASSUME NEW i \in 1..(Len(log) + 1)
                     PROVE  Complete(log'[i], versions'[i], versions'[i + 1])
            BY <1>4 DEF AllComplete
        <3>1. CASE i \in 1..Len(log)
            <4>1. i \in 1..(Len(log) + 1) /\ i + 1 \in 1..(Len(log) + 1)
                BY <1>4, <3>1
            <4>2. Complete(log[i], versions[i], versions[i + 1])
                BY <1>4, <2>1, <3>1 DEF AllComplete
            <4> QED
                BY <1>4, <1>5, <3>1, <4>1, <4>2
        <3>2. CASE i = Len(log) + 1
            <4>1. versions'[i] = source
                BY <1>3, <1>4, <1>5, <3>2
            <4>2. versions'[i + 1] = table /\ log'[i] = message
                BY <1>4, <1>5, <3>2
            <4> QED
                BY <2>1, <4>1, <4>2
        <3> QED
            BY <1>4, <3>1, <3>2
    <2>3. Tracks'
        <3>1. \A q \in pos..reached : versions'[q] = versions[q]
            BY <1>3, <1>5
        <3>2. \A i \in pos..(reached - 1) : log'[i] = log[i]
            BY <1>3, <1>4
        <3>3. pos \in pos..reached
            BY <1>3
        <3> QED
            BY <1>2, <1>6, <2>1, <3>1, <3>2, <3>3 DEF Tracks
    <2> QED
        BY <2>2, <2>3
<1> QED
    BY <1>7, <1>8, <1>9 DEF IInv

\* The source of a well-formed state.
LEMMA SourceTable ==
    ASSUME WellFormed
    PROVE  source \in Tables /\ Rows(source) \subseteq Row
<1>1. versions \in Seq(Tables) /\ Len(versions) \in Nat \ {0} /\ source = versions[Len(versions)]
    BY DEF WellFormed
<1>2. source \in Tables
    BY <1>1
<1> QED
    BY <1>2, TableFacts

\* The application inserts a row.
LEMMA SourceInsertRows == ASSUME IInv, SourceInsert PROVE IInv'
<1>1. PICK new \in Row : Change(source (+) Copies(new, 1), Insert(new), TRUE)
    BY DEF SourceInsert
<1> DEFINE table == source (+) Copies(new, 1)
<1>2. source \in Tables
    BY SourceTable DEF IInv
<1>3. table \in Tables
    BY <1>2, AddRow
<1>4. Insert(new) \in Messages
    BY MessageTypes
<1>5. Complete(Insert(new), source, table)
    BY DEF Complete
<1> HIDE DEF table
<1> QED
    BY <1>1, <1>3, <1>4, <1>5, ChangeRows DEF table

\* The application updates a row.
LEMMA SourceUpdateRows == ASSUME IInv, SourceUpdate PROVE IInv'
<1>1. PICK old \in Rows(source), new \in Row :
         Change((source (-) Copies(old, 1)) (+) Copies(new, 1), Update(old, new),
                /\ Update(old, new).OldTuple = Tuple(old)
                /\ Update(old, new).Tuple = Tuple(new)
                /\ source[old] = 1)
    BY DEF SourceUpdate
<1> DEFINE rest == source (-) Copies(old, 1)
           table == rest (+) Copies(new, 1)
           message == Update(old, new)
           complete == /\ message.OldTuple = Tuple(old) /\ message.Tuple = Tuple(new)
                       /\ source[old] = 1
<1>2. source \in Tables /\ old \in Row
    BY SourceTable DEF IInv
<1>3. rest \in Tables
    BY <1>2, TakeRow
<1>4. table \in Tables
    <2> HIDE DEF rest
    <2> QED
        BY <1>3, AddRow
<1>5. message \in Messages
    BY <1>2, MessageTypes
<1>6. ASSUME complete
      PROVE  Complete(message, source, table)
    <2>1. message = [Operation |-> "UPDATE", OldTuple |-> Tuple(old), Tuple |-> Tuple(new)]
        BY <1>6 DEF Update
    <2> HIDE DEF message
    <2> QED
        BY <1>6, <2>1 DEF Complete
<1>7. complete \in BOOLEAN /\ Change(table, message, complete)
    BY <1>1
<1> HIDE DEF table, message, complete
<1> QED
    BY <1>4, <1>5, <1>6, <1>7, ChangeRows

\* The application deletes a row.
LEMMA SourceDeleteRows == ASSUME IInv, SourceDelete PROVE IInv'
<1>1. PICK old \in Rows(source) :
         Change(source (-) Copies(old, 1), Delete(old),
                Delete(old).OldTuple = Tuple(old) /\ source[old] = 1)
    BY DEF SourceDelete
<1> DEFINE table == source (-) Copies(old, 1)
           message == Delete(old)
           complete == message.OldTuple = Tuple(old) /\ source[old] = 1
<1>2. source \in Tables /\ old \in Row
    BY SourceTable DEF IInv
<1>3. table \in Tables
    BY <1>2, TakeRow
<1>4. message \in Messages
    BY <1>2, MessageTypes
<1>5. ASSUME complete
      PROVE  Complete(message, source, table)
    <2>1. message = [Operation |-> "DELETE", OldTuple |-> Tuple(old), Tuple |-> NoTuple]
        BY <1>5 DEF Delete
    <2> HIDE DEF message
    <2> QED
        BY <1>5, <2>1 DEF Complete
<1>6. complete \in BOOLEAN /\ Change(table, message, complete)
    BY <1>1
<1> HIDE DEF table, message, complete
<1> QED
    BY <1>3, <1>4, <1>5, <1>6, ChangeRows

\* An event is applied, for the first time or again.
LEMMA ApplyRows == ASSUME IInv, Apply PROVE IInv'
<1>1. WellFormed /\ RowsAreImages /\ (~lossy => AllComplete /\ Tracks)
    BY DEF IInv
<1>2. /\ pos <= Len(log) /\ replica' = Exec(BuildDML(Event(log[pos])), replica)
      /\ Valid(replica') /\ pos' = pos + 1
      /\ reached' = IF pos = reached THEN reached + 1 ELSE reached
      /\ kind' = kind /\ source' = source /\ log' = log /\ lossy' = lossy
      /\ versions' = versions
    BY DEF Apply
<1>3. /\ log \in Seq(Messages) /\ versions \in Seq(Tables) /\ Len(versions) = Len(log) + 1
      /\ \A i \in DOMAIN versions : Valid(versions[i])
      /\ reached \in 1..Len(versions) /\ pos \in 1..reached
      /\ Len(log) \in Nat /\ DOMAIN log = 1..Len(log) /\ DOMAIN versions = 1..Len(versions)
    BY <1>1 DEF WellFormed
<1>4. pos \in DOMAIN log /\ pos \in DOMAIN versions /\ pos + 1 \in DOMAIN versions
    BY <1>2, <1>3
<1>5. /\ log[pos] \in Messages /\ versions[pos] \in Tables /\ versions[pos + 1] \in Tables
      /\ Valid(versions[pos]) /\ Valid(versions[pos + 1])
    BY <1>3, <1>4
<1>6. \A t : Valid(t)' <=> Valid(t)
    BY <1>2 DEF Valid
<1>7. Valid(replica)'
    BY <1>2 DEF Valid
<1>8. WellFormed'
    <2>1. reached' \in 1..Len(versions) /\ pos' \in 1..reached'
        BY <1>2, <1>3
    <2> QED
        BY <1>1, <1>2, <1>6, <2>1 DEF WellFormed
<1>9. RowsAreImages'
    <2>1. Rows(replica') \subseteq Rows(replica) \cup {ExtractTuple(log[pos].Tuple)}
        BY <1>2, <1>5, ExecImages
    <2>2. pos \in 1..Len(log)
        BY <1>3, <1>4
    <2> QED
        BY <1>1, <1>2, <2>1, <2>2 DEF RowsAreImages
<1>10. ASSUME ~lossy'
       PROVE  AllComplete' /\ Tracks'
    <2>1. AllComplete /\ Tracks
        BY <1>1, <1>2, <1>10
    <2>2. AllComplete'
        BY <1>2, <2>1 DEF AllComplete
    <2>3. Complete(log[pos], versions[pos], versions[pos + 1])
        BY <1>4, <2>1 DEF AllComplete
    <2>4. CASE pos = reached
        <3>1. replica = versions[pos]
            BY <2>1, <2>4 DEF Tracks
        <3>2. replica' = versions[pos + 1]
            BY <1>2, <1>5, <2>3, <3>1, FirstTime
        <3>3. /\ reached' = pos' /\ pos'..(reached' - 1) = {} /\ pos' \in pos'..reached'
              /\ ~(pos' < reached')
            BY <1>2, <1>3, <2>4
        <3>4. replica' = versions'[pos'] /\ replica' \in Tables
            BY <1>2, <1>5, <3>2
        <3> QED
            BY <1>2, <1>7, <2>2, <3>3, <3>4 DEF Tracks
    <2>5. CASE pos < reached
        <3>1. /\ replica \in Tables /\ Valid(replica) /\ kind # "keyless"
              /\ \A i \in pos..(reached - 1) : ~ChangesKey(log[i])
              /\ \A row \in Row : \E q \in pos..reached :
                    Having(replica, row) = Having(versions[q], row)
            BY <2>1, <2>5 DEF Tracks
        <3>2. ~ChangesKey(log[pos])
            BY <1>3, <2>5, <3>1
        <3>3. reached' = reached /\ pos' \in pos'..reached
            BY <1>2, <1>3, <2>5
        <3>4. /\ replica' \in Tables
              /\ \A row \in Row :
                    \/ Having(replica', row) = Having(versions[pos + 1], row)
                    \/ /\ Having(replica', row) = Having(replica, row)
                       /\ Having(replica, row) = Having(versions[pos], row)
                             => Having(versions[pos + 1], row) = Having(versions[pos], row)
            BY <1>2, <1>5, <2>3, <3>1, <3>2, ReplayRow
        <3>5. ASSUME NEW row \in Row
              PROVE  \E q \in pos'..reached' :
                        Having(replica', row) = Having(versions[q], row)
            <4>1. CASE Having(replica', row) = Having(versions[pos + 1], row)
                BY <1>2, <3>3, <4>1
            <4>2. CASE /\ Having(replica', row) = Having(replica, row)
                       /\ Having(replica, row) = Having(versions[pos], row)
                             => Having(versions[pos + 1], row) = Having(versions[pos], row)
                <5>1. PICK q \in pos..reached : Having(replica, row) = Having(versions[q], row)
                    BY <3>1
                <5>2. CASE q = pos
                    BY <1>2, <3>3, <4>2, <5>1, <5>2
                <5>3. CASE q # pos
                    <6>1. q \in pos'..reached'
                        BY <1>2, <1>3, <3>3, <5>3
                    <6> QED
                        BY <4>2, <5>1, <6>1
                <5> QED
                    BY <5>2, <5>3
            <4> QED
                BY <3>4, <4>1, <4>2
        <3>6. \A i \in pos'..(reached' - 1) : ~ChangesKey(log[i])
            <4>1. pos'..(reached' - 1) \subseteq pos..(reached - 1)
                BY <1>2, <1>3, <3>3
            <4> QED
                BY <3>1, <4>1
        <3>7. ASSUME pos' = reached'
              PROVE  replica' = versions[pos']
            <4>1. pos + 1 = reached /\ pos'..reached' = {pos + 1}
                BY <1>2, <1>3, <3>3, <3>7
            <4>2. \A row \in Row : Having(replica', row) = Having(versions[pos + 1], row)
                BY <3>5, <4>1
            <4>3. replica' = versions[pos + 1]
                BY <1>2, <1>5, <3>1, <3>4, <4>2, SameTable
            <4> QED
                BY <1>2, <4>3
        <3> QED
            BY <1>2, <1>7, <2>2, <3>1, <3>4, <3>5, <3>6, <3>7 DEF Tracks
    <2> QED
        BY <1>3, <2>2, <2>4, <2>5
<1> QED
    BY <1>8, <1>9, <1>10 DEF IInv

\* Events are to be applied again.
LEMMA RedeliverRows == ASSUME IInv, Redeliver PROVE IInv'
<1>1. WellFormed /\ RowsAreImages /\ (~lossy => AllComplete /\ Tracks)
    BY DEF IInv
<1>2. /\ pos' \in 1..(pos - 1)
      /\ lossy' = (\/ lossy \/ kind = "keyless"
                   \/ \E i \in pos'..(pos - 1) : ChangesKey(log[i]))
      /\ kind' = kind /\ source' = source /\ replica' = replica /\ log' = log
      /\ versions' = versions /\ reached' = reached
    BY DEF Redeliver
<1>3. reached \in 1..Len(versions) /\ pos \in 1..reached /\ Len(versions) \in Nat
    BY <1>1 DEF WellFormed
<1>4. \A t : Valid(t)' <=> Valid(t)
    BY <1>2 DEF Valid
<1>5. WellFormed'
    <2>1. pos' \in 1..reached /\ lossy' \in BOOLEAN
        BY <1>1, <1>2, <1>3 DEF WellFormed
    <2> QED
        BY <1>1, <1>2, <1>4, <2>1 DEF WellFormed
<1>6. RowsAreImages'
    BY <1>1, <1>2 DEF RowsAreImages
<1>7. ASSUME ~lossy'
      PROVE  AllComplete' /\ Tracks'
    <2>1. AllComplete /\ Tracks /\ kind # "keyless"
        BY <1>1, <1>2, <1>7
    <2>2. AllComplete'
        BY <1>2, <2>1 DEF AllComplete
    <2>3. \A i \in pos'..(pos - 1) : ~ChangesKey(log[i])
        BY <1>2, <1>7
    <2>4. \A i \in pos..(reached - 1) : ~ChangesKey(log[i])
        BY <2>1 DEF Tracks
    <2>5. \A i \in pos'..(reached - 1) : i \in pos'..(pos - 1) \/ i \in pos..(reached - 1)
        BY <1>2, <1>3
    <2>6. \A i \in pos'..(reached - 1) : ~ChangesKey(log[i])
        BY <2>3, <2>4, <2>5
    <2>7. pos..reached \subseteq pos'..reached /\ pos' # reached
        BY <1>2, <1>3
    <2>8. Tracks'
        BY <1>2, <1>4, <2>1, <2>6, <2>7 DEF Tracks
    <2> QED
        BY <2>2, <2>8
<1> QED
    BY <1>5, <1>6, <1>7 DEF IInv

\* The application empties the table: only the source's version changes, and
\* from now on nothing is claimed of the cloud but that its rows are images.
LEMMA SourceTruncateRows == ASSUME IInv, SourceTruncate PROVE IInv'
<1>1. /\ source' = EmptyBag /\ lossy' = TRUE
      /\ versions' = [versions EXCEPT ![Len(versions)] = EmptyBag]
      /\ kind' = kind /\ replica' = replica /\ log' = log /\ pos' = pos
      /\ reached' = reached
    BY DEF SourceTruncate
<1>2. WellFormed /\ RowsAreImages
    BY DEF IInv
<1>3. /\ versions \in Seq(Tables) /\ Len(versions) \in Nat \ {0}
      /\ DOMAIN versions = 1..Len(versions)
    BY <1>2 DEF WellFormed
<1>4. /\ versions' \in Seq(Tables) /\ Len(versions') = Len(versions)
      /\ DOMAIN versions' = DOMAIN versions
      /\ versions'[Len(versions)] = EmptyBag
      /\ \A i \in DOMAIN versions : versions'[i] \in {versions[i], EmptyBag}
    BY <1>1, <1>3, EmptyTable
<1>5. \A t : Valid(t)' <=> Valid(t)
    BY <1>1 DEF Valid
<1>6. \A i \in DOMAIN versions' : Valid(versions'[i])
    BY <1>2, <1>4, EmptyTable DEF WellFormed
<1>7. WellFormed'
    BY <1>1, <1>2, <1>4, <1>5, <1>6 DEF WellFormed
<1>8. RowsAreImages'
    BY <1>1, <1>2 DEF RowsAreImages
<1> QED
    BY <1>1, <1>7, <1>8 DEF IInv

\* Every step keeps the invariant.
LEMMA NextRows == IInv /\ [Next]_vars => IInv'
<1> SUFFICES ASSUME IInv, [Next]_vars PROVE IInv'
    OBVIOUS
<1>1. CASE SourceInsert
    BY <1>1, SourceInsertRows
<1>2. CASE SourceUpdate
    BY <1>2, SourceUpdateRows
<1>3. CASE SourceDelete
    BY <1>3, SourceDeleteRows
<1>4. CASE Apply
    BY <1>4, ApplyRows
<1>5. CASE Redeliver
    BY <1>5, RedeliverRows
<1>7. CASE SourceTruncate
    BY <1>7, SourceTruncateRows
<1>6. CASE UNCHANGED vars
    <2>1. /\ kind' = kind /\ source' = source /\ replica' = replica /\ log' = log
          /\ pos' = pos /\ lossy' = lossy /\ versions' = versions /\ reached' = reached
        BY <1>6 DEF vars
    <2>2. \A t : Valid(t)' <=> Valid(t)
        BY <2>1 DEF Valid
    <2> QED
        BY <2>1, <2>2 DEF IInv, WellFormed, RowsAreImages, AllComplete, Tracks
<1> QED
    BY <1>1, <1>2, <1>3, <1>4, <1>5, <1>6, <1>7 DEF Next

-----------------------------------------------------------------------------
(* Theorems.                                                               *)

\* The inductive invariant: as long as no message was lossy, an event applied
\* for the first time finds exactly the version of the table that it changed
\* and, while events are repeated after a restart, the cloud has under every
\* key what some version between the event due and the furthest one had there.
THEOREM RowsInductive == Spec => []IInv
BY InitRows, NextRows, PTL DEF Spec

\* Every row of the cloud is the complete new image of some event: the numbers
\* that buildUpdateSQL and buildWhereClause give to their placeholders agree
\* with the order of the arguments, for any columns and wherever the NULLs are.
THEOREM RowsAreImagesHolds == Spec => []RowsAreImages
<1>1. IInv => RowsAreImages
    BY DEF IInv
<1> QED
    BY <1>1, RowsInductive, PTL

\* Once every event is applied the cloud has exactly the rows of the source,
\* unless a message was lossy or the table truncated: for any columns, key and values, and any number
\* of changes, restarts and repeated events (extractTuple, buildDML).
THEOREM Convergence == Spec => []ConvergesUnlessLossy
<1>1. IInv => ConvergesUnlessLossy
    <2> SUFFICES ASSUME IInv, CaughtUp, ~lossy PROVE replica = source
        BY DEF ConvergesUnlessLossy
    <2>1. /\ Len(log) \in Nat /\ Len(versions) = Len(log) + 1
          /\ source = versions[Len(versions)]
          /\ reached \in 1..Len(versions) /\ pos \in 1..reached
        BY DEF IInv, WellFormed
    <2>2. pos = reached /\ pos = Len(versions)
        BY <2>1 DEF CaughtUp
    <2>3. replica = versions[pos]
        BY <2>2 DEF IInv, Tracks
    <2> QED
        BY <2>1, <2>2, <2>3
<1> QED
    BY <1>1, RowsInductive, PTL
=============================================================================
