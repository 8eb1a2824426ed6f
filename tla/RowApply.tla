------------------------------ MODULE RowApply ------------------------------
(***************************************************************************)
(* What a change of a row becomes on its way to the cloud: the tuples of   *)
(* the pgoutput message, the maps that extractTuple makes of them          *)
(* (subscriber.go), the statement that buildDML makes of the maps          *)
(* (publisher.go) and what the statement does to the table of the cloud.   *)
(*                                                                         *)
(* PostgreSQL (external) is the source table, the images its replica       *)
(* identity puts on the wire, and the execution of the statement.  A row   *)
(* maps columns, some of them a key, to values; a table is a bag of rows.  *)
(* Engine says when events are applied and repeated; here an event is      *)
(* applied or, if its statement fails, tried again for ever.               *)
(***************************************************************************)
EXTENDS Integers, Sequences, FiniteSets, FiniteSetsExt, Bags

CONSTANTS
    Columns,          \* the columns, in the order of the RELATION message
    SortedColumns,    \* the columns in alphabetical order
    Key,              \* the columns that are never null, and are the key
    Texts,            \* the values of each column
    Toasted,          \* the values that are stored out of line
    Null,
    Kinds,            \* the kinds of table considered
    Truncates,        \* does the application empty the table?
    MaxChanges,       \* bound on the changes of the source
    MaxCopies,        \* bound on identical rows of a table without a key
    MaxRedeliveries   \* bound on the restarts that repeat events

\* "full": primary key, REPLICA IDENTITY FULL.  "default": primary key, the
\* default replica identity.  "keyless": no key, REPLICA IDENTITY FULL.
ASSUME RowAssumption ==
    /\ Columns \in Seq(STRING) /\ Columns # <<>> /\ IsInjective(Columns)
    /\ SortedColumns \in Seq(STRING) /\ IsInjective(SortedColumns)
    /\ Range(SortedColumns) = Range(Columns)
    /\ Key \subseteq Range(Columns)
    /\ DOMAIN Texts = Range(Columns)
    /\ \A c \in Range(Columns) : Null \notin Texts[c]
    /\ Kinds \subseteq {"full", "default", "keyless"}
    /\ Truncates \in BOOLEAN
    /\ {MaxChanges, MaxCopies, MaxRedeliveries} \subseteq Nat

VARIABLES
    kind,          \* the kind of the table
    source,        \* the table of the local database
    replica,       \* the table of the cloud database
    log,           \* the messages that make an event, in the order of the WAL
    pos,           \* the next message to be applied
    lossy,         \* history: a message did not carry the complete change
    versions,      \* history: the source before each change, and now
    reached,       \* history: the furthest that pos has been
    redeliveries

vars == <<kind, source, replica, log, pos, lossy, versions, reached, redeliveries>>

\* The names of the relation's columns.
Names == Range(Columns)

Row == {row \in [Names -> (UNION Range(Texts)) \cup {Null}] :
            \A c \in Names : row[c] \in Texts[c] \/ (row[c] = Null /\ c \notin Key)}
Rows(table) == BagToSet(table)
SameKey(r, s) == \A c \in Key : r[c] = s[c]

Init ==
    /\ kind \in Kinds
    /\ source = EmptyBag /\ replica = EmptyBag
    /\ log = <<>> /\ pos = 1
    /\ lossy = FALSE /\ redeliveries = 0
    /\ versions = <<EmptyBag>> /\ reached = 1

-----------------------------------------------------------------------------
(* The wire.                                                               *)

Text(v) == IF v = Null THEN [DataType |-> "n", Data |-> Null]
                       ELSE [DataType |-> "t", Data |-> v]
Unchanged == [DataType |-> "u", Data |-> Null]

Tuple(row) == [i \in DOMAIN Columns |-> Text(row[Columns[i]])]
NoTuple == <<>>

\* A long value that the UPDATE did not touch is not sent.
NewTuple(old, new) ==
    [i \in DOMAIN Columns |->
        IF old[Columns[i]] = new[Columns[i]] /\ new[Columns[i]] \in Toasted
        THEN Unchanged ELSE Text(new[Columns[i]])]

\* The old image: complete, or the key with nulls for the other columns.
OldTuple(old) ==
    IF kind = "default"
    THEN Tuple([c \in Names |-> IF c \in Key THEN old[c] ELSE Null])
    ELSE Tuple(old)

Insert(new) == [Operation |-> "INSERT", OldTuple |-> NoTuple, Tuple |-> Tuple(new)]

Update(old, new) ==
    [Operation |-> "UPDATE",
     OldTuple |-> IF kind = "default" /\ SameKey(old, new) THEN NoTuple
                                                            ELSE OldTuple(old),
     Tuple |-> NewTuple(old, new)]

Delete(old) == [Operation |-> "DELETE", OldTuple |-> OldTuple(old), Tuple |-> NoTuple]

-----------------------------------------------------------------------------
(* subscriber.go.                                                          *)

ToastText == "unchanged_toast"

\* extractTuple: a map from column names to values, nil without a tuple.
ExtractTuple(tuple) ==
    [c \in {Columns[i] : i \in DOMAIN tuple} |->
        LET column == tuple[CHOOSE i \in DOMAIN tuple : Columns[i] = c] IN
        CASE column.DataType = "n" -> Null
          [] column.DataType = "u" -> ToastText
          [] OTHER -> column.Data]

\* The event that consumeStream emits for a message.
Event(message) ==
    [Operation |-> message.Operation,
     OldRow |-> ExtractTuple(message.OldTuple),
     NewRow |-> ExtractTuple(message.Tuple)]

-----------------------------------------------------------------------------
(* publisher.go.  A statement keeps the placeholders that its text has:    *)
(* set and where pair columns with the number n of $n, args are the        *)
(* arguments in their order.                                               *)

\* A row that is not nil has all the columns.
SortedKeys(row) == IF DOMAIN row = {} THEN <<>> ELSE SortedColumns
Values(row, keys) == [i \in DOMAIN keys |-> row[keys[i]]]

ChoosePredicateRow(oldRow, fallback) ==
    IF DOMAIN oldRow # {} THEN oldRow ELSE fallback

Placeholders(keys) == [i \in DOMAIN keys |-> [column |-> keys[i], n |-> i]]

IsNull == 0   \* in place of a placeholder

\* Mutation of BuildWhereClause: NULL is compared like any other value.
BuildWhereClauseEqual(predicate, startParam) ==
    LET keys == SortedKeys(predicate)
    IN  [parts |-> [i \in DOMAIN keys |->
                       [column |-> keys[i], n |-> startParam + i - 1]],
         args |-> Values(predicate, keys)]

BuildWhereClause(predicate, startParam) ==
    LET keys == SortedKeys(predicate)
        bound == {i \in DOMAIN keys : predicate[keys[i]] # Null}
        Number(i) == Cardinality({j \in bound : j <= i})
    IN  [parts |-> [i \in DOMAIN keys |->
                       [column |-> keys[i],
                        n |-> IF i \in bound THEN startParam + Number(i) - 1
                                             ELSE IsNull]],
         args |-> [m \in 1..Cardinality(bound) |->
                      predicate[keys[CHOOSE i \in bound : Number(i) = m]]]]

BuildInsertSQL(row) ==
    LET keys == SortedKeys(row)
    IN  [verb |-> "INSERT", set |-> Placeholders(keys), where |-> <<>>,
         args |-> Values(row, keys)]

\* Mutation of BuildUpdateSQL: the arguments of WHERE come first.
BuildUpdateSQLWhereFirst(newRow, predicate) ==
    LET keys == SortedKeys(newRow)
        clause == BuildWhereClause(predicate, Len(keys) + 1)
    IN  [verb |-> "UPDATE", set |-> Placeholders(keys), where |-> clause.parts,
         args |-> clause.args \o Values(newRow, keys)]

BuildUpdateSQL(newRow, predicate) ==
    LET keys == SortedKeys(newRow)
        clause == BuildWhereClause(predicate, Len(keys) + 1)
    IN  [verb |-> "UPDATE", set |-> Placeholders(keys), where |-> clause.parts,
         args |-> Values(newRow, keys) \o clause.args]

BuildDeleteSQL(predicate) ==
    LET clause == BuildWhereClause(predicate, 1)
    IN  [verb |-> "DELETE", set |-> <<>>, where |-> clause.parts,
         args |-> clause.args]

\* PostgreSQL's messages always carry the rows that buildDML asks for; the
\* names that it rejects are Publisher's Invalid events.
BuildDML(event) ==
    LET predicate == ChoosePredicateRow(event.OldRow, event.NewRow) IN
    CASE event.Operation = "INSERT" -> BuildInsertSQL(event.NewRow)
      [] event.Operation = "UPDATE" -> BuildUpdateSQL(event.NewRow, predicate)
      [] event.Operation = "DELETE" -> BuildDeleteSQL(predicate)

-----------------------------------------------------------------------------
(* The databases.                                                          *)

\* A comparison with NULL is never true.
Holds(part, args, row) ==
    IF part.n = IsNull THEN row[part.column] = Null
    ELSE args[part.n] # Null /\ row[part.column] = args[part.n]

Matched(sql, table) ==
    {row \in Rows(table) : \A i \in DOMAIN sql.where : Holds(sql.where[i], sql.args, row)}

Assigned(sql) ==
    [c \in {sql.set[i].column : i \in DOMAIN sql.set} |->
        sql.args[sql.set[CHOOSE i \in DOMAIN sql.set : sql.set[i].column = c].n]]

Count(table, rows) == MapThenSumSet(LAMBDA row : table[row], rows)

Without(table, rows) == [row \in Rows(table) \ rows |-> table[row]]

Copies(row, n) == IF n = 0 THEN EmptyBag ELSE [r \in {row} |-> n]

Exec(sql, table) ==
    LET matched == Matched(sql, table)
    IN  CASE sql.verb = "INSERT" -> table (+) Copies(Assigned(sql), 1)
          [] sql.verb = "UPDATE" ->
                 Without(table, matched) (+) Copies(Assigned(sql), Count(table, matched))
          [] sql.verb = "DELETE" -> Without(table, matched)

\* The primary key, where there is one.
Valid(table) ==
    kind # "keyless" =>
        /\ \A r, s \in Rows(table) : SameKey(r, s) => r = s
        /\ \A r \in Rows(table) : table[r] = 1

-----------------------------------------------------------------------------
(* Actions.                                                                *)

\* The application changes one row; the change is written to the WAL.
Change(table, message, complete) ==
    /\ Len(log) < MaxChanges
    /\ Valid(table) /\ \A r \in Rows(table) : table[r] <= MaxCopies
    /\ source' = table
    /\ log' = Append(log, message)
    /\ lossy' = (lossy \/ ~complete)
    /\ versions' = Append(versions, table)
    /\ UNCHANGED <<kind, replica, pos, reached, redeliveries>>

SourceInsert ==
    \E new \in Row : Change(source (+) Copies(new, 1), Insert(new), TRUE)

SourceUpdate ==
    \E old \in Rows(source), new \in Row :
        LET message == Update(old, new)
        IN  Change((source (-) Copies(old, 1)) (+) Copies(new, 1), message,
                   /\ message.OldTuple = Tuple(old)
                   /\ message.Tuple = Tuple(new)
                   /\ source[old] = 1)

SourceDelete ==
    \E old \in Rows(source) :
        Change(source (-) Copies(old, 1), Delete(old),
               Delete(old).OldTuple = Tuple(old) /\ source[old] = 1)

\* TRUNCATE empties the source.  consumeStream has no case for its message: no
\* event is made of it, and the cloud keeps its rows.
SourceTruncate ==
    /\ Truncates /\ source # EmptyBag /\ Len(log) < MaxChanges
    /\ source' = EmptyBag
    /\ lossy' = TRUE
    /\ versions' = [versions EXCEPT ![Len(versions)] = EmptyBag]
    /\ UNCHANGED <<kind, replica, log, pos, reached, redeliveries>>

\* The statement of the next event is executed.  If it fails the transaction
\* is rolled back and nothing changes.
Apply ==
    /\ pos <= Len(log)
    /\ replica' = Exec(BuildDML(Event(log[pos])), replica)
    /\ Valid(replica')
    /\ pos' = pos + 1
    /\ reached' = IF pos = reached THEN reached + 1 ELSE reached
    /\ UNCHANGED <<kind, source, log, lossy, versions, redeliveries>>

ChangesKey(message) ==
    /\ message.Operation = "UPDATE" /\ message.OldTuple # NoTuple
    /\ \E i \in DOMAIN Columns :
          Columns[i] \in Key /\ message.OldTuple[i] # message.Tuple[i]

\* After a restart, or after an ambiguous commit, events are applied again.
\* Applied again, an UPDATE that moved a row to another key may find its row
\* gone and the row it made deleted, as may any event where there is no key.
Redeliver ==
    /\ redeliveries < MaxRedeliveries
    /\ redeliveries' = redeliveries + 1
    /\ pos' \in 1..(pos - 1)
    /\ lossy' = (\/ lossy \/ kind = "keyless"
                 \/ \E i \in pos'..(pos - 1) : ChangesKey(log[i]))
    /\ UNCHANGED <<kind, source, replica, log, versions, reached>>

Next ==
    \/ SourceInsert \/ SourceUpdate \/ SourceDelete \/ SourceTruncate
    \/ Apply \/ Redeliver

Spec == Init /\ [][Next]_vars

-----------------------------------------------------------------------------
(* Properties.                                                             *)

CaughtUp == pos > Len(log)

\* Once every event is applied the cloud has exactly the rows of the source,
\* NULLs and changed keys included, as long as the messages carried complete
\* images, the rows could be told apart and nothing was truncated.  Events of a
\* table with a key that are applied a second time are harmless or refused,
\* unless one of them has changed a key (extractTuple, buildDML).
ConvergesUnlessLossy == CaughtUp /\ ~lossy => replica = source

\* No statement mixes old and new values: every row of the cloud is the
\* complete new image of some event, whatever columns are NULL and therefore
\* take no placeholder (buildUpdateSQL, buildWhereClause).
RowsAreImages ==
    Rows(replica) \subseteq {ExtractTuple(log[i].Tuple) : i \in 1..Len(log)}

\* Once every event is applied the cloud has exactly the rows of the source.
Converges == CaughtUp => replica = source
-----------------------------------------------------------------------------
(* Why ConvergesUnlessLossy and RowsAreImages hold: the inductive          *)
(* invariant.                                                              *)

Tables == UNION {[rows -> Nat \ {0}] : rows \in SUBSET Row}

Tuples == [DOMAIN Columns -> [DataType : {"n", "t", "u"},
                              Data : (UNION Range(Texts)) \cup {Null}]]

Messages ==
         [Operation : {"INSERT"}, OldTuple : {NoTuple}, Tuple : Tuples]
    \cup [Operation : {"UPDATE"}, OldTuple : Tuples \cup {NoTuple}, Tuple : Tuples]
    \cup [Operation : {"DELETE"}, OldTuple : Tuples, Tuple : {NoTuple}]

\* The variables have their types, versions ends with the source, and every
\* version has respected the primary key.
WellFormed ==
    /\ kind \in {"full", "default", "keyless"} /\ lossy \in BOOLEAN
    /\ log \in Seq(Messages)
    /\ versions \in Seq(Tables) /\ Len(versions) = Len(log) + 1
    /\ source = versions[Len(versions)]
    /\ \A i \in DOMAIN versions : Valid(versions[i])
    /\ reached \in 1..Len(versions) /\ pos \in 1..reached

\* The message tells all about the change from one version to the next.
Complete(message, before, after) ==
    \/ \E new \in Row :
          /\ message = Insert(new)
          /\ after = before (+) Copies(new, 1)
    \/ \E old \in Rows(before), new \in Row :
          /\ message = [Operation |-> "UPDATE", OldTuple |-> Tuple(old),
                        Tuple |-> Tuple(new)]
          /\ before[old] = 1
          /\ after = (before (-) Copies(old, 1)) (+) Copies(new, 1)
    \/ \E old \in Rows(before) :
          /\ message = [Operation |-> "DELETE", OldTuple |-> Tuple(old),
                        Tuple |-> NoTuple]
          /\ before[old] = 1
          /\ after = before (-) Copies(old, 1)

AllComplete ==
    \A i \in DOMAIN log : Complete(log[i], versions[i], versions[i + 1])

\* The rows of a table that have the key of a given row: at most one.
Having(table, row) == {r \in Rows(table) : SameKey(r, row)}

\* Events applied for the first time find exactly the version they changed.
\* While events are repeated, what the replica has under a key is what some
\* version between here and the furthest one had.
Tracks ==
    /\ replica \in Tables /\ Valid(replica)
    /\ pos = reached => replica = versions[pos]
    /\ pos < reached => kind # "keyless"
    /\ \A i \in pos..(reached - 1) : ~ChangesKey(log[i])
    /\ \A row \in Row : \E q \in pos..reached :
          Having(replica, row) = Having(versions[q], row)

IInv == WellFormed /\ RowsAreImages /\ (~lossy => AllComplete /\ Tracks)
=============================================================================
