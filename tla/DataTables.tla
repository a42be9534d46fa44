------------------------------ MODULE DataTables ------------------------------
(***************************************************************************)
(* One data table file, pulled and pushed (dataTablesSurface). A push of a *)
(* table is several calls: the creation and then the rows in batches, or   *)
(* a PATCH of the description, a replacement by the first batch of rows,   *)
(* and an append of each other batch. The table's display name is its      *)
(* resource id, so that there is one table to speak of. A batch is one row.*)
(***************************************************************************)
EXTENDS Naturals, SequencesExt

CONSTANTS
  Rows, Descriptions, Columns,
  MaxRows,          \* bound on the rows of the file
  MaxTableCommands, \* bound on commands
  MaxTableEdits,    \* bound on edits of the file
  MaxTableChanges,  \* bound on changes by others
  NoTable

ASSUME TableAssumption ==
  /\ MaxRows \in Nat
  /\ NoTable \notin [description : Descriptions, columns : Columns, rows : Seq(Rows)]

VARIABLES
  table,      \* the table of the instance, or NoTable
  tableFile,  \* the mirror file; "named" says that it carries the resource name
  tablePc,    \* "idle", "create", "patch", "replace", "append" or "write"
  tableHave,  \* the table as the plan listed it, or NoTable
  tableLeft,  \* rows not yet sent
  tableCommands, tableEdits, tableChanges,
  (* History, read by properties only. *)
  tableWant,  \* the file as the last push loaded it
  tableBase,  \* the rows when the push began to write
  tableCalm   \* the last command is a push that nobody disturbed and nothing failed

tableLocals == <<tableHave, tableLeft>>
tableVars == <<table, tableFile, tablePc, tableLocals, tableCommands, tableEdits,
               tableChanges, tableWant, tableBase, tableCalm>>

Lists == BoundedSeq(Rows, MaxRows)
Table == [description : Descriptions, columns : Columns, rows : Seq(Rows)]

IsTable == table # NoTable

-----------------------------------------------------------------------------
(* Commands *)

TableMay ==
  /\ tablePc = "idle"
  /\ tableCommands < MaxTableCommands /\ tableCommands' = tableCommands + 1

TableFile(named, t) ==
  [named |-> named, description |-> t.description, columns |-> t.columns, rows |-> t.rows]

TablePull ==
  /\ TableMay /\ IsTable
  /\ tableFile' = TableFile(TRUE, table)
  /\ tableCalm' = FALSE
  /\ UNCHANGED <<table, tablePc, tableLocals, tableEdits, tableChanges, tableWant, tableBase>>

SameAs(file, t) == file = TableFile(file.named, t)

\* BuildPlan and the choice Push and Update make. A table whose rows cannot be read is left
\* out of the listing, and its file is planned as a create, as is a file without a name.
\* Columns cannot change: the push reports an error.
TablePush(hidden) ==
  /\ TableMay
  /\ LET create == ~tableFile.named \/ ~IsTable \/ hidden
     IN  /\ \/ create /\ tablePc' = "create" /\ tableCalm' = ~hidden
            \/ /\ ~create /\ SameAs(tableFile, table)
               /\ tablePc' = "idle" /\ tableCalm' = TRUE
            \/ /\ ~create /\ tableFile.columns # table.columns
               /\ tablePc' = "idle" /\ tableCalm' = FALSE
            \/ /\ ~create /\ tableFile.columns = table.columns /\ ~SameAs(tableFile, table)
               /\ tablePc' = "patch" /\ tableCalm' = TRUE
         /\ tableHave' = IF create THEN NoTable ELSE table
  /\ tableLeft' = tableFile.rows /\ tableWant' = tableFile
  /\ tableBase' = IF IsTable THEN table.rows ELSE <<>>
  /\ UNCHANGED <<table, tableFile, tableEdits, tableChanges>>

\* The push ends at an error: a call is refused or its answer lost, the file cannot be
\* written, or the process is killed.
TableFails == tablePc' = "idle" /\ tableHave' = NoTable /\ tableLeft' = <<>> /\ tableCalm' = FALSE

TableGiveUp ==
  /\ tablePc # "idle"
  /\ TableFails
  /\ UNCHANGED <<table, tableFile, tableCommands, tableEdits, tableChanges, tableWant, tableBase>>

TableCall(pc, left) ==
  /\ \/ TableFails
     \/ tablePc' = pc /\ tableLeft' = left /\ UNCHANGED <<tableHave, tableCalm>>
  /\ UNCHANGED <<tableFile, tableCommands, tableEdits, tableChanges, tableWant, tableBase>>

\* CreateDataTable: the platform refuses an id that exists.
CreateTable ==
  /\ tablePc = "create" /\ ~IsTable
  /\ table' = [description |-> tableWant.description, columns |-> tableWant.columns,
               rows |-> <<>>]
  /\ TableCall("append", tableLeft)

\* Mutant: the rows are replaced only if the description stays.
PatchOrReplace ==
  /\ tablePc = "patch" /\ IsTable
  /\ table' = [table EXCEPT !.description = tableWant.description]
  /\ TableCall(IF tableWant.description = tableHave.description THEN "replace" ELSE "write",
               tableLeft)

\* dataTablesUpdate, each part only if it differs from the listing.
PatchTable ==
  /\ tablePc = "patch" /\ IsTable
  /\ table' = [table EXCEPT !.description =
                 IF tableWant.description # tableHave.description
                 THEN tableWant.description ELSE @]
  /\ TableCall(IF tableWant.rows # tableHave.rows THEN "replace" ELSE "write", tableLeft)

\* Mutant: the first batch is appended like the others.
AppendFirst ==
  /\ tablePc = "replace" /\ IsTable
  /\ \/ tableLeft = <<>> /\ UNCHANGED table
     \/ /\ tableLeft # <<>>
        /\ table' = [table EXCEPT !.rows = Append(@, Head(tableLeft))]
  /\ TableCall("append", IF tableLeft = <<>> THEN <<>> ELSE Tail(tableLeft))

\* ReplaceDataTableRows: the first batch replaces all rows, but without rows nothing is sent.
ReplaceRows ==
  /\ tablePc = "replace" /\ IsTable
  /\ \/ tableLeft = <<>> /\ UNCHANGED table
     \/ tableLeft # <<>> /\ table' = [table EXCEPT !.rows = <<Head(tableLeft)>>]
  /\ TableCall("append", IF tableLeft = <<>> THEN <<>> ELSE Tail(tableLeft))

\* CreateDataTableRows, a batch at a time.
AppendRows ==
  /\ tablePc = "append" /\ IsTable
  /\ \/ tableLeft = <<>> /\ UNCHANGED table
     \/ tableLeft # <<>> /\ table' = [table EXCEPT !.rows = Append(@, Head(tableLeft))]
  /\ IF tableLeft = <<>> THEN TableCall("write", <<>>) ELSE TableCall("append", Tail(tableLeft))

\* The table is read again and written: the rows first (.csv), then the rest (.yaml).
WriteTable ==
  /\ tablePc = "write" /\ IsTable
  /\ tablePc' = "idle"
  /\ \/ tableFile' = TableFile(TRUE, table) /\ UNCHANGED tableCalm
     \/ tableFile' = [tableFile EXCEPT !.rows = table.rows] /\ tableCalm' = FALSE
  /\ tableHave' = NoTable /\ tableLeft' = <<>>
  /\ UNCHANGED <<table, tableCommands, tableEdits, tableChanges, tableWant, tableBase>>

-----------------------------------------------------------------------------
(* Everybody else *)

TableUi ==
  /\ tableChanges < MaxTableChanges /\ tableChanges' = tableChanges + 1
  /\ \/ table' = NoTable
     \/ /\ IsTable
        /\ \/ \E d \in Descriptions : table' = [table EXCEPT !.description = d]
           \/ \E r \in Rows : table' = [table EXCEPT !.rows = Append(@, r)]
  /\ tableCalm' = FALSE
  /\ UNCHANGED <<tableFile, tablePc, tableLocals, tableCommands, tableEdits, tableWant, tableBase>>

TableEdit ==
  /\ tablePc = "idle"
  /\ tableEdits < MaxTableEdits /\ tableEdits' = tableEdits + 1
  /\ \/ \E rows \in Lists : tableFile' = [tableFile EXCEPT !.rows = rows]
     \/ \E d \in Descriptions : tableFile' = [tableFile EXCEPT !.description = d]
     \/ \E c \in Columns : tableFile' = [tableFile EXCEPT !.columns = c]
  /\ tableCalm' = FALSE
  /\ UNCHANGED <<table, tablePc, tableLocals, tableCommands, tableChanges, tableWant, tableBase>>

-----------------------------------------------------------------------------
(* Specification *)

\* A file written by hand, or one that a pull left.
TableInit ==
  /\ table \in {NoTable} \cup [description : Descriptions, columns : Columns, rows : Lists]
  /\ IF IsTable THEN tableFile = TableFile(TRUE, table)
     ELSE tableFile \in [named : {FALSE}, description : Descriptions, columns : Columns,
                         rows : Lists]
  /\ tablePc = "idle" /\ tableHave = NoTable /\ tableLeft = <<>>
  /\ tableCommands = 0 /\ tableEdits = 0 /\ tableChanges = 0
  /\ tableWant = tableFile /\ tableBase = <<>> /\ tableCalm = FALSE

TableNext ==
  \/ TablePull \/ (\E hidden \in BOOLEAN : TablePush(hidden))
  \/ CreateTable \/ PatchTable \/ ReplaceRows \/ AppendRows \/ WriteTable \/ TableGiveUp
  \/ TableUi \/ TableEdit

TableSpec == TableInit /\ [][TableNext]_tableVars

-----------------------------------------------------------------------------
(* Properties *)

\* Every variable has its type.
TableTypeOK ==
  /\ table \in Table \cup {NoTable} /\ tableHave \in Table \cup {NoTable}
  /\ {tableFile, tableWant} \subseteq [named : BOOLEAN, description : Descriptions,
                                       columns : Columns, rows : Seq(Rows)]
  /\ tablePc \in {"idle", "create", "patch", "replace", "append", "write"}
  /\ tableLeft \in Seq(Rows) /\ tableBase \in Seq(Rows)
  /\ {tableCommands, tableEdits, tableChanges} \subseteq Nat
  /\ tableCalm \in BOOLEAN

\* A push never mixes rows: as long as nobody else writes, a table holds the rows it had
\* when the push began or the first rows of the file, in order and each once, however the
\* batches of a replacement or a creation fail (datatables_import.go:67-69).
RowsNeverMixed ==
  tableChanges = 0 /\ IsTable /\ tablePc # "idle" =>
    table.rows = tableBase \/ IsPrefix(table.rows, tableWant.rows)

\* After a push that succeeds undisturbed the next plan is empty, and description, columns
\* and rows are the file's; a file whose rows were all removed apart.
TableSettles ==
  tablePc = "idle" /\ tableCalm =>
    /\ IsTable /\ tableFile = TableFile(TRUE, table)
    /\ tableWant.rows # <<>> => SameAs(tableWant, table)

\* "Rows are a wholesale DESTROY-AND-REPLACE" (datatables_surface.go:26): after a push that
\* succeeds undisturbed the table's rows are the file's.
RowsReplaced == tablePc = "idle" /\ tableCalm => table.rows = tableWant.rows
=============================================================================
