---------------------------- MODULE Tables ----------------------------
(***************************************************************************)
(* The rows of a collection, and the record an operation keeps of every   *)
(* change it makes to them, from which the operation is undone.            *)
(*                                                                         *)
(* A collection c is a record: one function from ids to rows per table,    *)
(* the log of the operation in progress (the latest change last), the      *)
(* steps of operations nested in it, the next unused id, and whether the   *)
(* operation has failed.  Every operation of the modules that extend this  *)
(* one takes a collection to a collection; a step that returns an error    *)
(* sets `failed`, and what follows it is of no consequence, because the    *)
(* transaction is rolled back.                                             *)
(*                                                                         *)
(* Times and usns of rows are left out, and with them the time of the      *)
(* collection, except that the time of its schema is a row of config.      *)
(* Graves are a table whose ids are <<table, id>>.                         *)
(***************************************************************************)
EXTENDS Integers, FiniteSets, Sequences, SequencesExt

TableNames == {"decks", "cards", "notes", "notetypes", "tags", "config", "graves"}

Content(c) == [t \in TableNames |-> c[t]]
Has(c, t, id) == id \in DOMAIN c[t]
Fail(c) == [c EXCEPT !.failed = TRUE]

\* f over the members of S, in ascending order, on the collection c.
ForEach(f(_, _), c, S) ==
    MapThenFoldSet(LAMBDA x, d : f(d, x), c, LAMBDA x : x, LAMBDA T : Max(T), S)

----------------------------------------------------------------------------
(* The changes an operation makes, each kept in its log. *)

Change(kind, t, id, row) == [kind |-> kind, table |-> t, id |-> id, row |-> row]
Logged(c, change) == [c EXCEPT !.log = Append(@, change)]

AddRow(c, t, id, row) ==
    Logged([c EXCEPT ![t] = (id :> row) @@ @], Change("added", t, id, row))

RemoveRowAs(c, t, id, row) ==
    Logged([c EXCEPT ![t] = [i \in DOMAIN @ \ {id} |-> @[i]]],
           Change("removed", t, id, row))
RemoveRow(c, t, id) == RemoveRowAs(c, t, id, c[t][id])

\* The row that is replaced is logged; a row that is gone is an error.
UpdateRow(c, t, id, row) ==
    IF Has(c, t, id)
    THEN Logged([c EXCEPT ![t][id] = row], Change("updated", t, id, c[t][id]))
    ELSE Fail(c)

\* An update that changes nothing is not made.
UpdateIfChanged(c, t, id, row) ==
    IF Has(c, t, id) /\ c[t][id] = row THEN c ELSE UpdateRow(c, t, id, row)

RemoveWithGrave(c, t, id) ==
    RemoveRow(AddRow(c, "graves", <<t, id>>, TRUE), t, id)

\* The tags of a note are also updated on their own.
Retag(c, nid, tags) ==
    Logged([c EXCEPT !.notes[nid].tags = tags],
           Change("retagged", "notes", nid, c.notes[nid].tags))

SetConfig(c, key, value) ==
    IF Has(c, "config", key)
    THEN UpdateIfChanged(c, "config", key, value)
    ELSE AddRow(c, "config", key, value)

ConfigOr(c, key, default) == IF Has(c, "config", key) THEN c.config[key] ELSE default

ClearConfig(c, key) ==
    IF Has(c, "config", key) THEN RemoveRow(c, "config", key) ELSE c

\* The time of the last schema change, which forces a one-way sync.
Schema == <<"schema">>
SetSchemaModified(c) == UpdateRow(c, "config", Schema, c.config[Schema] + 1)

----------------------------------------------------------------------------
(* Taking changes back, which is itself a change. *)

UndoChange(c, change) ==
    LET t == change.table
        id == change.id
    IN CASE change.kind = "added"    -> RemoveRowAs(c, t, id, change.row)
         [] change.kind = "updated"  ->
                IF t = "config" THEN IF Has(c, t, id) THEN UpdateIfChanged(c, t, id, change.row)
                                                      ELSE Fail(c)
                ELSE UpdateRow(c, t, id, change.row)
         [] change.kind = "removed"  -> AddRow(c, t, id, change.row)
         [] change.kind = "retagged" ->
                IF Has(c, "notes", id) THEN Retag(c, id, change.row) ELSE Fail(c)

UndoChanges(c, changes) == FoldRight(LAMBDA change, d : UndoChange(d, change), changes, c)
=============================================================================
