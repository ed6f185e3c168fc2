----------------------------- MODULE TableRows -----------------------------
(***************************************************************************)
(* What one flush of a TableWriter does to the table it writes to          *)
(* (apps/dtd2mysql/src/database/TableWriter.ts).  A table is a set of      *)
(* rows, a flush a sequence of them.  Two columns are unique: the id and   *)
(* the key the feed names a row by.  A key with a null in it is unique     *)
(* against nothing, which is how every stop time without a suffix is       *)
(* stored, so such a row has the key NoKey.                                *)
(*                                                                         *)
(* A flush is one transaction (write, 162-164): either the whole of the    *)
(* result below is stored or none of it is.                                *)
(***************************************************************************)
EXTENDS Integers, Sequences

CONSTANTS Keys, NoKey

ASSUME NoKeyAssumption == NoKey \notin Keys

\* Two rows that are the same record of the feed, two revisions of it.
SameKey(r, s) == r.key # NoKey /\ r.key = s.key

\* Two rows that a unique constraint of the table does not let both be stored.
Clash(r, s) == r.id = s.id \/ SameKey(r, s)

RowsOf(rows) == {rows[i] : i \in DOMAIN rows}

\* Of several rows with one key the first: the ones after it clash with it.
FirstPerKey(rows) ==
    {rows[i] : i \in {j \in DOMAIN rows :
                        \A k \in DOMAIN rows : k < j => ~SameKey(rows[k], rows[j])}}

\* Of several rows with one key the last (lastPerKey).
LastPerKey(rows) ==
    {rows[i] : i \in {j \in DOMAIN rows :
                        \A k \in DOMAIN rows : k > j => ~SameKey(rows[k], rows[j])}}

\* INSERT ... ON CONFLICT DO NOTHING: what is there already stays as it is.
Insert(stored, rows) ==
    stored \cup {r \in FirstPerKey(rows) : \A s \in stored : ~Clash(r, s)}

Remove(stored, rows) ==
    {s \in stored : \A r \in RowsOf(rows) : ~SameKey(r, s)}

\* The delete and the insert that REPLACE is spelled out as.
Replace(stored, rows) ==
    LET kept == Remove(stored, rows)
    IN  kept \cup {r \in LastPerKey(rows) : \A s \in kept : ~Clash(r, s)}

\* writeTo: what a flush of the buffer of one action leaves in the table.
Written(stored, action, rows) ==
    CASE action = "Insert" -> Insert(stored, rows)
      [] action = "Update" -> Replace(stored, rows)
      [] action = "Delete" -> Remove(stored, rows)
=============================================================================
