---------------------------- MODULE BatchReorder ----------------------------
(***************************************************************************)
(* The list surgery of applyReorder in preorderbatch, step by step as the  *)
(* code runs it on the rows in their order.  ReorderBatch of               *)
(* BatchAllocation states what it computes, row by row.                    *)
(***************************************************************************)
EXTENDS BatchAllocation, SequencesExt

(* The rows of the variant as the query orders them.                        *)
Listed ==
    CHOOSE list \in [1 .. Cardinality(Existing) -> Existing] :
        \A m, n \in DOMAIN list : m < n => Ahead(list[m], list[n])

Index(list, b) == CHOOSE n \in DOMAIN list : list[n] = b

(* applyReorder: cut the batch out of the list and insert it at its place.  *)
Spliced(b, to) ==
    LET from == Index(Listed, b)
    IN  IF from = to THEN Listed ELSE InsertAt(RemoveAt(Listed, from), to, b)

(* syncOpenStatuses: the first open row is active, the others are queued.   *)
SyncedStatus(list, a) ==
    IF row[a].status \notin Open THEN row[a].status
    ELSE IF \A n \in 1 .. Index(list, a) - 1 : row[list[n]].status \notin Open THEN "active"
    ELSE "queued"

Renumbered(b, to) ==
    LET list == Spliced(b, to)
    IN  [a \in Batches |->
            IF a \notin Existing THEN row[a]
            ELSE [row[a] EXCEPT
                     !.seq = IF list = Listed THEN @ ELSE Index(list, a),
                     !.status = SyncedStatus(list, a)]]

(* A reorder request leaves the rows applyReorder returns, for every target*)
(* and position, wherever ended batches and equal sequences stand.         *)
ReorderIsTheSplice ==
    [][\A w \in Workers, b \in Batches, to \in Batches :
          ReorderBatch(w, b, to) => row' = Renumbered(b, to)]_vars
=============================================================================
