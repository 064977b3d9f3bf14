------------------------------- MODULE TypeOrm ------------------------------
(***************************************************************************)
(* What repository.save(entity) does to a row that already exists, in the  *)
(* version of TypeORM the program uses: it selects the row again by its    *)
(* primary key, compares the entity with what it just read, and issues an  *)
(* UPDATE that sets exactly the columns in which the two differ.  Under    *)
(* READ COMMITTED the UPDATE applies to the newest committed version of    *)
(* the row, which may be newer than the one that was compared.             *)
(*                                                                         *)
(* Rows and entities are records with the same fields.                     *)
(***************************************************************************)

(* Columns the UPDATE statement sets; with none, no statement is sent and  *)
(* no row lock is taken.                                                   *)
ChangedColumns(reloaded, entity) ==
    {f \in DOMAIN entity : entity[f] # reloaded[f]}

(* The row after that UPDATE. *)
Saved(row, reloaded, entity) ==
    [f \in DOMAIN row |->
        IF f \in ChangedColumns(reloaded, entity) THEN entity[f] ELSE row[f]]
=============================================================================
