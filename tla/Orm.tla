-------------------------------- MODULE Orm --------------------------------
(***************************************************************************)
(* How a SQLAlchemy session of this application writes a row back.         *)
(*                                                                         *)
(* Every service function reads a row with one statement, edits the mapped *)
(* object in memory, and commits with another statement.  The sessions are *)
(* created with expire_on_commit=False (app/db/session.py), so the object  *)
(* keeps the values it was loaded with, and the UPDATE that the commit     *)
(* flushes names only the columns whose value differs from the loaded one. *)
(* No row carries a version column and no statement takes a lock, so what  *)
(* other sessions committed between the two statements survives in the     *)
(* columns this session did not touch and is lost in those it did.         *)
(***************************************************************************)

(* The value a column holds after the flush: `stored` is what the table    *)
(* holds when the UPDATE runs, `loaded` what the session read, `edited`    *)
(* what the session wants.                                                 *)
Written(stored, loaded, edited) == IF edited = loaded THEN stored ELSE edited

=============================================================================
