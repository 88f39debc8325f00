------------------------------- MODULE RowStore -------------------------------
(***************************************************************************)
(* UserRepository.save, as the two adapters implement it.  A handler       *)
(* loaded a row as `was`, changed its copy to `is`, and saves the copy     *)
(* while the store holds `stored`, which others may have written since.    *)
(***************************************************************************)

\* SQLAlchemy flushes the attributes whose value differs from the loaded one
\* (the session is per request and nothing expires on commit); Beanie's
\* Document.save sets every field of the document.
Saved(backend, stored, was, is) ==
    [f \in DOMAIN stored |->
        IF backend = "beanie" \/ is[f] # was[f] THEN is[f] ELSE stored[f]]
==============================================================================
