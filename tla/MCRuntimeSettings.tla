------------------------- MODULE MCRuntimeSettings -------------------------
EXTENDS RuntimeSettings

(* /model, /fast, the context palette and /config. *)
MCChanges == [fields : {{"model"}, {"context"}, {"context", "effort"}}, keep : {TRUE}]
               \cup [fields : {{"model"}}, keep : {FALSE}]
=============================================================================
