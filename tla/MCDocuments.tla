---------------------------- MODULE MCDocuments -----------------------------
(* Small values for the constants of the documents module. *)
EXTENDS Documents, TLC

CONSTANTS survey, photo, quote, plan

(* The same bytes under two names, other bytes under the same name. *)
FiveFiles ==
  [content: {survey}, name: {"a.pdf", "b.pdf"}] \cup
  [content: {photo, quote, plan}, name: {"a.pdf"}]

AllRoutes == {"upload_document", "delete_document", "ingest_email", "create_claim"}

Interchangeable == Permutations(Requests) \cup Permutations({photo, quote, plan})
=============================================================================
