----------------------------- MODULE Lifecycle -----------------------------
(***************************************************************************)
(* The FNOL state machine: the statuses a notice can rest in, the moves an *)
(* officer may make between them, the exception codes that hold a notice   *)
(* back, and the status that the open codes imply.  A translation of       *)
(* domain/lifecycle.py and of the enumerations it is written with.         *)
(***************************************************************************)

FNOLStatus ==
  {"received", "processing", "needs_review", "incomplete",
   "possible_duplicate", "policy_match_required", "ai_processing_failed",
   "referred", "ready_for_claim", "claim_created", "rejected", "cancelled"}

TerminalStatuses == {"claim_created", "rejected", "cancelled"}

(* The places a notice waits while an officer deals with something.  The   *)
(* table of legal moves is the same for the four of them.                  *)
HeldStatuses ==
  {"needs_review", "incomplete", "possible_duplicate", "policy_match_required"}

Allowed ==
  [s \in FNOLStatus |->
     CASE s = "received" ->
            {"processing", "needs_review", "incomplete",
             "ai_processing_failed", "cancelled", "rejected"}
       [] s = "processing" ->
            HeldStatuses \cup
            {"ready_for_claim", "ai_processing_failed", "cancelled"}
       [] s \in HeldStatuses ->
            (HeldStatuses \ {s}) \cup
            {"processing", "ready_for_claim", "referred", "rejected", "cancelled"}
       [] s = "ai_processing_failed" ->
            {"processing", "needs_review", "incomplete", "rejected", "cancelled"}
       [] s = "referred" ->
            {"processing", "needs_review", "ready_for_claim", "rejected", "cancelled"}
       [] s = "ready_for_claim" ->
            HeldStatuses \cup
            {"processing", "referred", "claim_created", "rejected", "cancelled"}
       [] OTHER -> {}]

CanTransition(current, target) ==
  current = target \/ target \in Allowed[current]

(* The exception codes that stop a claim being created at all.             *)
PolicyCodes ==
  {"no_policy_match", "multiple_policy_matches", "unconfirmed_policy_match"}

BlockingExceptions ==
  PolicyCodes \cup
  {"missing_critical_information", "possible_duplicate", "future_loss_date"}

(* The first code that is open decides, in the order of the source's table:*)
(* a notice that lacks both its loss date and its policy is incomplete. The*)
(* comment above that table (lifecycle.py:142) says it is unmatched.       *)
ImpliedStatus(open) ==
  IF "missing_critical_information" \in open THEN "incomplete"
  ELSE IF open \cap PolicyCodes # {} THEN "policy_match_required"
  ELSE IF "possible_duplicate" \in open THEN "possible_duplicate"
  ELSE IF "future_loss_date" \in open THEN "incomplete"
  ELSE "ready_for_claim"

DeriveStatusReopens(current, open) ==                          \* mutant
  IF current = "referred" THEN current ELSE ImpliedStatus(open)

(* The pipeline never reports a failed extraction: the deterministic reader*)
(* answers when the model provider does not, so extraction_failed is FALSE *)
(* at every call, and the parameter is left out.                           *)
DeriveStatus(current, open) ==
  IF current \in TerminalStatuses \cup {"referred"}
    THEN current
    ELSE ImpliedStatus(open)
=============================================================================
