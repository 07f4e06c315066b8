---------------------------- MODULE ClaimPromise ----------------------------
(***************************************************************************)
(* What claim creation promises about a notice, said without requests,     *)
(* sessions or locks: whatever happens to the codes that hold the notice   *)
(* back, a claim is made at most once, only while no code is open, on a    *)
(* policy and a dated loss, and the notice is linked to it in the same     *)
(* step.                                                                   *)
(***************************************************************************)
CONSTANTS
  Rows,    \* the claims that can be made
  Codes    \* the codes that hold a notice back

VARIABLES
  claims,  \* the claims made from the notice
  linked,  \* the notice carries the link to its claim
  open     \* the codes open on it

Init ==
  /\ claims = {}
  /\ linked = FALSE
  /\ open = {}

Assess ==
  /\ open' \in SUBSET Codes
  /\ UNCHANGED <<claims, linked>>

Convert ==
  /\ claims = {}
  /\ open = {}
  /\ \E row \in Rows : claims' = {row}
  /\ linked' = TRUE
  /\ UNCHANGED open

Next == Assess \/ Convert

Spec == Init /\ [][Next]_<<claims, linked, open>>
=============================================================================
