----------------------------- MODULE MCDashboard -----------------------------
(***************************************************************************)
(* A small instance of Dashboard: one tenant with records and another one  *)
(* without, who may ask after the first.                                   *)
(***************************************************************************)
EXTENDS Dashboard

MCTenantOf == [r \in 1..NRecords |-> "a"]
MCAskers == [q \in 1..NQueries |-> IF q = 1 THEN {"a"} ELSE {"a", "b"}]
=============================================================================
