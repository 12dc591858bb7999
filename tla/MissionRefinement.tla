-------------------------- MODULE MissionRefinement --------------------------
(***************************************************************************)
(* MissionKernel implements MissionLedger: the position of the history is  *)
(* the one kept with the last linked record.  Every process step either    *)
(* links one record, calls one executor or leaves the ledger alone.        *)
(***************************************************************************)
EXTENDS MissionKernel

LedgerState == IF log = << >> THEN Invalid ELSE log[Len(log)].after

Ledger == INSTANCE MissionLedger WITH state <- LedgerState, launched <- launches

\* Racing, crashing and restarting processes together behave as one mission
\* ledger (runtime/mission.ts over runtime/journal.ts).
LedgerSpec == Ledger!Spec
=============================================================================
