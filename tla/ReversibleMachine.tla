-------------------------- MODULE ReversibleMachine --------------------------
(* The machine implements the reversible system: past is where it came     *)
(* from, though its steps back read only the StepRecords.                  *)
EXTENDS Machine

Promise == INSTANCE Reversible
           WITH Limit <- HistoryLimit, current <- Now, earlier <- past

(* Every instruction is one step forward, every reverse_step exactly       *)
(* undoes the last one kept, and a fault does not show.                    *)
ImplementsReversible == Promise!Spec
=============================================================================
