------------------------------- MODULE MCEventQueue -------------------------------
EXTENDS EventQueue, TLC

\* As in worker.ts, every run claims under the installation id.
MCWorkerOf == [r \in Runs |-> "installation"]
MCWorkerIds == {"installation"}
MCTimes == {2}
=============================================================================
