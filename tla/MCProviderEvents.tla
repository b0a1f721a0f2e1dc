-------------------------- MODULE MCProviderEvents --------------------------
(* Instances of ProviderEvents for TLC.                                     *)
EXTENDS ProviderEvents

CONSTANTS h1, h2

\* Delivered, then complained about, with a second delivery report and noise.
Classes == [e \in Event |-> <<"sent", "delivered", "failure", "delayed">>[e]]

\* Behaviours in which only webhook handlers fail: the worker accepts, reads the
\* stored events and replays them all.
WorkerWorks ==
  /\ finalizer' \notin {"lost", "retired"}
  /\ finalizer # "done" /\ finalizer' = "done" => finalizer = "replaying" /\ todo = {}

HandlerFaults == Init /\ [][Next /\ WorkerWorks]_vars
=============================================================================
