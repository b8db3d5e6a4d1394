---------------------------- MODULE MCExperiment ---------------------------
(***************************************************************************)
(* Instances of Experiment: the configurations of the repository.          *)
(***************************************************************************)
EXTENDS Experiment

CONSTANTS alice, bob, router

MCNodes == {alice, bob, router}

Config(at_alice, at_bob) ==
    [n \in MCNodes |-> CASE n = alice -> at_alice [] n = bob -> at_bob
        [] n = router -> [remote |-> None, bound |-> FALSE, run_time |-> 2]]

Sends(remote) == [remote |-> remote, bound |-> TRUE, run_time |-> 1]
Receives      == [remote |-> None, bound |-> TRUE, run_time |-> 2]

\* experiment_1: bob sends to alice; experiment_3: both send.
MCSetups == {Config(Receives, Sends(alice)), Config(Sends(bob), Sends(alice))}
=============================================================================
