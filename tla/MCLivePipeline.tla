--------------------------- MODULE MCLivePipeline ----------------------------
(* Instances of LivePipeline for TLC.                                      *)
EXTENDS LivePipeline

Clusters2 == <<"c1", "c1", "c2">>

(* Under "even" a split by hash comes out as asked; under "odd" it gives   *)
(* CONFIRM one item more.                                                  *)
Buckets == [even |-> <<0, 3, 2>>, odd |-> <<0, 1, 2>>]
Dates == <<1, 3, 2>>
NoDates == <<1, 0, 2>>

Live(opt, con, salt, mode, conds, budgets) ==
    [kind |-> "live", optimize |-> opt, confirm |-> con, salt |-> salt,
     mode |-> mode, conds |-> conds, budgets |-> budgets, real |-> TRUE,
     online |-> FALSE]

Policy == {"no_memory_search", "policy_memory"}

(* A benchmark run with and without learning during CONFIRM, live runs by  *)
(* hash and by time, with every condition and with some, and runs resumed. *)
BenchJobs ==
    {[Live(2, 1, "even", "hash", Required, <<0, 1>>)
        EXCEPT !.kind = "bench", !.online = online] : online \in BOOLEAN}
LiveJobs ==
    {Live(2, 1, "even", "hash", Required, <<1>>),
     Live(1, 1, "even", "time", {"policy_memory", "random_memory"}, <<1, 2>>),
     Live(2, 1, "odd", "time", Policy, <<1>>),
     Live(1, 1, "odd", "hash", {"closed_book"}, <<1>>)}
ResumeJobs ==
    {[Live(1, 2, "odd", "hash", Policy, <<1>>) EXCEPT !.kind = "resume"]}
JobsOfAllKinds == BenchJobs \cup LiveJobs \cup ResumeJobs

ForkedJobs == {Live(2, 1, "odd", "hash", Policy, <<1>>)}

Budget1 == <<1>>

=============================================================================
