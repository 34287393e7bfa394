--------------------------- MODULE MCRegimesLoop ----------------------------
EXTENDS RegimesLoop

(* One attempt per way an item can end that the labels tell apart.         *)
Right == [calls |-> 2, hit |-> 2, stopped |-> TRUE, correct |-> TRUE,
          abstained |-> FALSE, supported |-> TRUE, authority |-> TRUE,
          fresh |-> TRUE, sensitive |-> FALSE, contradiction |-> FALSE,
          strong |-> TRUE]

MCAttempts ==
    {[Right EXCEPT !.calls = 3, !.hit = 1, !.stopped = FALSE],
     [Right EXCEPT !.calls = 1, !.hit = 0, !.supported = FALSE, !.strong = FALSE],
     [Right EXCEPT !.fresh = FALSE, !.sensitive = TRUE],
     [Right EXCEPT !.correct = FALSE, !.calls = 1, !.hit = 1, !.stopped = FALSE,
                   !.abstained = TRUE],
     [Right EXCEPT !.correct = FALSE, !.hit = 0],
     [Right EXCEPT !.correct = FALSE, !.hit = 0, !.calls = 3, !.stopped = FALSE,
                   !.authority = FALSE, !.contradiction = TRUE],
     [Right EXCEPT !.correct = FALSE, !.hit = 0, !.calls = 0, !.stopped = FALSE,
                   !.supported = FALSE, !.abstained = TRUE]}

Default == [knob \in Knobs |->
    CASE knob = "freshness" -> 20
      [] knob = "extra_call_penalty" -> 20
      [] knob = "cost_weight" -> 50
      [] knob = "exploration_coeff" -> 60
      [] knob = "recency_decay" -> 98
      [] knob = "confidence_penalty" -> 10
      [] knob = "stop_threshold" -> 60
      [] knob = "authority_threshold" -> 70
      [] OTHER -> 800]

MCBundles ==
    {Default,
     [knob \in Knobs |-> High(knob)],
     [knob \in Knobs |-> Low(knob)]}

=============================================================================
