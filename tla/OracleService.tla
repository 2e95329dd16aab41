---------------------------- MODULE OracleService ----------------------------
(***************************************************************************)
(* What the oracle promises to someone who requests a job, without nodes,  *)
(* pools, lists or slots: a job is requested, then claimed, then finished; *)
(* processors compute outputs of requested jobs; what is published for a   *)
(* finished job under a processor's key is an output computed under it.    *)
(*                                                                         *)
(* Misread is what the promise does not cover: results that come from a    *)
(* stored request read back as if it were a response (see JobPipeline).    *)
(***************************************************************************)
CONSTANTS Jobs, Processors, Outputs, None,
          Misread     \* <<processor, job, output>> that nobody computed

VARIABLES
    status,     \* absent, Pending, Processing or Finish
    computed,   \* <<processor, job, output>> for every run that ended well
    published   \* for each job and processor an output, or None

serviceVars == <<status, computed, published>>

Init ==
    /\ status = [j \in Jobs |-> "absent"]
    /\ computed = {}
    /\ published = [j \in Jobs |-> [p \in Processors |-> None]]

Step(from, to) ==
    <<from, to>> \in {<<"absent", "Pending">>, <<"Pending", "Processing">>,
                      <<"Processing", "Finish">>}

Progress(j) ==
    /\ \E to \in {"Pending", "Processing", "Finish"} :
          /\ Step(status[j], to)
          /\ status' = [status EXCEPT ![j] = to]
    /\ UNCHANGED <<computed, published>>

Compute(p, j, out) ==
    /\ status[j] # "absent"
    /\ computed' = computed \cup {<<p, j, out>>}
    /\ UNCHANGED <<status, published>>

Publish(p, j, out) ==
    /\ status[j] = "Finish"
    /\ <<p, j, out>> \in computed \cup Misread
    /\ published' = [published EXCEPT ![j][p] = out]
    /\ UNCHANGED <<status, computed>>

Next ==
    \E j \in Jobs :
        \/ Progress(j)
        \/ \E p \in Processors, out \in Outputs : Compute(p, j, out) \/ Publish(p, j, out)

Spec == Init /\ [][Next]_serviceVars
=============================================================================
