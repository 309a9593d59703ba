---------------------- MODULE MCCompositionEvaluation ----------------------
(* Words of four bits: ranges with sums that wrap around, for one worker   *)
(* and for two.  Compositions on a coset of eight points, of two columns,  *)
(* one of them cached, and two periodic columns, in tasks that fill the    *)
(* coset evenly or not.                                                    *)
EXTENDS CompositionEvaluation

AnyCall == [start : 0..15, end : 0..15, chunk : {1, 2, 6, 15}, work : {0, 1, 3, 14}, threads : {1, 2},
            throwing : {{}, {5, 12}}]
MCCalls == {c \in AnyCall : /\ c.start <= c.end
                            /\ c.work = 0 => c.end - c.start + 4 * c.threads <= 16
                            /\ c.threads = 2 => c.start \in {0, 9} /\ c.end >= 12}

MCJobs == [log_coset_size : {3}, task_size : {2, 3, 8}, threads : {1, 2, 3}, columns : {<<1, 1>>},
           cached : {{}, {2}}, mask : {<<<<0, 1>>, <<1, 2>>>>},
           periodic : {<<[column_step |-> 2, n_values |-> 2], [column_step |-> 1, n_values |-> 4]>>}, domain_evals : {<<4>>}]
=============================================================================
