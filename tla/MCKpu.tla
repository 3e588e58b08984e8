------------------------------- MODULE MCKpu -------------------------------
(* Instances of KpuTask for TLC. *)
EXTENDS KpuTask

(* kpu_start and kpu_run: accelerator layers, of which the last sends its  *)
(* result.  One burst, a full burst, more than one, more than two.         *)
Plain(k) == [l \in 1 .. k |-> IF l = k THEN "out" ELSE "conv"]

(* kpu_run_kmodel: the first layer is a convolution or fully connected (a  *)
(* layer of the core), the last one leaves its result in main memory.      *)
Mixed == {<<"cpu">>, <<"out">>, <<"conv", "out">>, <<"conv", "cpu", "out", "cpu">>,
          <<"cpu", "conv", "conv", "out">>, <<"out", "cpu", "conv", "out", "out">>}

MCModels == [kpu_start |-> {Plain(k) : k \in 1 .. 5}, kpu_run |-> {Plain(k) : k \in 1 .. 4},
             kpu_run_kmodel |-> Mixed]
=============================================================================
