----------------------------- MODULE MCSistema -----------------------------
(* Small databases and inputs for the runs of Sistema.                     *)
EXTENDS Sistema, TLC

MCOggi == 2
MCData == {1, 3}                         \* a day gone by and a day to come
MCEsame == {10, 11}
MCesame == 10 :> [nome |-> "prog1", anno |-> 1]
             @@ 11 :> [nome |-> "ASD", anno |-> 2]
M5 == Testo(5)
M6 == Testo(6)
MCMatricola == {M5, M6}
MCstudente == M5 :> [password |-> "w5", anno |-> 2] @@ M6 :> [password |-> "w6", anno |-> 1]
MCAppelli == [r \in MCEsame \X MCData |-> IF r = <<10, 3>> THEN 1 ELSE 0]
MCNumeri == {5, 6}
MCPassword == {"w5", "w6"}

\* A student who passed the only exam that has an appello to come.
MCsupera == {<<M5, 10>>}
=============================================================================
