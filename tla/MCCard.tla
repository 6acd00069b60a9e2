------------------------------- MODULE MCCard -------------------------------
(* Cards whose bytes look like responses, tokens and an idle line.          *)
EXTENDS Card, TLC

Kinds == [m |-> "MMC", s |-> "SD1", t |-> "SD2", h |-> "SDHC"]
Data == [c \in Cards |-> 0 :> <<0, 254>> @@ 1 :> <<255, 1>> @@ 2 :> <<5, 0>>]
Writes == {<< <<7, 8>>, <<9, 10>> >>}
=============================================================================
