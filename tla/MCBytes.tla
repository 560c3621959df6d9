------------------------------ MODULE MCBytes ------------------------------
EXTENDS Bytes

Few   == {-1, 1, 2}
Ints  == {-1}
Words == {<<2>>, <<3, 0, 2>>}

(* The last call and its answer are looked at as they are made.            *)
View == <<words, regions, writes>>
=============================================================================
