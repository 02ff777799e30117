---- MODULE MCKnetApi ----
(* Two devices, in one process or in two. *)
EXTENDS KnetApi
Legacy == [u \in Units |-> {}]
Single == [u \in Units |-> {u}]
MCConfigs == {Legacy, Single}
MCSingle == {Single}
====
