------------------------------- MODULE MCArgo -------------------------------
(* Instances of Argo for TLC: a good image, one that passes the pre-flight *)
(* but does not become ready, and one nobody signed; two good configs, and *)
(* one with the wrong table, which only the pre-flight notices.            *)
EXTENDS Argo

Images  == {"good", "flawed", "unsigned"}
Configs == {"right", "right2", "wrong"}

SignedImages == {"good", "flawed"}
Fitting == [image : Images, config : {"right", "right2"}]
Working == [image : {"good", "unsigned"}, config : Configs]

=============================================================================
