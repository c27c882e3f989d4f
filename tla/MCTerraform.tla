----------------------------- MODULE MCTerraform -----------------------------
(* Instances of Terraform for TLC: dev and prod, each in one of two ways.  *)
EXTENDS Terraform

Envs   == {"dev", "prod"}
Values == {"old", "new"}
Old    == [e \in Envs |-> "old"]

=============================================================================
