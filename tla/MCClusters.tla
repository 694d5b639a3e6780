---- MODULE MCClusters ----
(* Instances of Clusters for TLC. *)
EXTENDS Clusters

EveryCloud == {"digitalocean", "civo", "gcp", "azure", "aws", "custom"}
OnlyDigitalOcean == {"digitalocean"}
====
