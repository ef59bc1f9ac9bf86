-------------------------- MODULE MCDescriptorSync --------------------------
(* Instances of DescriptorSync for TLC: an operator who names another      *)
(* repository than the one the files are pushed to, and another layer.     *)
EXTENDS DescriptorSync

CONSTANTS here, there, node, city

MCNodeOf  == [c \in Configs |-> there]
MCLayerOf == [c \in Configs |-> city]
=============================================================================
