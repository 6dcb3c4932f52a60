----------------------------- MODULE ClusterNodes -----------------------------
(* The cluster's nodes and the value for nothing, which the components share. *)
EXTENDS Integers

CONSTANTS
    Nodes,      \* node names
    None        \* nil / not found

ASSUME NoNumber == None \notin Int
===============================================================================
