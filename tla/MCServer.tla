------------------------------ MODULE MCServer ------------------------------
(* Two rounds and two connections for TLC. *)
EXTENDS Server

TwoShown == <<"AsKh", "KsKh">>
SomeLearned == {{}, {"AsKh"}, {"AsKh", "KsKh"}}
=============================================================================
