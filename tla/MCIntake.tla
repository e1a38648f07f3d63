------------------------------ MODULE MCIntake ------------------------------
(* A small instance of Intake for TLC.                                     *)
EXTENDS Intake

Member(key, value) == [key |-> key, value |-> value]

(* Both routing fields with a string, with an escaped one and with a value *)
(* that is none; an escaped spelling of a routing key and of timestamp; a  *)
(* routing key inside a nested object; a value nested deeper than the      *)
(* scanner goes, and one nested deeper than encoding/json goes; and a      *)
(* timestamp.                                                              *)
SomeMembers ==
  {Member("_project", <<"name">>), Member("_project", <<"esc_token">>),
   Member("_project", <<"null">>),
   Member("_token", <<"name">>), Member("_token", <<"[", "]">>),
   Member("esc_token", <<"name">>),
   Member("name", <<"null">>),
   Member("name", <<"{", "_project", ":", "[", "]", "}">>),
   Member("name", <<"[", "[", "[", "]", "]", "]">>),
   Member("name", <<"[", "[", "[", "[", "]", "]", "]", "]">>),
   Member("timestamp", <<"null">>),
   Member("esc_timestamp", <<"null">>)}

SomeDamage == {"{", "}", "[", "]", ":", ",", "sp", "junk", "open", "badesc", "_project"}
=============================================================================
