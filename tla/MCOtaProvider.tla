------------------------------ MODULE MCOtaProvider ------------------------------
(* Small instances of OtaProvider for TLC. *)
EXTENDS OtaProvider

\* Two nodes of different products, both on version 1.
Mixed == [n \in {"a", "b"} |-> IF n = "a" THEN "strip" ELSE "panel"]
\* Version 2 of both products, and the strip firmware to go back to.
Builds == {[product |-> "strip", version |-> 1], [product |-> "strip", version |-> 2],
           [product |-> "panel", version |-> 2]}

\* The administrator's entry, one that gives node "a" something else, and one
\* that lets node "b" manage everything.
Commissioned ==
    <<[auth |-> "case", privilege |-> "administer", subjects |-> {"admin"}, targets |-> {}],
      [auth |-> "case", privilege |-> "operate", subjects |-> {"a"},
       targets |-> {[endpoint |-> Open, cluster |-> Open, device |-> "light"]}],
      [auth |-> "case", privilege |-> "manage", subjects |-> {"b"}, targets |-> {}]>>

\* Node "a" is enabled for one update, node "b" for good.
Allowed == {<<"a", TRUE>>, <<"b", FALSE>>}

Ones  == [n \in {"a", "b"} |-> 1]

=============================================================================
