------------------------------ MODULE MCAutoAim ------------------------------
(* Instances of AutoAim for TLC.  The longer limit, which only the outpost *)
(* has, is given to a plate that no filter takes out.                      *)
EXTENDS AutoAim

Plate(n, c) == [name |-> n, color |-> c]

MCArmors ==
  {Plate("three", "red"), Plate("three", "blue"), Plate("one", "red")}

MCPriority == [three |-> 1, one |-> 2]

MCMaxLost == [three |-> 1, one |-> 2]

=============================================================================
