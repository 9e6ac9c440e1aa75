----------------------- MODULE MCDescriptorReconstruct -----------------------
(* Instances of DescriptorReconstruct: the devices, and what they may declare. *)
EXTENDS DescriptorReconstruct

Kinds == {[button |-> TRUE, range |-> TRUE, size |-> 1, usages |-> 2],
          [button |-> FALSE, range |-> FALSE, size |-> 8, usages |-> 2]}
Unnumbered == [types |-> {"input", "feature"}, ids |-> {0}]
Numbered == [types |-> {"input"}, ids |-> {1, 2}]
BothDevices == {Unnumbered, Numbered}
==============================================================================
