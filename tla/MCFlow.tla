------------------------------- MODULE MCFlow -------------------------------
(* FlowSemantics for TLC: the families of programs the cfg files choose.    *)
EXTENDS FlowSemantics

EveryKind ==
  [size |-> 3, kinds |-> Kinds \cup {"elseif"}]

\* Deeper nests, with the loop that has labels of every sort.
Nests ==
  [size |-> 5, kinds |-> {"simple", "break", "if", "for"}]

AllFamilies == {EveryKind, Nests}
CallFamily == {[size |-> 2, kinds |-> {"valuecall", "infinite", "while"}]}
=============================================================================
