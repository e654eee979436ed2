---------------------------- MODULE MCContentEdit ----------------------------
(* The documents of MCConsumerIndex with requests for all pages, for some,  *)
(* with a repeat, and the two requests that are refused.                    *)
EXTENDS ContentEdit, MCConsumerIndex

Pages(indices, mode) == [all |-> FALSE, indices |-> indices, mode |-> mode]
MCRequests ==
    {[all |-> TRUE, indices |-> <<>>, mode |-> mode] : mode \in {"SingleOnly", "MultiStream", "LogicalSequence"}}
    \union {Pages(indices, "MultiStream") : indices \in {<<0>>, <<0, 0>>, <<1, 0>>, <<>>, <<7>>}}
    \union {Pages(<<1, 0>>, "LogicalSequence")}
=============================================================================
