------------------------------- MODULE MCMetadata -------------------------------
EXTENDS Metadata

MCNameLen  == [net |-> 3, unnamed |-> 7]
MCRequests == {[semaphoreOps |-> <<>>, doorbellOps |-> <<>>],
               [semaphoreOps |-> <<"inc">>, doorbellOps |-> <<"ring">>],
               [semaphoreOps |-> <<"wait", "dec">>, doorbellOps |-> <<>>]}
F(p)      == <<"Metadata">> \o p
MCKnown   == {F(<<"numNSPs">>), F(<<"dmaRequests", "portId">>), F(<<"threadDescriptors">>)}
MCOwn     == <<F(<<"numNSPs">>), F(<<"dmaRequests", "portId">>), F(<<"threadDescriptors">>)>>
MCSchemas == {MCOwn, Append(MCOwn, F(<<"newScalar">>)), Append(MCOwn, F(<<"dmaRequests", "newPort">>))}
MCBase    == <<F(<<"numNSPs">>)>>
=================================================================================
