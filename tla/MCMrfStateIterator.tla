-------------------------- MODULE MCMrfStateIterator --------------------------
EXTENDS MrfStateIterator

MCShortAddresses == {[i \in 0 .. 1 |-> 20 + i]}
MCPayloadLengths == {0, 6}

=============================================================================
