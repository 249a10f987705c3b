---------------------------- MODULE MCLoadStore ----------------------------
EXTENDS LoadStore

Bytes == 8..15
Access(st, addr, size) == [st |-> st, addr |-> addr, size |-> size]
\* A load of a line, a store over each of its ends, and the store that halts.
Accesses == {Access(FALSE, 8, 8), Access(TRUE, 6, 4), Access(TRUE, 14, 4), Access(TRUE, 20, 1)}
=============================================================================
