------------------------------ MODULE MCFiles ------------------------------
EXTENDS Files
CONSTANTS f1, f2, l1, l2

One(c) == (f1 :> c) @@ (f2 :> <<>>)
Two(c, d) == (f1 :> c) @@ (f2 :> d)

MCScenarios == {
    \* one patch of two hunks
    [disk |-> One(<<l1, l2, l1>>), hints |-> {0, 1, 3}, offsets |-> {0, 1}, inserts |-> {<<>>, <<l1>>},
     hunks |-> 2, reads |-> 1, edits |-> 1, writes |-> 0, replaces |-> 0, asts |-> 0, faults |-> 0, outside |-> 0],
    \* an anchor that several lines have
    [disk |-> One(<<l1, l2, l1, l2, l1>>), hints |-> {0, 1, 3, 6}, offsets |-> {0, 1}, inserts |-> {<<>>, <<l2>>},
     hunks |-> 1, reads |-> 1, edits |-> 1, writes |-> 0, replaces |-> 0, asts |-> 0, faults |-> 0, outside |-> 0],
    \* edits that follow each other, with anchors of earlier versions
    [disk |-> One(<<l1, l2>>), hints |-> {0}, offsets |-> {0}, inserts |-> {<<>>, <<l1>>},
     hunks |-> 1, reads |-> 1, edits |-> 3, writes |-> 0, replaces |-> 0, asts |-> 0, faults |-> 0, outside |-> 0],
    [disk |-> One(<<l1, l2>>), hints |-> {0}, offsets |-> {0}, inserts |-> {<<>>, <<l2>>},
     hunks |-> 1, reads |-> 1, edits |-> 2, writes |-> 1, replaces |-> 0, asts |-> 0, faults |-> 0, outside |-> 1],
    [disk |-> One(<<l1, l2>>), hints |-> {0}, offsets |-> {0}, inserts |-> {<<>>, <<l2>>},
     hunks |-> 1, reads |-> 1, edits |-> 2, writes |-> 0, replaces |-> 0, asts |-> 0, faults |-> 1, outside |-> 1],
    [disk |-> One(<<l1>>), hints |-> {0}, offsets |-> {0}, inserts |-> {<<l2>>},
     hunks |-> 1, reads |-> 1, edits |-> 1, writes |-> 1, replaces |-> 0, asts |-> 0, faults |-> 1, outside |-> 1],
    \* replace over two files that change meanwhile
    [disk |-> Two(<<l1, l2>>, <<l1>>), hints |-> {0}, offsets |-> {0}, inserts |-> {<<l2>>},
     hunks |-> 1, reads |-> 1, edits |-> 1, writes |-> 0, replaces |-> 1, asts |-> 0, faults |-> 0, outside |-> 1],
    \* ast_edit over two files that change meanwhile
    [disk |-> Two(<<l1, l2>>, <<l1>>), hints |-> {0}, offsets |-> {0}, inserts |-> {<<l2>>},
     hunks |-> 1, reads |-> 1, edits |-> 1, writes |-> 0, replaces |-> 0, asts |-> 1, faults |-> 0, outside |-> 1]}
=============================================================================
