---------------------------- MODULE MCMemoryUndo ----------------------------
(* Two-byte pages, three of which may exist: the text page holds one       *)
(* loaded byte, the data segment and the stack start empty.                *)
EXTENDS MemoryUndo

MCRegions ==
    {[lo |-> 0, hi |-> 2, access |-> {"read", "write", "execute"}, heap |-> FALSE],
     [lo |-> 4, hi |-> 8, access |-> {"read", "write"}, heap |-> TRUE],
     [lo |-> 11, hi |-> 13, access |-> {"read", "write"}, heap |-> FALSE],
     [lo |-> 14, hi |-> 16, access |-> {}, heap |-> FALSE]}

MCInitialMemory ==
    [cell |-> [x \in Mapped |-> IF x = 0 THEN 1 ELSE Unset],
     present |-> {0},
     dataEnd |-> 6]

MCPayloads == {<<>>, <<1>>, <<0, 1>>}
MCAlignments == {1, 2}
=============================================================================
