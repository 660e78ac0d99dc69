--------------------------- MODULE MCToolExecutor ---------------------------
EXTENDS ToolExecutor

Read(files) == [all |-> FALSE, writes |-> FALSE, covers |-> files]
Write(files) == [all |-> FALSE, writes |-> TRUE, covers |-> files]
Everything == [all |-> TRUE, writes |-> TRUE, covers |-> {}]

\* Two files of a tree written, the whole tree read, and everything.
MCPaths == {"a", "b"}
MCAccessLists == {{Write({"a"})}, {Read({"a", "b"})}, {Write({"b"})}, {Everything}}
=============================================================================
