------------------------- MODULE MCSourceSelection -------------------------
(***************************************************************************)
(* SourceSelection and Category on every repository of at most MaxEntries  *)
(* entries.  A file has 0 to 3 bytes: under caps of 2 and 3 it is empty,   *)
(* small, as large as may be, or too large, and the budget ends between    *)
(* two files.  The files with something to say are small, and stand for    *)
(* the harmless small ones too.                                            *)
(***************************************************************************)
EXTENDS Category

CONSTANT MaxEntries

Plain(kind, size, finding) ==
  [kind |-> kind, size |-> size, finding |-> finding, role |-> "plain", says |-> {}]

Telling(kind, role, says) ==
  [kind |-> kind, size |-> 1, finding |-> FALSE, role |-> role, says |-> says]

Entries ==
  {Plain(k, n, FALSE) : k \in {"priority", "source"}, n \in {0, 2, 3}} \union
  {Plain(k, n, TRUE) : k \in {"priority", "source"}, n \in {1, 3}} \union
  {Plain(k, 1, TRUE) : k \in {"other", "directory"}} \union
  {Telling("priority", "manifest", {"mcp", "tool"}), Telling("priority", "plain", {"mcp", "ollama"}),
   Telling("priority", "manifest", {"ollama"}), Telling("source", "plain", {"agent"}),
   Telling("source", "plain", {"agent", "tool"}), Telling("other", "AGENTS.md", {"agent", "tool"})}

MCTrees == UNION {[1 .. n -> Entries] : n \in 0 .. MaxEntries}
=============================================================================
