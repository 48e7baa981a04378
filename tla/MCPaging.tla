------------------------------- MODULE MCPaging -------------------------------
(* Tables of three entries: 81 pages of address space, of which the last    *)
(* nine are the image and the nine before them the window.                  *)
EXTENDS Paging
Requests == {2, 3, 8}
AnyLimit == 1 .. 38
=============================================================================
