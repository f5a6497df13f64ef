--------------------------- MODULE MCUnvmeMapping ---------------------------
(* Pages of 4 to 16 bytes with PRP entries of 2, every block size up to the  *)
(* page and MDTS from none to 8 pages; fields of 5 bits, so that the largest *)
(* pages with small blocks wrap as 16 KiB pages with 512-byte blocks do in   *)
(* the code.  I/Os of up to 20 blocks take up to 10 commands on a queue with *)
(* room for two.                                                             *)
EXTENDS UnvmeMapping
MCGeometries ==
    {g \in [pageshift : 2 .. 4, blockshift : 1 .. 4, mdts : 0 .. 3] :
        g.blockshift <= g.pageshift}
MCBufs == {-4, 0, 4, 16, 1024}
=============================================================================
