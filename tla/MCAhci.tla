------------------------------- MODULE MCAhci -------------------------------
(* Buffers of pages that are contiguous in pairs, and contiguous.          *)
EXTENDS Ahci

MCBuffers == {<<0, 1, 2, 3, 4, 5, 6>>, <<6, 7, 0, 1, 4, 5, 8>>}
=============================================================================
