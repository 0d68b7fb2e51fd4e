--------------------------- MODULE MCScanPipeline ---------------------------
(* ScanPipeline for TLC.  One step of Fisher-Yates only uses a draw modulo *)
(* the number of positions left, so these are all generator streams for    *)
(* three sources.                                                          *)
EXTENDS ScanPipeline

AllStreams == (0..2) \X (0..1)

Disks == [Paths -> {"small", "big"}]

Big(these) == [f \in Paths |-> IF f \in these THEN "big" ELSE "small"]

(* The whole tree, at any sizes, while nobody changes it; and any target   *)
(* while somebody does.                                                    *)
MCScans ==
  [target : {Tree}, disk : Disks, edits : {0}]
  \union [target : Paths, disk : {Big({}), Big(Paths)}, edits : {2}]
  \union [target : {Tree}, disk : {Big({5, 8})}, edits : {1}]

=============================================================================
