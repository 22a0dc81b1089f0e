------------------------------ MODULE MCExecutor ------------------------------
(***************************************************************************)
(* Small instances of Executor.  The candidates:                           *)
(*   pack  a film with extras, two files to hardlink, hash known           *)
(*   solo  an old single-file candidate, no hash, no candidate_file rows,  *)
(*         whose only file goes where one of pack's would                  *)
(*   side  a torrent_to_client candidate for the same torrent as pack      *)
(*   bare  as solo, and without a download link                            *)
(***************************************************************************)
EXTENDS Executor, TLC

CONSTANTS pack, solo, side, bare, h1, h2, p1, p2

MCHash == [r \in Reviews |-> IF r \in {pack, side} THEN h1 ELSE h2]

MCTargets == [r \in Reviews |->
                 CASE r = pack -> {p1, p2} [] r = side -> {} [] OTHER -> {p2}]

Symmetry == Permutations(Threads)
=============================================================================
