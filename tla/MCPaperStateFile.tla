-------------------------- MODULE MCPaperStateFile --------------------------
(***************************************************************************)
(* Instances of PaperStateFile for TLC.                                    *)
(***************************************************************************)
EXTENDS PaperStateFile, TLC

CONSTANTS S1, S2, K1, K2, I1, I2, I3   \* sessions, candidates, inodes

\* Sound for safety: nothing tells one session, candidate or inode from another.
FileSymmetry ==
  Permutations({S1, S2}) \cup Permutations({K1, K2}) \cup Permutations({I1, I2, I3})

=============================================================================
