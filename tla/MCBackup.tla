------------------------------- MODULE MCBackup -------------------------------
(* Two backups at a time, without end, beside requests that write or delete *)
(* a JSON file and an index file.                                            *)
EXTENDS Backup, TLC
CONSTANTS b1, b2, w1, d, g, reg, v1, v2, v3, v4, v5

MCRuns    == {b1, b2}
MCWriters == {w1}
MCDocs    == {d}
MCGobs    == {g}
MCVersions == <<v1, v2, v3, v4, v5>>
MCWalk    == <<w1, g, reg, d>>
=============================================================================
