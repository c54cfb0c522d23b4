--------------------------- MODULE MCDirScrub ---------------------------
(* Volumes with three clusters of two records each.                        *)
EXTENDS DirScrub

Fat(links) == [c \in Cluster |-> IF c \in DOMAIN links THEN links[c] ELSE 0]

Volume(format, dir, chained, links) ==
    [format |-> format, dir |-> dir, chained |-> chained, fat |-> Fat(links)]

\* A FAT directory of two clusters, with somebody else's cluster between them, and one
\* of a single cluster; the root of FAT12/16, which is no chain and has cluster 2 for a
\* neighbour, in the sectors as well as in the block of the cache; exFAT directories of
\* one cluster, chained, and contiguous with a link left over from a chain that was there
\* before.
AllVolumes ==
    { Volume("fat", <<2, 4>>, TRUE, 2 :> 4),
      Volume("fat", <<3>>, TRUE, <<>>),
      Volume("fat", <<>>, TRUE, <<>>),
      Volume("exfat", <<2>>, TRUE, <<>>),
      Volume("exfat", <<3>>, FALSE, 3 :> 4) }

AllMarks == {"live", "deleted", "blank", "residue"}
==========================================================================
