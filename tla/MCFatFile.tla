----------------------------- MODULE MCFatFile ------------------------------
(* Two cards: a fragmented FAT12 volume with clusters of one sector, and a   *)
(* FAT16 volume with clusters of four that lacks the second image.  Image 0  *)
(* of the first card does not end with a sector.                             *)
EXTENDS FatFile, TLC

Volumes == [a |-> [fs_type |-> 12, fatbase |-> 1, dirbase |-> 5, database |-> 6,
                   sects_clust |-> 1, max_clust |-> 9],
            b |-> [fs_type |-> 16, fatbase |-> 1, dirbase |-> 5, database |-> 6,
                   sects_clust |-> 4, max_clust |-> 5]]
Chains == [a |-> (0 :> <<4, 5, 6, 3>> @@ 1 :> <<8, 7>>),
           b |-> (0 :> <<4, 3>> @@ 1 :> <<>>)]
Sizes  == [a |-> (0 :> 14 @@ 1 :> 8), b |-> (0 :> 24 @@ 1 :> 0)]
Dir == 2

\* The link of cluster x of card c, and byte n of its FAT.
Links(c) == {Chains[c][f] : f \in Files} \cup {<<Dir>>}
Link(c, x) ==
  IF \E q \in Links(c) : \E i \in DOMAIN q : q[i] = x
  THEN LET q == CHOOSE q \in Links(c) : \E i \in DOMAIN q : q[i] = x
           i == CHOOSE i \in DOMAIN q : q[i] = x
       IN IF i = Len(q) THEN 65535 ELSE q[i + 1]
  ELSE 0
Nibble(c, n) == ((Link(c, n \div 3) % 4096) \div (CASE n % 3 = 0 -> 1 [] n % 3 = 1 -> 16
                                                   [] OTHER -> 256)) % 16
FatByte(c, n) ==
  IF Volumes[c].fs_type = 12 THEN Nibble(c, 2 * n) + 16 * Nibble(c, 2 * n + 1)
  ELSE IF n % 2 = 0 THEN Link(c, n \div 2) % 256 ELSE Link(c, n \div 2) \div 256

Sector(c, s) ==
  LET v == Volumes[c]
  IN [j \in 0..(SS - 1) |->
       IF s = 0 THEN 255
       ELSE IF s < v.dirbase THEN FatByte(c, (s - v.fatbase) * SS + j)
       ELSE IF s = v.dirbase THEN IF j = 0 THEN Dir ELSE 0
       ELSE IF s = v.database
       THEN LET f == j \div 2
            IN IF f \notin Files \/ Chains[c][f] = <<>> THEN 0
               ELSE IF j % 2 = 0 THEN Chains[c][f][1] ELSE Sizes[c][f]
       ELSE ((IF c = "a" THEN 1 ELSE 65) + SS * (s - v.database) + j) % 200]
Sectors(c) == 0..(Volumes[c].database + (Volumes[c].max_clust - 2) * Volumes[c].sects_clust - 1)
Image == [c \in Cards |-> [s \in Sectors(c) |-> Sector(c, s)]]
=============================================================================
