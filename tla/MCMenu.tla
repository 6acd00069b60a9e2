------------------------------- MODULE MCMenu --------------------------------
(* Three cards: "a", without a partition table and with six images among      *)
(* other entries, over a chain of two clusters of two sectors; "b",           *)
(* partitioned, with no image but one behind the end of its directory; "c"    *)
(* with no file system at all.                                                *)
EXTENDS Menu

Name(body, ext) == PadTo(body, 8) \o PadTo(ext, 3)
F_D_D == <<70, 68, 68>>
File(n, ext) == [name |-> Name(n, ext), attr |-> {}, clust |-> 9]
Image(k) == File(<<65 + k>>, F_D_D)
Long == File(<<5, 50, 51, 52, 53, 54, 55, 56>>, F_D_D)
Label == [name |-> VECTOR06, attr |-> {"VOL"}, clust |-> 0]
HomeDir(c) == [name |-> VECTOR06, attr |-> {"DIR"}, clust |-> c]
Dots == [name |-> Name(<<DOT>>, <<>>), attr |-> {"DIR"}, clust |-> 2]
Sub == [name |-> Name(<<83>>, F_D_D), attr |-> {"DIR"}, clust |-> 7]
Gone == [name |-> <<229>> \o Tail(Image(1).name), attr |-> {}, clust |-> 9]
End == [name |-> [k \in 1..11 |-> 0], attr |-> {}, clust |-> 0]
Full(n) == File([k \in 1..8 |-> 48 + n], F_D_D)

Boot(s, n) == [sig |-> TRUE, fat |-> TRUE, part |-> 0,
  bpb |-> [BytsPerSec |-> 512, SecPerClus |-> s, RsvdSecCnt |-> 1, NumFATs |-> 2,
           RootEntCnt |-> 8, TotSec |-> n, FATSz |-> 1]]
\* The other sectors of a volume: nothing that is read.
Disks ==
  [a |-> 0 :> Boot(2, 13) @@ 3 :> <<Label, Gone, File(<<86>>, <<>>), Sub>>
         @@ 4 :> <<HomeDir(4), End, End, End>>
         @@ 9 :> <<Dots, Dots, Image(0), Gone>> @@ 10 :> <<Image(1), Sub, Full(1), File(<<88>>, F_D_D)>>
         @@ 5 :> <<File(<<89>>, <<84, 88, 84>>), Image(2), Full(2), End>> @@ 6 :> <<Image(9), End, End, End>>,
   b |-> 0 :> [sig |-> TRUE, fat |-> FALSE, part |-> 2, bpb |-> 0]
         @@ 2 :> Boot(1, 8) @@ 5 :> <<HomeDir(2), Gone, Gone, Gone>> @@ 6 :> <<Gone, Gone, Gone, Gone>>
         @@ 7 :> <<Dots, Dots, End, Full(3)>>,
   c |-> 0 :> [sig |-> TRUE, fat |-> FALSE, part |-> 0, bpb |-> 0]]
Homes == [a |-> <<4, 2>>, b |-> <<2>>, c |-> <<>>]
Links == [a |-> 2 :> 65535 @@ 4 :> 2, b |-> 2 :> 65535, c |-> <<>>]

Title14 == <<32, 32, 32, 86, 69, 67, 84, 79, 82, 45, 48, 54>>
Title15 == <<71, 65, 32, 82, 69, 80, 76, 73, 67, 65, 32, 32>>
Titles == 14 :> Title14 @@ 15 :> Title15

\* Enough to choose HOLD, RESET, DISK and ABOUT and to move through the list.
Sticks == {{}, {"FIRE"}, {"DN"}, {"DN", "RT"}, {"LT", "FIRE"}, {"DN", "FIRE"}, {"UP", "FIRE"}}
=============================================================================
