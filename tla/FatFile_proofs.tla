--------------------------- MODULE FatFile_proofs ---------------------------
(***************************************************************************)
(* The window is never stale, f_lseek and f_read_or_wr agree on where they *)
(* are, and what was reported done was done: for every card formatted as   *)
(* VolumeAssumption, DirectoryAssumption and ChainAssumption say, and any  *)
(* number of requests, faults and exchanges of the card.                   *)
(***************************************************************************)
EXTENDS FatFile, SequenceTheorems, WellFoundedInduction, TLAPS

\* The card and the file that are served.
Card == opened[1]
File == opened[2]
Serving == {"serve", "seek", "arrive", "read", "transfer", "report"}

\* Sectors of a cluster, and sector k of a file.
Spc(c) == Volume[c].sects_clust
FileSector(c, f, k) == ClusterSector(c, Chain[c][f][k \div Spc(c) + 1]) + (k % Spc(c))
\* The sectors that hold nothing but this file.
WholeSectors(c, f) == {FileSector(c, f, k) : k \in {j \in Nat : (j + 1) * SS <= Size[c][f]}}

\* Every variable has its type.
CardTyped ==
  /\ socket \in Cards \cup {"none"} /\ ready \in BOOLEAN
  /\ ready => socket \in Cards
  /\ medium = [c \in Cards |-> medium[c]]
  /\ \A c \in Cards : medium[c] \in [DOMAIN Contents[c] -> [Offsets -> Byte]]
FsTyped ==
  /\ STA_NOINIT \in BOOLEAN
  /\ fs \in [id : 0..(ID_MOD - 1), winsect : Nat, vol : {Volume[c] : c \in Cards} \cup {NoVolume}]
  /\ fsid \in 0..(ID_MOD - 1)
  /\ win \in [Offsets -> Byte]
SelTyped == first \in {0, 1} /\ imagefile \in Files \cup {-1}
FileTyped ==
  /\ file1 \in [id : 0..(ID_MOD - 1), error : BOOLEAN, fptr : Nat, fsize : Nat, org_clust : Nat,
                curr_clust : Nat, curr_sect : Int, sect_clust : Byte]
  /\ file1.fptr <= file1.fsize
ReqTyped ==
  /\ req \in [wr : BOOLEAN, blk : Nat] /\ clust \in Nat /\ ofs \in Nat
  /\ btr \in 0..BLOCK /\ br \in 0..BLOCK
  /\ buf \in [0..(BLOCK - 1) -> Byte] /\ before \in [0..(BLOCK - 1) -> Byte]
  /\ result \in {"OK", "RW_ERROR", "INVALID"} /\ requests \in Nat
FatTyped == CardTyped /\ FsTyped /\ SelTyped /\ FileTyped /\ ReqTyped

\* What is not a file's data is as it was formatted.
MetaKept == \A c \in Cards : \A s \in Meta(c) : medium[c][s] = Contents[c][s]

\* The volume is card c's, and so is what the window says it holds.
On(c) ==
  /\ fs.vol = Volume[c] /\ (ready => socket = c)
  /\ fs.winsect # 0 => fs.winsect \in DOMAIN Contents[c] /\ win = medium[c][fs.winsect]

MountInv ==
  /\ \/ fs.vol = NoVolume /\ fs.winsect = 0
     \/ \E c \in Cards : On(c)
  /\ pc \in {"nextfile", "open"} => fs.vol # NoVolume
  /\ pc = "nextfile" => first = 0

\* The file object is for a file of the card, and the window holds no sector that
\* may be written past it.
Serves(c, f) ==
  /\ opened = <<c, f>> /\ Chain[c][f] # <<>>
  /\ On(c) /\ fs.winsect \notin WholeSectors(c, f)
  /\ file1.org_clust = Chain[c][f][1] /\ file1.fsize = Size[c][f]
ServeInv == pc \in Serving => \E c \in Cards, f \in Files : Serves(c, f)

Target == Clip(req.blk * BLOCK)

\* f_lseek is at the head of the cluster it follows.
SeekInv ==
  /\ pc # "arrive"
  /\ pc = "seek" =>
       /\ ofs > 0 /\ file1.fptr + ofs = Target /\ file1.curr_clust = clust
       /\ \E i \in 1..Len(Chain[Card][File]) :
            file1.fptr = (i - 1) * csize /\ clust = Chain[Card][File][i]

\* Sector h of file f is the one the file object is in.
AtSector(c, f, h) ==
  /\ file1.curr_sect = FileSector(c, f, h)
  /\ file1.curr_clust = Chain[c][f][h \div Spc(c) + 1]
  /\ file1.sect_clust = Spc(c) - (h % Spc(c))

Positioned ==
  pc \in {"read", "transfer"} =>
    IF file1.fptr = 0 THEN file1.sect_clust = 1
    ELSE AtSector(Card, File, (file1.fptr - 1) \div SS)

\* How much is to be moved.
Share == Min({BLOCK, file1.fsize - Target})

CountInv ==
  /\ pc = "read" => file1.fptr = Target
  /\ pc = "transfer" =>
       /\ result = "OK"
       /\ file1.fptr = Target + br /\ br + btr = Share
       /\ btr > 0 => br % SS = 0

\* The first n bytes asked for are those of the file; or are on the card, but
\* for the odd ones at the end of the file.
ReadUpTo(n) ==
  \A i \in 0..(BLOCK - 1) :
    buf[i] = IF i < n THEN medium[Card][At(i)[1]][At(i)[2]] ELSE before[i]
WrittenUpTo(n) ==
  \A i \in 0..(BLOCK - 1) :
    i < n /\ (req.blk * BLOCK + i) < (file1.fsize \div SS) * SS =>
      medium[Card][At(i)[1]][At(i)[2]] = before[i]

DataInv ==
  /\ pc \in {"seek", "read"} => buf = before
  /\ pc = "transfer" =>
       IF req.wr THEN WrittenUpTo(br) /\ (btr > 0 => buf = before)
       ELSE ReadUpTo(br)
  /\ pc = "report" /\ result = "OK" =>
       IF req.wr THEN WrittenUpTo(Share) ELSE ReadUpTo(Share)

FatInv ==
  /\ FatTyped /\ MetaKept /\ MountInv /\ ServeInv
  /\ SeekInv /\ Positioned /\ CountInv /\ DataInv

-----------------------------------------------------------------------------
(* Division. *)

LEMMA DivMod ==
  ASSUME NEW S \in Nat \ {0}, NEW a \in Nat
  PROVE  a \div S \in Nat /\ a % S \in 0..(S - 1) /\ a = (a \div S) * S + (a % S)
<1>1. a = S * (a \div S) + (a % S) /\ a % S \in 0..(S - 1) /\ a \div S \in Int
  BY SMT
<1>2. a \div S >= 0
  BY <1>1, SMT
<1>3. S * (a \div S) = (a \div S) * S
  BY <1>1, SMT
<1> QED BY <1>1, <1>2, <1>3, SMT

LEMMA MulGe ==
  ASSUME NEW S \in Nat, NEW x \in Int, x >= 1
  PROVE  x * S >= S /\ x * S \in Int
<1>1. PICK y \in Nat : x = y + 1
  BY SMT
<1>2. x * S = y * S + S
  BY <1>1, SMT
<1>3. y * S >= 0 /\ y * S \in Int
  BY SMT
<1> QED BY <1>2, <1>3, SMT

LEMMA DivIs ==
  ASSUME NEW S \in Nat \ {0}, NEW q \in Nat, NEW r \in 0..(S - 1)
  PROVE  (q * S + r) \div S = q /\ (q * S + r) % S = r /\ q * S + r \in Nat
<1> DEFINE a == q * S + r
           d == a \div S
           m == a % S
<1>0. a \in Nat
  BY SMT
<1>1. d \in Nat /\ m \in 0..(S - 1) /\ a = d * S + m
  BY <1>0, DivMod
<1>2. a = q * S + r
  OBVIOUS
<1> HIDE DEF a, d, m
<1>3. (q - d) * S = m - r
  BY <1>1, <1>2, SMT
<1>4. (d - q) * S = r - m
  BY <1>1, <1>2, SMT
<1>5. ~(q - d >= 1)
  BY <1>1, <1>3, MulGe, SMT
<1>6. ~(d - q >= 1)
  BY <1>1, <1>4, MulGe, SMT
<1>7. d = q
  BY <1>1, <1>5, <1>6, SMT
<1>8. m = r
  BY <1>1, <1>2, <1>7, SMT
<1> QED BY <1>0, <1>7, <1>8 DEF a, d, m

\* Along a row, and from its end to the next.
LEMMA Along ==
  ASSUME NEW S \in Nat \ {0}, NEW a \in Nat, NEW m \in Nat, (a % S) + m < S
  PROVE  (a + m) \div S = a \div S /\ (a + m) % S = (a % S) + m
<1> DEFINE q == a \div S
           r == a % S
<1>1. q \in Nat /\ r \in 0..(S - 1) /\ a = q * S + r
  BY DivMod
<1>2. r + m < S
  OBVIOUS
<1> HIDE DEF q, r
<1>3. r + m \in 0..(S - 1)
  BY <1>1, <1>2, SMT
<1>4. (q * S + (r + m)) \div S = q /\ (q * S + (r + m)) % S = r + m
  BY <1>1, <1>3, DivIs
<1>5. q * S \in Int
  BY <1>1, SMT
<1>6. a + m = q * S + (r + m)
  BY <1>1, <1>5, SMT
<1>7. (a + m) \div S = q /\ (a + m) % S = r + m
  BY <1>4, <1>6
<1> QED BY <1>7 DEF q, r

LEMMA NextRow ==
  ASSUME NEW S \in Nat \ {0}, NEW a \in Nat, a % S = S - 1
  PROVE  (a + 1) \div S = (a \div S) + 1 /\ (a + 1) % S = 0
<1> DEFINE q == a \div S
<1>1. q \in Nat /\ a = q * S + (S - 1)
  BY DivMod
<1> HIDE DEF q
<1>2. a + 1 = (q + 1) * S + 0
  BY <1>1, SMT
<1>3. ((q + 1) * S + 0) \div S = q + 1 /\ ((q + 1) * S + 0) % S = 0
  BY <1>1, DivIs
<1>4. (a + 1) \div S = q + 1 /\ (a + 1) % S = 0
  BY <1>2, <1>3
<1> QED BY <1>4 DEF q

\* Rows before the q-th, and the q-th itself.
LEMMA MulMono ==
  ASSUME NEW S \in Nat, NEW x \in Nat, NEW y \in Nat, x <= y
  PROVE  x * S <= y * S /\ x * S \in Nat /\ y * S \in Nat
<1>1. (y - x) * S >= 0 /\ (y - x) * S = y * S - x * S
  BY SMT
<1> QED BY <1>1, SMT

LEMMA RowOf ==
  ASSUME NEW S \in Nat \ {0}, NEW a \in Nat, NEW q \in Nat
  PROVE  /\ a < q * S => a \div S < q
         /\ a >= q * S => a \div S >= q
<1> DEFINE d == a \div S
           m == a % S
<1>1. d \in Nat /\ m \in 0..(S - 1) /\ a = d * S + m
  BY DivMod
<1> HIDE DEF d, m
<1>2. d * S \in Nat /\ q * S \in Nat
  BY <1>1, SMT
<1>3. d >= q => d * S >= q * S
  BY <1>1, MulMono
<1>4. CASE d < q
  <2>1. (d + 1) * S <= q * S
    BY <1>1, <1>4, MulMono, SMT
  <2>2. (d + 1) * S = d * S + S
    BY <1>1, SMT
  <2>3. a < q * S
    BY <1>1, <1>2, <2>1, <2>2, SMT
  <2> QED BY <1>1, <1>2, <1>4, <2>3, SMT DEF d
<1>5. CASE d >= q
  <2>1. a >= q * S
    BY <1>1, <1>2, <1>3, <1>5, SMT
  <2> QED BY <1>1, <1>2, <1>5, <2>1, SMT DEF d
<1> QED BY <1>1, <1>4, <1>5, SMT

\* Multiples add up, and what is added to one is left over.
LEMMA AtMultiple ==
  ASSUME NEW S \in Nat \ {0}, NEW a \in Nat, NEW i \in Nat, a % S = 0
  PROVE  (a + i) \div S = (a \div S) + (i \div S) /\ (a + i) % S = i % S
<1> DEFINE q == a \div S
           d == i \div S
           m == i % S
<1>1. q \in Nat /\ a = q * S + 0
  BY DivMod
<1>2. d \in Nat /\ m \in 0..(S - 1) /\ i = d * S + m
  BY DivMod
<1> HIDE DEF q, d, m
<1>3. a + i = (q + d) * S + m
  BY <1>1, <1>2, SMT
<1>4. ((q + d) * S + m) \div S = q + d /\ ((q + d) * S + m) % S = m
  BY <1>1, <1>2, DivIs
<1>5. (a + i) \div S = q + d /\ (a + i) % S = m
  BY <1>3, <1>4
<1> QED BY <1>5 DEF q, d, m

LEMMA MultipleOf ==
  ASSUME NEW S \in Nat \ {0}, NEW n \in Nat
  PROVE  (n * S) % S = 0 /\ (n * S) \div S = n /\ n * S \in Nat
<1>1. (n * S + 0) \div S = n /\ (n * S + 0) % S = 0 /\ n * S + 0 \in Nat
  BY DivIs
<1>2. n * S + 0 = n * S
  BY SMT
<1> QED BY <1>1, <1>2

\* n rows of S are a row.
Nests(S, n, p) ==
  /\ p \div (n * S) = (p \div S) \div n
  /\ (p % (n * S)) \div S = (p \div S) % n

LEMMA RowsOfRows ==
  ASSUME NEW S \in Nat \ {0}, NEW n \in Nat \ {0}, NEW p \in Nat
  PROVE  Nests(S, n, p)
<1> DEFINE k == p \div S
           r == p % S
           q == k \div n
           t == k % n
<1>1. k \in Nat /\ r \in 0..(S - 1) /\ p = k * S + r
  BY DivMod
<1>2. q \in Nat /\ t \in 0..(n - 1) /\ k = q * n + t
  BY <1>1, DivMod
<1> HIDE DEF k, r, q, t
<1>3. n * S \in Nat /\ n * S >= S /\ n * S # 0
  BY MulGe, SMT
<1>4. (t + 1) * S <= n * S
  BY <1>2, MulMono, SMT
<1>5. (t + 1) * S = t * S + S /\ t * S \in Nat
  BY <1>2, SMT
<1>6. t * S + r \in 0..((n * S) - 1)
  BY <1>1, <1>3, <1>4, <1>5, SMT
<1>7. q * (n * S) = (q * n) * S
  BY <1>2, SMT
<1>8. p = q * (n * S) + (t * S + r)
  <2>1. k * S = (q * n) * S + t * S
    BY <1>2, SMT
  <2> DEFINE A == (q * n) * S
             B == t * S
  <2>2. A \in Int /\ B \in Int
    BY <1>2, SMT
  <2> HIDE DEF A, B
  <2>3. p = A + (B + r)
    BY <1>1, <2>1, <2>2, SMT DEF A, B
  <2> QED BY <1>7, <2>3 DEF A, B
<1>9. p \div (n * S) = q /\ p % (n * S) = t * S + r
  BY <1>2, <1>3, <1>6, <1>8, DivIs
<1>10. (t * S + r) \div S = t
  BY <1>1, <1>2, DivIs
<1> QED BY <1>9, <1>10 DEF Nests, k, q, t

-----------------------------------------------------------------------------
(* Where the sectors of a file are. *)

LEMMA Sizes ==
  /\ SS \in Nat \ {0} /\ BLOCK \in Nat \ {0} /\ BLOCK % SS = 0
  /\ \A c \in Cards :
       /\ Spc(c) \in 1..128
       /\ Volume[c].fatbase \in Nat \ {0} /\ Volume[c].dirbase \in Nat \ {0}
       /\ Volume[c].database \in Nat \ {0} /\ Volume[c].max_clust \in Nat \ {0}
       /\ Volume[c].fs_type \in {12, 16}
  BY SectorAssumption, VolumeAssumption DEF Spc

LEMMA Chained ==
  ASSUME NEW c \in Cards, NEW f \in Files
  PROVE  /\ Len(Chain[c][f]) \in Nat /\ Size[c][f] \in Nat
         /\ \A i \in 1..Len(Chain[c][f]) : Chain[c][f][i] \in 2..(Volume[c].max_clust - 1)
         /\ Size[c][f] <= Len(Chain[c][f]) * (Spc(c) * SS)
<1>1. /\ Chain[c][f] \in Seq(2..(Volume[c].max_clust - 1)) /\ Size[c][f] \in Nat
      /\ Len(Chain[c][f]) * (Volume[c].sects_clust * SS) >= Size[c][f]
  BY ChainAssumption
<1>2. Len(Chain[c][f]) \in Nat
  BY <1>1
<1>3. \A i \in 1..Len(Chain[c][f]) : Chain[c][f][i] \in 2..(Volume[c].max_clust - 1)
  BY <1>1, ElementOfSeq
<1>4. Len(Chain[c][f]) * (Spc(c) * SS) \in Int
  <2>1. Spc(c) \in Int /\ SS \in Int
    BY Sizes, SMT
  <2>2. Spc(c) * SS \in Int
    BY <2>1, SMT
  <2> QED BY <1>2, <2>2, SMT
<1> QED BY <1>1, <1>2, <1>3, <1>4, SMT DEF Spc

LEMMA PlaceIs ==
  ASSUME NEW c \in Cards, NEW f \in Files, NEW p \in Nat
  PROVE  Place(c, f, p) = <<FileSector(c, f, p \div SS), p % SS>>
<1>1. Spc(c) \in Nat \ {0} /\ SS \in Nat \ {0}
  BY Sizes, SMT
<1>2. p \div (Spc(c) * SS) = (p \div SS) \div Spc(c) /\ (p % (Spc(c) * SS)) \div SS = (p \div SS) % Spc(c)
  <2>1. Nests(SS, Spc(c), p)
    BY <1>1, RowsOfRows
  <2> QED BY <2>1 DEF Nests
<1> QED BY <1>2 DEF Place, FileSector, Spc

\* Sector k of file f is in cluster k \div Spc(c) of its chain.
Within(c, f, k) == k \in Nat /\ k < Len(Chain[c][f]) * Spc(c)

LEMMA ClusterOf ==
  ASSUME NEW c \in Cards, NEW f \in Files, NEW k, Within(c, f, k)
  PROVE  /\ (k \div Spc(c)) + 1 \in 1..Len(Chain[c][f])
         /\ Chain[c][f][(k \div Spc(c)) + 1] \in 2..(Volume[c].max_clust - 1)
         /\ k % Spc(c) \in 0..(Spc(c) - 1)
<1>0. Len(Chain[c][f]) \in Nat
  BY Chained
<1>1. Spc(c) \in Nat \ {0} /\ k \in Nat /\ Len(Chain[c][f]) \in Nat
  <2>1. Spc(c) \in 1..128
    BY Sizes
  <2>2. k \in Nat
    BY DEF Within
  <2>3. Spc(c) \in Nat \ {0}
    BY <2>1, SMT
  <2> QED BY <1>0, <2>2, <2>3
<1>2. k \div Spc(c) < Len(Chain[c][f]) /\ k \div Spc(c) \in Nat /\ k % Spc(c) \in 0..(Spc(c) - 1)
  BY <1>1, RowOf, DivMod DEF Within
<1>3. (k \div Spc(c)) + 1 \in 1..Len(Chain[c][f])
  BY <1>1, <1>2, SMT
<1> QED BY <1>2, <1>3, Chained

LEMMA SectorType ==
  ASSUME NEW c \in Cards, NEW f \in Files, NEW k, Within(c, f, k)
  PROVE  FileSector(c, f, k) \in Nat \ {0}
<1> DEFINE x == Chain[c][f][(k \div Spc(c)) + 1]
           t == k % Spc(c)
<1>1. x \in 2..(Volume[c].max_clust - 1) /\ t \in 0..(Spc(c) - 1)
  BY ClusterOf
<1>2. Spc(c) \in Nat \ {0} /\ Volume[c].database \in Nat \ {0} /\ Volume[c].max_clust \in Nat
  BY Sizes, SMT
<1>3. FileSector(c, f, k) = (((x - 2) * Spc(c)) + Volume[c].database) + t
  BY DEF FileSector, ClusterSector, Spc
<1> HIDE DEF x, t
<1> DEFINE A == (x - 2) * Spc(c)
<1>4. A \in Nat
  BY <1>1, <1>2, SMT
<1>5. FileSector(c, f, k) = (A + Volume[c].database) + t
  BY <1>3
<1> HIDE DEF A
<1> QED BY <1>1, <1>2, <1>4, <1>5, SMT

\* No two are the same.
LEMMA OneSector ==
  ASSUME NEW c \in Cards, NEW f \in Files, NEW g \in Files, NEW k, NEW l,
         Within(c, f, k), Within(c, g, l), FileSector(c, f, k) = FileSector(c, g, l)
  PROVE  f = g /\ k = l
<1> DEFINE i == (k \div Spc(c)) + 1
           j == (l \div Spc(c)) + 1
           x == Chain[c][f][i]
           y == Chain[c][g][j]
           t == k % Spc(c)
           u == l % Spc(c)
<1>1. /\ x \in 2..(Volume[c].max_clust - 1) /\ t \in 0..(Spc(c) - 1) /\ i \in 1..Len(Chain[c][f])
      /\ y \in 2..(Volume[c].max_clust - 1) /\ u \in 0..(Spc(c) - 1) /\ j \in 1..Len(Chain[c][g])
  BY ClusterOf
<1>2. Spc(c) \in Nat \ {0} /\ Volume[c].database \in Nat \ {0} /\ Volume[c].max_clust \in Nat
  BY Sizes, SMT
<1>3. /\ FileSector(c, f, k) = (((x - 2) * Spc(c)) + Volume[c].database) + t
      /\ FileSector(c, g, l) = (((y - 2) * Spc(c)) + Volume[c].database) + u
  BY DEF FileSector, ClusterSector, Spc
<1>4. /\ Len(Chain[c][f]) \in Nat /\ Len(Chain[c][g]) \in Nat /\ k \in Nat /\ l \in Nat
      /\ k = (k \div Spc(c)) * Spc(c) + t /\ l = (l \div Spc(c)) * Spc(c) + u
      /\ k \div Spc(c) \in Nat /\ l \div Spc(c) \in Nat
  BY <1>2, Chained, DivMod DEF Within
<1> HIDE DEF x, y, t, u
<1>5. x - 2 \in Nat /\ y - 2 \in Nat /\ (x - 2) * Spc(c) \in Nat /\ (y - 2) * Spc(c) \in Nat
  <2> DEFINE M == Volume[c].max_clust
             n == Spc(c)
  <2>1. M \in Nat /\ x \in 2..(M - 1) /\ y \in 2..(M - 1) /\ n \in Nat
    BY <1>1, <1>2
  <2> HIDE DEF M, n
  <2>2. x - 2 \in Nat /\ y - 2 \in Nat
    BY <2>1, SMT
  <2> DEFINE X == x - 2
             Y == y - 2
  <2>3. X \in Nat /\ Y \in Nat
    BY <2>2
  <2> HIDE DEF X, Y
  <2>4. X * n \in Nat /\ Y * n \in Nat
    BY <2>1, <2>3, SMT
  <2> QED BY <2>2, <2>4 DEF X, Y, n
<1>6. ((x - 2) * Spc(c)) + t = ((y - 2) * Spc(c)) + u
  <2> DEFINE A == (x - 2) * Spc(c)
             B == (y - 2) * Spc(c)
  <2>1. A \in Nat /\ B \in Nat
    BY <1>5
  <2>2. (A + Volume[c].database) + t = (B + Volume[c].database) + u
    BY <1>3
  <2> HIDE DEF A, B
  <2>3. A + t = B + u
    <3> DEFINE D == Volume[c].database
    <3>1. D \in Nat /\ t \in Nat /\ u \in Nat /\ (A + D) + t = (B + D) + u
      <4>1. Spc(c) \in Nat /\ t \in 0..(Spc(c) - 1) /\ u \in 0..(Spc(c) - 1) /\ D \in Nat
        BY <1>1, <1>2
      <4> QED BY <2>2, <4>1
    <3> HIDE DEF D
    <3> QED BY <2>1, <3>1, SMT
  <2> QED BY <2>3 DEF A, B
<1>7. /\ (((x - 2) * Spc(c)) + t) \div Spc(c) = x - 2 /\ (((x - 2) * Spc(c)) + t) % Spc(c) = t
      /\ (((y - 2) * Spc(c)) + u) \div Spc(c) = y - 2 /\ (((y - 2) * Spc(c)) + u) % Spc(c) = u
  BY <1>1, <1>2, <1>5, DivIs
<1>8. x - 2 = y - 2 /\ t = u
  BY <1>6, <1>7
<1>9. x = y
  BY <1>1, <1>2, <1>8, SMT
<1>10. i \in DOMAIN Chain[c][f] /\ j \in DOMAIN Chain[c][g]
  <2>1. Chain[c][f] \in Seq(2..(Volume[c].max_clust - 1)) /\ Chain[c][g] \in Seq(2..(Volume[c].max_clust - 1))
    BY ChainAssumption
  <2> HIDE DEF i, j
  <2> QED BY <1>1, <2>1
<1>11. f = g /\ i = j
  <2>1. \A a \in DOMAIN Chain[c][f], b \in DOMAIN Chain[c][g] :
          Chain[c][f][a] = Chain[c][g][b] => f = g /\ a = b
    BY ChainAssumption
  <2> QED BY <1>9, <1>10, <2>1 DEF x, y
<1>12. k \div Spc(c) = l \div Spc(c)
  BY <1>4, <1>11, SMT
<1>13. k = l
  BY <1>4, <1>8, <1>12
<1> QED BY <1>11, <1>13

LEMMA InFile ==
  ASSUME NEW c \in Cards, NEW f \in Files, NEW p \in Nat, p < Size[c][f]
  PROVE  /\ Within(c, f, p \div SS)
         /\ FileSector(c, f, p \div SS) \in DataSectors(c)
         /\ FileSector(c, f, p \div SS) \in DOMAIN Contents[c]
<1> DEFINE L == Len(Chain[c][f])
           n == Spc(c)
           z == Size[c][f]
<1>1. n \in Nat \ {0} /\ SS \in Nat \ {0}
  BY Sizes, SMT
<1>2. L \in Nat /\ z \in Nat /\ z <= L * (n * SS)
  BY Chained
<1>3. p < z
  OBVIOUS
<1> HIDE DEF L, n, z
<1>4. L * (n * SS) = (L * n) * SS /\ L * n \in Nat
  BY <1>1, <1>2, SMT
<1>5. (L * n) * SS \in Int
  BY <1>1, <1>4, SMT
<1>6. p < (L * n) * SS
  BY <1>2, <1>3, <1>4, <1>5, SMT
<1>7. p \div SS \in Nat /\ p \div SS < L * n
  BY <1>1, <1>4, <1>6, RowOf, DivMod
<1>8. Within(c, f, p \div SS)
  BY <1>7 DEF Within, L, n
<1>9. FileSector(c, f, p \div SS) \in DataSectors(c)
  <2>1. p \in 0..(Size[c][f] - 1)
    BY <1>2, <1>3, SMT DEF z
  <2>2. Place(c, f, p)[1] = FileSector(c, f, p \div SS)
    BY PlaceIs
  <2> QED BY <2>1, <2>2 DEF DataSectors
<1>10. DataSectors(c) \subseteq DOMAIN Contents[c]
  BY ChainAssumption
<1> QED BY <1>8, <1>9, <1>10

\* A whole sector of a file.
Whole(c, f, k) == k \in Nat /\ (k + 1) * SS <= Size[c][f]

LEMMA WholeIs ==
  ASSUME NEW c \in Cards, NEW f \in Files, NEW k, Whole(c, f, k)
  PROVE  /\ Within(c, f, k) /\ FileSector(c, f, k) \in WholeSectors(c, f)
         /\ FileSector(c, f, k) \in DataSectors(c) /\ FileSector(c, f, k) \in DOMAIN Contents[c]
<1>1. SS \in Nat \ {0} /\ k \in Nat
  BY Sizes, SMT DEF Whole
<1>2. (k * SS) % SS = 0 /\ (k * SS) \div SS = k /\ k * SS \in Nat
  BY <1>1, MultipleOf
<1>3. (k + 1) * SS = k * SS + SS
  BY <1>1, SMT
<1>4. Size[c][f] \in Nat
  BY Chained
<1>5. k * SS < Size[c][f]
  <2> DEFINE A == k * SS
  <2>1. A \in Nat /\ A + SS <= Size[c][f]
    BY <1>2, <1>3 DEF Whole
  <2> HIDE DEF A
  <2>2. A < Size[c][f]
    BY <1>1, <1>4, <2>1, SMT
  <2> QED BY <2>2 DEF A
<1>6. FileSector(c, f, k) \in WholeSectors(c, f)
  BY DEF Whole, WholeSectors
<1> QED BY <1>2, <1>5, <1>6, InFile

LEMMA WholeSectorsAre ==
  ASSUME NEW c \in Cards, NEW f \in Files, NEW s \in WholeSectors(c, f)
  PROVE  \E k \in Nat : Whole(c, f, k) /\ s = FileSector(c, f, k)
BY DEF Whole, WholeSectors

\* They hold no FAT and no directory.
LEMMA NotMeta ==
  ASSUME NEW c \in Cards, NEW f \in Files
  PROVE  WholeSectors(c, f) \cap Meta(c) = {} /\ WholeSectors(c, f) \subseteq DOMAIN Contents[c]
<1> SUFFICES ASSUME NEW s \in WholeSectors(c, f)
             PROVE  s \notin Meta(c) /\ s \in DOMAIN Contents[c]
  OBVIOUS
<1>1. PICK k \in Nat : Whole(c, f, k) /\ s = FileSector(c, f, k)
  BY WholeSectorsAre
<1>2. s \in DataSectors(c) /\ s \in DOMAIN Contents[c]
  BY <1>1, WholeIs
<1> QED BY <1>2 DEF Meta

-----------------------------------------------------------------------------
(* The window shows card c. *)

Shows(w, c) ==
  /\ w \in [sect : Nat, win : [Offsets -> Byte], left : Nat, ok : BOOLEAN]
  /\ w.sect # 0 => w.sect \in DOMAIN Contents[c] /\ w.win = medium[c][w.sect]
  /\ w.left > 0 => ready /\ socket = c

\* w, after accesses to sectors of T.
Accesses(w, v, T) ==
  /\ v.sect \in T \cup {w.sect}
  /\ v.ok => w.ok
  /\ (v.ok /\ v.sect # w.sect) => ready

LEMMA WindowShows ==
  ASSUME FatTyped, NEW c \in Cards, On(c), NEW k \in Answers
  PROVE  Shows(Window(k), c) /\ Window(k).ok /\ Window(k).sect = fs.winsect
<1>1. k \in Nat /\ (k > 0 => ready)
  BY SMT DEF Answers
<1>2. fs.winsect \in Nat /\ win \in [Offsets -> Byte]
  BY DEF FatTyped, CardTyped, FsTyped
<1>3. ready => socket = c
  BY DEF On
<1>4. fs.winsect # 0 => fs.winsect \in DOMAIN Contents[c] /\ win = medium[c][fs.winsect]
  BY DEF On
<1> QED BY <1>1, <1>2, <1>3, <1>4 DEF Shows, Window

LEMMA MoveShows ==
  ASSUME FatTyped, NEW c \in Cards, NEW w, Shows(w, c), NEW s \in DOMAIN Contents[c]
  PROVE  LET v == move_window(w, s)
         IN /\ Shows(v, c) /\ Accesses(w, v, {s})
            /\ v.ok => v.sect = s /\ (s # 0 => v.win = medium[c][s])
<1> DEFINE v == move_window(w, s)
<1>1. s \in Nat
  BY VolumeAssumption
<1>2. medium[c] \in [DOMAIN Contents[c] -> [Offsets -> Byte]]
  BY DEF FatTyped, CardTyped, FsTyped
<1>3. w \in [sect : Nat, win : [Offsets -> Byte], left : Nat, ok : BOOLEAN]
  BY DEF Shows
<1>4. CASE ~w.ok \/ w.sect = s
  <2>1. v = w
    BY <1>4 DEF move_window
  <2> HIDE DEF v
  <2>2. Shows(v, c)
    BY <2>1
  <2> QED BY <1>4, <2>1, <2>2 DEF Accesses, Shows, v
<1>5. CASE w.ok /\ w.sect # s /\ w.left = 0
  <2>1. v = [w EXCEPT !.ok = FALSE]
    BY <1>5 DEF move_window
  <2> HIDE DEF v
  <2>2. v.sect = w.sect /\ v.win = w.win /\ v.left = w.left /\ v.ok = FALSE
        /\ v \in [sect : Nat, win : [Offsets -> Byte], left : Nat, ok : BOOLEAN]
    BY <1>3, <2>1
  <2>3. Shows(v, c)
    BY <2>2 DEF Shows
  <2> QED BY <2>2, <2>3 DEF Accesses, v
<1>6. CASE w.ok /\ w.sect # s /\ w.left # 0
  <2>1. v = [w EXCEPT !.sect = s, !.win = medium[socket][s], !.left = @ - 1]
    BY <1>6 DEF move_window
  <2>2. w.left > 0 /\ w.left - 1 \in Nat
    BY <1>3, <1>6, SMT
  <2>3. ready /\ socket = c
    BY <2>2 DEF Shows
  <2> HIDE DEF v
  <2>4. medium[c][s] \in [Offsets -> Byte]
    BY <1>2
  <2>5. v.sect = s /\ v.win = medium[c][s] /\ v.left = w.left - 1 /\ v.ok = w.ok
        /\ v \in [sect : Nat, win : [Offsets -> Byte], left : Nat, ok : BOOLEAN]
    BY <1>1, <1>3, <2>1, <2>2, <2>3, <2>4
  <2>6. Shows(v, c)
    BY <2>3, <2>5 DEF Shows
  <2> QED BY <2>3, <2>5, <2>6 DEF Accesses, v
<1> QED BY <1>4, <1>5, <1>6

LEMMA AccessesTo ==
  ASSUME NEW w, NEW v, NEW T, NEW U, Accesses(w, v, T), T \subseteq U
  PROVE  Accesses(w, v, U)
BY DEF Accesses

LEMMA AccessesThen ==
  ASSUME NEW w, NEW v, NEW u, NEW T, Accesses(w, v, T), Accesses(v, u, T), v.ok => v.sect = w.sect \/ ready
  PROVE  Accesses(w, u, T)
BY DEF Accesses

\* A sector that is no file's, read.
LEMMA MetaShows ==
  ASSUME FatTyped, MetaKept, NEW c \in Cards, NEW w, Shows(w, c), NEW s \in Meta(c), s # 0
  PROVE  LET v == move_window(w, s)
         IN /\ Shows(v, c) /\ Accesses(w, v, Meta(c))
            /\ v.ok => v.sect = s /\ v.win = Contents[c][s]
<1>1. s \in DOMAIN Contents[c]
  BY DEF Meta
<1>2. medium[c][s] = Contents[c][s]
  BY DEF MetaKept
<1>3. {s} \subseteq Meta(c)
  OBVIOUS
<1> DEFINE v == move_window(w, s)
<1>4. Shows(v, c) /\ Accesses(w, v, {s}) /\ (v.ok => v.sect = s /\ (s # 0 => v.win = medium[c][s]))
  BY <1>1, MoveShows
<1> HIDE DEF v
<1>5. Accesses(w, v, Meta(c))
  BY <1>3, <1>4, AccessesTo
<1>6. Shows(v, c) /\ Accesses(w, v, Meta(c)) /\ (v.ok => v.sect = s /\ v.win = Contents[c][s])
  BY <1>2, <1>4, <1>5
<1> QED BY <1>6 DEF v

LEMMA AfterFirst ==
  ASSUME NEW c \in Cards, NEW x \in 2..(Volume[c].max_clust - 1)
  PROVE  ClusterSector(c, x) # 0
<1>1. Spc(c) \in Nat \ {0} /\ Volume[c].database \in Nat \ {0} /\ Volume[c].max_clust \in Nat
  BY Sizes, SMT
<1>2. ClusterSector(c, x) = ((x - 2) * Spc(c)) + Volume[c].database
  BY DEF ClusterSector, Spc
<1>3. (x - 2) * Spc(c) \in Nat
  BY <1>1, SMT
<1> QED BY <1>1, <1>2, <1>3, SMT

\* The directory of the images.
Root(c) == Contents[c][Volume[c].dirbase]
DirSector(c) == ClusterSector(c, Root(c)[0])

LEMMA TraceShows ==
  ASSUME FatTyped, MetaKept, NEW c \in Cards, On(c), NEW w, Shows(w, c)
  PROVE  LET v == trace_path(w)
         IN /\ Shows(v, c) /\ Accesses(w, v, Meta(c))
            /\ v.ok => ready /\ v.sect = DirSector(c) /\ v.win = Contents[c][DirSector(c)]
<1> DEFINE d == Volume[c].dirbase
           root == move_window(w, d)
           e == DirSector(c)
           v == move_window(root, e)
<1>1. fs.vol = Volume[c]
  BY DEF On
<1>2. Root(c)[0] \in 2..(Volume[c].max_clust - 1) /\ d \in Meta(c) /\ e \in Meta(c) /\ d # e
  BY DirectoryAssumption DEF Root, DirSector
<1>3. d # 0
  BY Sizes
<1>4. e # 0
  BY <1>2, AfterFirst DEF DirSector
<1>5. Shows(root, c) /\ Accesses(w, root, Meta(c)) /\ (root.ok => root.sect = d /\ root.win = Root(c))
  BY <1>2, <1>3, MetaShows DEF Root
<1>6. Shows(v, c) /\ Accesses(root, v, Meta(c)) /\ (v.ok => v.sect = e /\ v.win = Contents[c][e])
  BY <1>2, <1>4, <1>5, MetaShows
<1>7. CASE root.ok
  <2>1. root.win = Root(c) /\ root.sect = d
    BY <1>5, <1>7
  <2>2. clust2sect(root.win[0]) = e
    BY <1>1, <1>2, <2>1 DEF clust2sect, InUse, DirSector, ClusterSector
  <2>3. trace_path(w) = v
    BY <1>1, <1>7, <2>2 DEF trace_path
  <2>4. root.sect = w.sect \/ ready
    BY <1>5, <1>7 DEF Accesses
  <2> HIDE DEF root, v, e, d
  <2>5. Accesses(w, v, Meta(c))
    BY <1>5, <1>6, <2>4, AccessesThen
  <2>6. v.ok => ready
    BY <1>2, <1>6, <2>1 DEF Accesses
  <2>7. Shows(v, c) /\ (v.ok => ready /\ v.sect = e /\ v.win = Contents[c][e])
    BY <1>6, <2>6
  <2> QED BY <2>3, <2>5, <2>7 DEF e
<1>8. CASE ~root.ok
  <2>1. trace_path(w) = root
    BY <1>1, <1>8 DEF trace_path
  <2> HIDE DEF root, v, e, d
  <2> QED BY <1>5, <1>8, <2>1
<1> QED BY <1>7, <1>8

\* The two names of the link of a cluster: as the card has it, and as
\* get_cluster works it out.
Both(lo, hi, n) == lo[n % SS] + 256 * hi[(n + 1) % SS]
Part(c, x, both) ==
  IF Volume[c].fs_type = 16 THEN both ELSE IF x % 2 = 1 THEN both \div 16 ELSE both % 4096

LEMMA NextIs ==
  ASSUME NEW c \in Cards, NEW x \in Nat
  PROVE  LET n == LinkAt(c, x)
         IN NextCluster(c, x) = Part(c, x, Both(Contents[c][LinkSector(c, n)],
                                                Contents[c][LinkSector(c, n + 1)], n))
<1> DEFINE n == LinkAt(c, x)
           both == Both(Contents[c][LinkSector(c, n)], Contents[c][LinkSector(c, n + 1)], n)
<1>1. Volume[c].fs_type = 12 \/ Volume[c].fs_type = 16
  BY Sizes
<1>2. x % 2 = 0 \/ x % 2 = 1
  BY SMT
<1>3. NextCluster(c, x) = CASE Volume[c].fs_type = 16 -> both
       [] Volume[c].fs_type = 12 /\ x % 2 = 1 -> both \div 16
       [] Volume[c].fs_type = 12 /\ x % 2 = 0 -> both % 4096
  BY DEF NextCluster, Both
<1> HIDE DEF both
<1>4. NextCluster(c, x) = Part(c, x, both)
  BY <1>1, <1>2, <1>3, SMT DEF Part
<1> QED BY <1>4 DEF both

\* The link of a cluster is the next of its chain, or a card does not answer.
LEMMA LinkShows ==
  ASSUME FatTyped, MetaKept, NEW c \in Cards, On(c), NEW w, Shows(w, c), NEW f \in Files,
         NEW i \in 1..(Len(Chain[c][f]) - 1)
  PROVE  LET got == get_cluster(w, Chain[c][f][i])
         IN /\ Shows(got.w, c) /\ Accesses(w, got.w, Meta(c))
            /\ got.clust = (IF got.w.ok THEN Chain[c][f][i + 1] ELSE 1)
<1> DEFINE x == Chain[c][f][i]
           n == LinkAt(c, x)
           lo == LinkSector(c, n)
           hi == LinkSector(c, n + 1)
           w1 == move_window(w, lo)
           w2 == move_window(w1, hi)
<1>1. fs.vol = Volume[c]
  BY DEF On
<1>2. x \in 2..(Volume[c].max_clust - 1) /\ Volume[c].max_clust \in Nat
  <2>1. Len(Chain[c][f]) \in Nat /\ (\A j \in 1..Len(Chain[c][f]) : Chain[c][f][j] \in 2..(Volume[c].max_clust - 1))
    BY Chained
  <2>2. i \in 1..Len(Chain[c][f])
    BY <2>1
  <2> QED BY <2>1, <2>2, Sizes
<1>3. lo \in Meta(c) /\ hi \in Meta(c) /\ NextCluster(c, x) = Chain[c][f][i + 1]
  BY ChainAssumption
<1>4. n \in Nat /\ x \in Nat
  <2>1. x \in Nat
    BY <1>2
  <2> HIDE DEF x
  <2>2. x * 2 \in Nat /\ (x * 3) \div 2 \in Nat
    BY <2>1, SMT
  <2> QED BY <2>1, <2>2 DEF LinkAt
<1>5. lo # 0 /\ hi # 0
  <2>0. n + 1 \in Nat
    BY <1>4, SMT
  <2> HIDE DEF n
  <2>1. n \div SS \in Nat /\ (n + 1) \div SS \in Nat
    BY <1>4, <2>0, DivMod, Sizes
  <2>2. Volume[c].fatbase \in Nat \ {0}
    BY Sizes
  <2>3. \A a \in Nat : Volume[c].fatbase + a # 0
    BY <2>2
  <2> QED BY <2>1, <2>3, Zenon DEF LinkSector
<1>6. Shows(w1, c) /\ Accesses(w, w1, Meta(c)) /\ (w1.ok => w1.sect = lo /\ w1.win = Contents[c][lo])
  <2> HIDE DEF lo
  <2>1. lo \in Meta(c) /\ lo # 0
    BY <1>3, <1>5
  <2> QED BY <2>1, MetaShows
<1>7. Shows(w2, c) /\ Accesses(w1, w2, Meta(c)) /\ (w2.ok => w2.sect = hi /\ w2.win = Contents[c][hi])
  <2> HIDE DEF lo, hi, w1
  <2>1. hi \in Meta(c) /\ hi # 0 /\ Shows(w1, c)
    BY <1>3, <1>5, <1>6
  <2> QED BY <2>1, MetaShows
<1>8. InUse(x)
  BY <1>1, <1>2 DEF InUse
<1>9. get_cluster(w, x) = [w |-> w2, clust |-> IF ~w2.ok THEN 1 ELSE Part(c, x, Both(w1.win, w2.win, n))]
  BY <1>1, <1>8 DEF get_cluster, Part, Both, LinkAt, LinkSector
<1> HIDE DEF w1, w2, n, lo, hi, x
<1>10. w1.ok => w1.sect = w.sect \/ ready
  BY <1>6 DEF Accesses
<1>11. Accesses(w, w2, Meta(c))
  BY <1>6, <1>7, <1>10, AccessesThen
<1>12. w2.ok => Part(c, x, Both(w1.win, w2.win, n)) = Chain[c][f][i + 1]
  <2> SUFFICES ASSUME w2.ok PROVE Part(c, x, Both(w1.win, w2.win, n)) = Chain[c][f][i + 1]
    OBVIOUS
  <2>1. w1.ok
    BY <1>7 DEF Accesses
  <2>2. w1.win = Contents[c][lo] /\ w2.win = Contents[c][hi]
    BY <1>6, <1>7, <2>1
  <2>3. NextCluster(c, x) = Part(c, x, Both(Contents[c][lo], Contents[c][hi], n))
    BY <1>4, NextIs DEF lo, hi, n
  <2> QED BY <1>3, <2>2, <2>3
<1>13. get_cluster(w, x).w = w2 /\ get_cluster(w, x).clust = (IF w2.ok THEN Chain[c][f][i + 1] ELSE 1)
  BY <1>9, <1>12
<1> QED BY <1>7, <1>11, <1>13 DEF x

\* The firmware goes on with a window that shows what it showed before or a
\* sector that is no file's.
LEMMA WindowKept ==
  ASSUME CardTyped, FsTyped, NEW c \in Cards, On(c), NEW k \in Answers, NEW w,
         Shows(w, c), Accesses(Window(k), w, Meta(c)), Use(w),
         UNCHANGED <<cardVars, STA_NOINIT, fsid>>
  PROVE  /\ CardTyped' /\ FsTyped' /\ On(c)'
         /\ fs'.vol = fs.vol /\ fs'.id = fs.id
         /\ fs'.winsect \in Meta(c) \cup {fs.winsect}
<1>1. w \in [sect : Nat, win : [Offsets -> Byte], left : Nat, ok : BOOLEAN]
  BY DEF Shows
<1>2. fs' = [fs EXCEPT !.winsect = w.sect] /\ win' = w.win
  BY DEF Use
<1>3. socket' = socket /\ ready' = ready /\ medium' = medium
  BY DEF cardVars
<1>4. fs'.vol = fs.vol /\ fs'.id = fs.id /\ fs'.winsect = w.sect
      /\ fs' \in [id : 0..(ID_MOD - 1), winsect : Nat, vol : {Volume[x] : x \in Cards} \cup {NoVolume}]
  BY <1>1, <1>2 DEF FsTyped
<1>5. CardTyped'
  BY <1>3 DEF CardTyped
<1>6. FsTyped'
  <2>1. win' \in [Offsets -> Byte]
    BY <1>1, <1>2
  <2> QED BY <1>4, <2>1 DEF FsTyped
<1>7. On(c)'
  BY <1>2, <1>3, <1>4 DEF On, Shows
<1>8. fs'.winsect \in Meta(c) \cup {fs.winsect}
  BY <1>4 DEF Accesses, Window
<1> QED BY <1>4, <1>5, <1>6, <1>7, <1>8

\* What a path leads to, with the card's answers cut short anywhere.
LEMMA Traced ==
  ASSUME FatTyped, MetaKept, NEW c \in Cards, On(c), NEW k \in Answers,
         Use(trace_path(Window(k))), UNCHANGED <<cardVars, STA_NOINIT, fsid>>
  PROVE  LET w == trace_path(Window(k))
         IN /\ CardTyped' /\ FsTyped' /\ On(c)'
            /\ fs'.vol = fs.vol /\ fs'.id = fs.id
            /\ fs'.winsect \in Meta(c) \cup {fs.winsect}
            /\ w.ok => /\ ready /\ socket = c /\ w.win = Contents[c][DirSector(c)]
                       /\ fs'.winsect \in Meta(c)
<1> DEFINE w == trace_path(Window(k))
<1>1. Shows(Window(k), c)
  BY WindowShows
<1>2. Shows(w, c) /\ Accesses(Window(k), w, Meta(c))
      /\ (w.ok => ready /\ w.sect = DirSector(c) /\ w.win = Contents[c][DirSector(c)])
  BY <1>1, TraceShows
<1>3. Use(w)
  OBVIOUS
<1>4. DirSector(c) \in Meta(c)
  BY DirectoryAssumption DEF Root, DirSector
<1> HIDE DEF w
<1>5. /\ CardTyped' /\ FsTyped' /\ On(c)'
      /\ fs'.vol = fs.vol /\ fs'.id = fs.id
      /\ fs'.winsect \in Meta(c) \cup {fs.winsect}
  BY <1>2, <1>3, WindowKept DEF FatTyped
<1>6. w.ok => fs'.winsect \in Meta(c)
  BY <1>2, <1>3, <1>4 DEF Use, FatTyped, FsTyped
<1>7. ready => socket = c
  BY DEF On
<1>8. w.ok => /\ ready /\ socket = c /\ w.win = Contents[c][DirSector(c)]
              /\ fs'.winsect \in Meta(c)
  BY <1>2, <1>6, <1>7
<1> QED BY <1>5, <1>8 DEF w

-----------------------------------------------------------------------------
(* Mounting and opening.                                                   *)

Away == {"mount", "opendir", "nextfile", "open"}

LEMMA NotServing ==
  ASSUME pc' \in Away
  PROVE  ServeInv' /\ SeekInv' /\ Positioned' /\ CountInv' /\ DataInv'
BY DEF Away, Serving, ServeInv, SeekInv, Positioned, CountInv, DataInv

LEMMA MetaStays ==
  ASSUME MetaKept, UNCHANGED medium
  PROVE  MetaKept'
BY DEF MetaKept

LEMMA TypesStay ==
  /\ CardTyped /\ UNCHANGED cardVars => CardTyped'
  /\ FsTyped /\ UNCHANGED fsVars => FsTyped'
  /\ SelTyped /\ UNCHANGED <<first, imagefile>> => SelTyped'
  /\ FileTyped /\ UNCHANGED file1 => FileTyped'
  /\ ReqTyped /\ UNCHANGED reqVars => ReqTyped'
<1>1. CardTyped /\ UNCHANGED cardVars => CardTyped'
  BY DEF CardTyped, cardVars
<1>2. FsTyped /\ UNCHANGED fsVars => FsTyped'
  BY DEF FsTyped, fsVars
<1>3. SelTyped /\ UNCHANGED <<first, imagefile>> => SelTyped'
  BY DEF SelTyped
<1>4. FileTyped /\ UNCHANGED file1 => FileTyped'
  BY DEF FileTyped
<1>5. ReqTyped /\ UNCHANGED reqVars => ReqTyped'
  BY DEF ReqTyped, reqVars
<1> QED BY <1>1, <1>2, <1>3, <1>4, <1>5

LEMMA SomeVolume ==
  ASSUME NEW c \in Cards
  PROVE  Volume[c] # NoVolume /\ Volume[c].fs_type # 0
<1>1. Volume[c].fs_type # 0
  BY Sizes
<1>2. NoVolume.fs_type = 0
  BY DEF NoVolume
<1> QED BY <1>1, <1>2

LEMMA FatInitial == FatInit => FatInv
<1> SUFFICES ASSUME FatInit PROVE FatInv
  OBVIOUS
<1>0. SS \in Nat \ {0} /\ BLOCK \in Nat \ {0} /\ ID_MOD \in Nat \ {0}
  BY SectorAssumption
<1>1. CardTyped
  BY VolumeAssumption DEF FatInit, CardTyped
<1>2. Zeros(SS) \in [Offsets -> Byte] /\ Zeros(BLOCK) \in [0..(BLOCK - 1) -> Byte]
  BY <1>0, SMT DEF Zeros, Offsets, Byte
<1>3. 0 \in 0..(ID_MOD - 1)
  BY <1>0, SMT
<1>4. FsTyped
  BY <1>2, <1>3 DEF FatInit, FsTyped, Unmounted
<1>5. SelTyped
  BY DEF FatInit, SelTyped
<1>6. FileTyped
  BY <1>3 DEF FatInit, FileTyped, NoFile, Byte
<1>7. ReqTyped
  BY <1>0, <1>2 DEF FatInit, ReqTyped, NoRequest
<1>8. MetaKept
  BY DEF FatInit, MetaKept
<1>9. MountInv
  BY DEF FatInit, MountInv, Unmounted
<1>10. ServeInv /\ SeekInv /\ Positioned /\ CountInv /\ DataInv
  BY DEF FatInit, Serving, ServeInv, SeekInv, Positioned, CountInv, DataInv
<1> QED BY <1>1, <1>4, <1>5, <1>6, <1>7, <1>8, <1>9, <1>10 DEF FatInv, FatTyped

LEMMA Initialized ==
  ASSUME CardTyped, NEW works \in BOOLEAN, disk_initialize(works), UNCHANGED <<socket, medium>>
  PROVE  CardTyped' /\ STA_NOINIT' \in BOOLEAN /\ (works => socket \in Cards)
BY DEF CardTyped, disk_initialize

LEMMA MountKeeps == FatInv /\ Mount => FatInv'
<1> SUFFICES ASSUME FatInv, Mount PROVE FatInv'
  OBVIOUS
<1>1. FatTyped /\ MetaKept
  BY DEF FatInv
<1>2. PICK works \in BOOLEAN : disk_initialize(works)
  BY DEF Mount
<1>3. CardTyped' /\ STA_NOINIT' \in BOOLEAN
  BY <1>1, <1>2, Initialized DEF Mount, FatTyped
<1>4. 0 \in 0..(ID_MOD - 1)
  BY SectorAssumption, SMT
<1>5. FsTyped'
  BY <1>1, <1>3, <1>4 DEF Mount, FatTyped, FsTyped, f_mount, Unmounted
<1>6. SelTyped' /\ FileTyped' /\ ReqTyped'
  BY <1>1, TypesStay DEF Mount, FatTyped, selVars
<1>7. MetaKept'
  BY <1>1, MetaStays DEF Mount
<1>8. MountInv'
  BY DEF Mount, MountInv, f_mount, Unmounted
<1>9. pc' \in Away
  BY DEF Mount, Away
<1> QED BY <1>3, <1>5, <1>6, <1>7, <1>8, <1>9, NotServing DEF FatInv, FatTyped

LEMMA AutoMountKeeps == FatInv /\ AutoMount => FatInv'
<1> SUFFICES ASSUME FatInv, AutoMount PROVE FatInv'
  OBVIOUS
<1>1. FatTyped /\ MetaKept
  BY DEF FatInv
<1>2. PICK works \in BOOLEAN :
       /\ disk_initialize(works)
       /\ IF works
          THEN /\ fsid' = (fsid + 1) % ID_MOD
               /\ fs' = [id |-> fsid', winsect |-> 0, vol |-> Volume[socket]]
               /\ win' = medium[socket][0]
               /\ UNCHANGED pc
          ELSE fs' = Unmounted /\ pc' = "mount" /\ UNCHANGED <<fsid, win>>
  BY DEF AutoMount
<1>3. CardTyped' /\ STA_NOINIT' \in BOOLEAN /\ (works => socket \in Cards)
  BY <1>1, <1>2, Initialized DEF AutoMount, FatTyped
<1>4. 0 \in 0..(ID_MOD - 1) /\ (fsid + 1) % ID_MOD \in 0..(ID_MOD - 1)
  BY <1>1, SectorAssumption, SMT DEF FatTyped, FsTyped
<1>5. FsTyped' /\ MountInv'
  <2>1. CASE works
    <3>1. socket \in Cards /\ 0 \in DOMAIN Contents[socket]
      BY <1>3, <2>1, VolumeAssumption
    <3>2. medium[socket][0] \in [Offsets -> Byte]
      BY <1>1, <3>1 DEF FatTyped, CardTyped
    <3>3. FsTyped'
      BY <1>2, <1>3, <1>4, <2>1, <3>1, <3>2 DEF FsTyped
    <3>4. On(socket)'
      BY <1>2, <2>1 DEF On, AutoMount
    <3>5. pc' = "opendir"
      BY <1>2, <2>1 DEF AutoMount
    <3>6. \E c \in Cards : On(c)'
      BY <3>1, <3>4 DEF On, AutoMount
    <3> QED BY <3>3, <3>5, <3>6 DEF MountInv
  <2>2. CASE ~works
    <3>1. FsTyped'
      BY <1>1, <1>2, <1>3, <1>4, <2>2 DEF FsTyped, Unmounted, FatTyped
    <3> QED BY <1>2, <2>2, <3>1 DEF MountInv, Unmounted
  <2> QED BY <2>1, <2>2
<1>6. SelTyped' /\ FileTyped' /\ ReqTyped'
  BY <1>1, TypesStay DEF AutoMount, FatTyped, selVars
<1>7. MetaKept'
  BY <1>1, MetaStays DEF AutoMount
<1>8. pc' \in Away
  BY <1>2 DEF AutoMount, Away
<1> QED BY <1>3, <1>5, <1>6, <1>7, <1>8, NotServing DEF FatInv, FatTyped

LEMMA WhichCard ==
  ASSUME FatInv, fs.vol # NoVolume
  PROVE  \E c \in Cards : On(c)
BY DEF FatInv, MountInv

LEMMA MountStays ==
  ASSUME NEW c \in Cards, On(c)', pc' = "nextfile" => first' = 0
  PROVE  MountInv'
<1>1. fs'.vol = Volume[c]
  BY DEF On
<1> QED BY <1>1, SomeVolume DEF MountInv

LEMMA OpenDirKeeps == FatInv /\ OpenDir => FatInv'
<1> SUFFICES ASSUME FatInv, OpenDir PROVE FatInv'
  OBVIOUS
<1>1. FatTyped /\ MetaKept
  BY DEF FatInv
<1>2. fs.vol # NoVolume
  BY DEF OpenDir, Mounted, NoVolume
<1>3. PICK c \in Cards : On(c)
  BY <1>2, WhichCard
<1>4. PICK k \in Answers :
        /\ Use(trace_path(Window(k)))
        /\ pc' = IF ~trace_path(Window(k)).ok THEN "mount" ELSE IF first = 0 THEN "nextfile" ELSE "open"
  BY DEF OpenDir
<1>5. UNCHANGED <<cardVars, STA_NOINIT, fsid>>
  BY DEF OpenDir
<1>6. CardTyped' /\ FsTyped' /\ On(c)'
  BY <1>1, <1>3, <1>4, <1>5, Traced
<1>7. SelTyped' /\ FileTyped' /\ ReqTyped'
  BY <1>1, TypesStay DEF OpenDir, FatTyped, selVars
<1>8. MetaKept'
  BY <1>1, MetaStays DEF OpenDir, cardVars
<1>9. pc' \in Away /\ (pc' = "nextfile" => first' = 0)
  BY <1>4 DEF OpenDir, selVars, Away
<1>10. MountInv'
  BY <1>6, <1>9, MountStays
<1> QED BY <1>6, <1>7, <1>8, <1>9, <1>10, NotServing DEF FatInv, FatTyped

LEMMA Less == IsWellFoundedOn({ss \in Nat \X Nat : ss[1] < ss[2]}, Nat)
BY NatLessThanWellFounded DEF OpToRel

LEMMA MinIn ==
  ASSUME NEW S, S \subseteq Nat, S # {}
  PROVE  Min(S) \in S
<1>1. PICK x \in S : \A y \in S : ~(<<y, x>> \in {ss \in Nat \X Nat : ss[1] < ss[2]})
  BY Less, WFMin
<1>2. ASSUME NEW y \in S PROVE x <= y
  <2>1. x \in Nat /\ y \in Nat
    BY <1>2
  <2>2. ~(<<y, x>> \in {ss \in Nat \X Nat : ss[1] < ss[2]})
    BY <1>1, <1>2
  <2> QED BY <2>1, <2>2
<1>3. \E z \in S : \A y \in S : z <= y
  BY <1>2
<1> QED BY <1>3 DEF Min

LEMMA NextFileKeeps == FatInv /\ NextFile => FatInv'
<1> SUFFICES ASSUME FatInv, NextFile PROVE FatInv'
  OBVIOUS
<1>1. FatTyped /\ MetaKept
  BY DEF FatInv
<1>2. fs.vol # NoVolume /\ first = 0
  BY DEF FatInv, MountInv, NextFile
<1>3. PICK c \in Cards : On(c)
  BY <1>2, WhichCard
<1>4. PICK k \in Answers :
        LET w == trace_path(Window(k))
        IN /\ Use(w)
           /\ imagefile' = IF w.ok /\ Listed(w.win) # {} THEN Min(Listed(w.win)) ELSE imagefile
  BY DEF NextFile
<1>5. UNCHANGED <<cardVars, STA_NOINIT, fsid>>
  BY DEF NextFile
<1>6. CardTyped' /\ FsTyped' /\ On(c)'
  BY <1>1, <1>3, <1>4, <1>5, Traced
<1>7. FileTyped' /\ ReqTyped'
  BY <1>1, TypesStay DEF NextFile, FatTyped
<1>8. SelTyped'
  <2> DEFINE L == Listed(trace_path(Window(k)).win)
  <2>1. L \subseteq Files /\ Files \subseteq Nat
    BY SectorAssumption DEF Listed
  <2>2. imagefile' = IF trace_path(Window(k)).ok /\ L # {} THEN Min(L) ELSE imagefile
    BY <1>4
  <2> HIDE DEF L
  <2>3. L # {} => Min(L) \in Files
    BY <2>1, MinIn
  <2>4. imagefile' \in Files \cup {-1}
    BY <1>1, <2>2, <2>3 DEF FatTyped, SelTyped
  <2>5. first' = first + 1
    BY DEF NextFile
  <2> QED BY <1>2, <2>4, <2>5 DEF SelTyped
<1>9. MetaKept'
  BY <1>1, MetaStays DEF NextFile, cardVars
<1>10. pc' = "open"
  BY DEF NextFile
<1>11. MountInv'
  BY <1>6, <1>10, MountStays
<1> QED BY <1>6, <1>7, <1>8, <1>9, <1>10, <1>11, NotServing DEF FatInv, FatTyped, Away

\* A directory entry that is there is that of a file of the card.
LEMMA EntryIs ==
  ASSUME NEW c \in Cards, NEW f \in Files, f \in Listed(Contents[c][DirSector(c)])
  PROVE  /\ Chain[c][f] # <<>>
         /\ Entry(Contents[c][DirSector(c)], f).org_clust = Chain[c][f][1]
         /\ Entry(Contents[c][DirSector(c)], f).fsize = Size[c][f]
<1>1. Contents[c][DirSector(c)][2 * f] # 0
  BY DEF Listed, Entry
<1>2. \A g \in Files :
        IF Chain[c][g] = <<>> THEN Contents[c][DirSector(c)][2 * g] = 0
        ELSE /\ Contents[c][DirSector(c)][2 * g] = Chain[c][g][1]
             /\ Contents[c][DirSector(c)][2 * g + 1] = Size[c][g]
  BY DirectoryAssumption, Zenon DEF Root, DirSector
<1> QED BY <1>1, <1>2 DEF Entry

LEMMA FirstCluster ==
  ASSUME NEW c \in Cards, NEW f \in Files, Chain[c][f] # <<>>
  PROVE  /\ Len(Chain[c][f]) \in Nat \ {0} /\ Chain[c][f][1] \in 2..(Volume[c].max_clust - 1)
         /\ Chain[c][f][1] \in Nat
<1>1. Chain[c][f] \in Seq(2..(Volume[c].max_clust - 1))
  BY ChainAssumption
<1>2. Len(Chain[c][f]) # 0 /\ Len(Chain[c][f]) \in Nat
  BY <1>1, EmptySeq
<1>3. 1 \in 1..Len(Chain[c][f])
  BY <1>2
<1>4. Chain[c][f][1] \in 2..(Volume[c].max_clust - 1)
  BY <1>1, <1>3, ElementOfSeq
<1>5. Volume[c].max_clust \in Nat
  BY Sizes
<1> QED BY <1>2, <1>4, <1>5

LEMMA OpenKeeps == FatInv /\ f_open => FatInv'
<1> SUFFICES ASSUME FatInv, f_open PROVE FatInv'
  OBVIOUS
<1>1. FatTyped /\ MetaKept
  BY DEF FatInv
<1>2. fs.vol # NoVolume
  BY DEF FatInv, MountInv, f_open
<1>3. PICK c \in Cards : On(c)
  BY <1>2, WhichCard
<1>4. PICK k \in Answers :
       LET w == trace_path(Window(k))
           e == Entry(w.win, imagefile)
       IN /\ Use(w) /\ Blame(w.ok)
          /\ IF w.ok /\ imagefile \in Listed(w.win)
             THEN /\ file1' = [NoFile EXCEPT !.id = fs.id, !.org_clust = e.org_clust,
                                             !.fsize = e.fsize, !.sect_clust = 1]
                  /\ opened' = <<socket, imagefile>>
                  /\ pc' = "serve" /\ UNCHANGED first
             ELSE OpenFails /\ pc' = "mount" /\ UNCHANGED <<file1, opened>>
  BY Zenon DEF f_open
<1>5. UNCHANGED <<cardVars, STA_NOINIT, fsid>>
  BY DEF f_open
<1> DEFINE w == trace_path(Window(k))
<1>6. /\ CardTyped' /\ FsTyped' /\ On(c)'
      /\ fs'.vol = fs.vol /\ fs'.id = fs.id
      /\ w.ok => /\ ready /\ socket = c /\ w.win = Contents[c][DirSector(c)]
                 /\ fs'.winsect \in Meta(c)
  BY <1>1, <1>3, <1>4, <1>5, Traced
<1>7. ReqTyped'
  BY <1>1, TypesStay DEF f_open, FatTyped
<1>8. MetaKept'
  BY <1>1, MetaStays DEF f_open, cardVars
<1> HIDE DEF w
<1>9. CASE w.ok /\ imagefile \in Listed(w.win)
  <2> DEFINE e == Entry(Contents[c][DirSector(c)], imagefile)
  <2>1. /\ file1' = [NoFile EXCEPT !.id = fs.id, !.org_clust = e.org_clust,
                                   !.fsize = e.fsize, !.sect_clust = 1]
        /\ opened' = <<c, imagefile>> /\ pc' = "serve" /\ first' = first /\ imagefile' = imagefile
    BY <1>4, <1>6, <1>9 DEF f_open, w
  <2>2. imagefile \in Files /\ imagefile \in Listed(Contents[c][DirSector(c)])
    BY <1>6, <1>9 DEF Listed
  <2>3. Chain[c][imagefile] # <<>> /\ e.org_clust = Chain[c][imagefile][1] /\ e.fsize = Size[c][imagefile]
    BY <2>2, EntryIs
  <2> HIDE DEF e
  <2>4. Chain[c][imagefile][1] \in Nat /\ Size[c][imagefile] \in Nat
    BY <2>2, <2>3, FirstCluster, Chained
  <2>5. fs.id \in 0..(ID_MOD - 1)
    BY <1>1 DEF FatTyped, FsTyped
  <2>6. FileTyped'
    <3>1. file1' = [id |-> fs.id, error |-> FALSE, fptr |-> 0, fsize |-> Size[c][imagefile],
                    org_clust |-> Chain[c][imagefile][1], curr_clust |-> 0, curr_sect |-> 0,
                    sect_clust |-> 1]
      BY <2>1, <2>3 DEF NoFile
    <3>2. 1 \in Byte
      BY DEF Byte
    <3> QED BY <2>4, <2>5, <3>1, <3>2 DEF FileTyped
  <2>7. SelTyped'
    BY <1>1, <2>1 DEF FatTyped, SelTyped
  <2>8. MountInv'
    BY <1>6, <2>1, MountStays
  <2>9. ServeInv'
    <3>1. opened' = <<c, imagefile>>
      BY <2>1
    <3>2. file1'.org_clust = Chain[c][imagefile][1] /\ file1'.fsize = Size[c][imagefile]
      BY <2>1, <2>3 DEF NoFile
    <3>3. fs'.winsect \notin WholeSectors(c, imagefile)
      BY <1>6, <1>9, <2>2, NotMeta
    <3>4. PICK f \in Files : f = imagefile
      BY <2>2
    <3>5. Serves(c, f)'
      BY <1>6, <2>3, <3>1, <3>2, <3>3, <3>4 DEF Serves
    <3> QED BY <3>5 DEF ServeInv
  <2>10. SeekInv' /\ Positioned' /\ CountInv' /\ DataInv'
    BY <2>1 DEF SeekInv, Positioned, CountInv, DataInv
  <2> QED BY <1>6, <1>7, <1>8, <2>6, <2>7, <2>8, <2>9, <2>10 DEF FatInv, FatTyped
<1>10. CASE ~(w.ok /\ imagefile \in Listed(w.win))
  <2>1. first' = 0 /\ imagefile' = imagefile /\ pc' = "mount" /\ file1' = file1
    BY <1>4, <1>10 DEF f_open, OpenFails, w
  <2>2. SelTyped'
    BY <1>1, <2>1 DEF FatTyped, SelTyped
  <2>3. FileTyped'
    BY <1>1, <2>1, TypesStay DEF FatTyped
  <2>4. MountInv'
    BY <1>6, <2>1, MountStays
  <2>5. pc' \in Away
    BY <2>1 DEF Away
  <2> QED BY <1>6, <1>7, <1>8, <2>2, <2>3, <2>4, <2>5, NotServing DEF FatInv, FatTyped
<1> QED BY <1>9, <1>10

-----------------------------------------------------------------------------
(* Serving.                                                                *)

\* The card and the file that are served.
LEMMA Served ==
  ASSUME FatInv, pc \in Serving
  PROVE  \E c \in Cards, f \in Files :
           Serves(c, f) /\ Card = c /\ File = f /\ csize = Spc(c) * SS
<1>1. PICK c \in Cards, f \in Files : Serves(c, f)
  BY DEF FatInv, ServeInv
<1>2. Card = c /\ File = f
  BY <1>1 DEF Serves, Card, File
<1>3. csize = Spc(c) * SS
  BY <1>1 DEF Serves, On, csize, Spc
<1> QED BY <1>1, <1>2, <1>3

LEMMA ServesKept ==
  ASSUME NEW c \in Cards, NEW f \in Files, Serves(c, f), On(c)', opened' = opened,
         fs'.winsect \in Meta(c) \cup {fs.winsect},
         file1'.org_clust = file1.org_clust, file1'.fsize = file1.fsize
  PROVE  Serves(c, f)' /\ ServeInv' /\ (pc' # "nextfile" => MountInv') /\ Card' = c /\ File' = f
<1>1. fs'.winsect \notin WholeSectors(c, f)
  BY NotMeta DEF Serves
<1>2. Serves(c, f)'
  BY <1>1 DEF Serves
<1>3. ServeInv'
  BY <1>2 DEF ServeInv
<1>4. pc' # "nextfile" => MountInv'
  BY MountStays
<1>5. Card' = c /\ File' = f
  BY <1>2 DEF Serves, Card, File
<1> QED BY <1>2, <1>3, <1>4, <1>5

LEMMA OnStays ==
  ASSUME NEW c \in Cards, On(c), UNCHANGED <<cardVars, fsVars>>
  PROVE  On(c)' /\ fs'.winsect \in Meta(c) \cup {fs.winsect}
BY DEF On, cardVars, fsVars

\* Between requests nothing is under way.
LEMMA AtRest ==
  ASSUME pc' \notin {"arrive", "seek", "read", "transfer"}, ~(pc' = "report" /\ result' = "OK")
  PROVE  SeekInv' /\ Positioned' /\ CountInv' /\ DataInv'
BY DEF SeekInv, Positioned, CountInv, DataInv

LEMMA MountInvStays ==
  ASSUME FatInv, UNCHANGED <<cardVars, fsVars>>, pc' \notin {"nextfile", "open"}
  PROVE  MountInv'
<1>1. \A c \in Cards : On(c) => On(c)'
  BY OnStays
<1>2. (fs.vol = NoVolume /\ fs.winsect = 0) \/ (\E c \in Cards : On(c))
  BY DEF FatInv, MountInv
<1>3. fs' = fs
  BY DEF fsVars
<1> QED BY <1>1, <1>2, <1>3 DEF MountInv

LEMMA PollFailsKeeps == FatInv /\ PollFails => FatInv'
<1> SUFFICES ASSUME FatInv, PollFails PROVE FatInv'
  OBVIOUS
<1>1. FatTyped'
  BY TypesStay DEF PollFails, FatInv, FatTyped, selVars
<1>2. MetaKept'
  BY MetaStays DEF PollFails, FatInv, cardVars
<1>3. MountInv'
  BY MountInvStays DEF PollFails
<1>4. pc' \in Away
  BY DEF PollFails, Away
<1> QED BY <1>1, <1>2, <1>3, <1>4, NotServing DEF FatInv

LEMMA SelectKeeps == FatInv /\ Select => FatInv'
<1> SUFFICES ASSUME FatInv, Select PROVE FatInv'
  OBVIOUS
<1>1. FatTyped'
  <2>1. SelTyped'
    BY DEF Select, FatInv, FatTyped, SelTyped
  <2> QED BY <2>1, TypesStay DEF Select, FatInv, FatTyped
<1>2. MetaKept'
  BY MetaStays DEF Select, FatInv, cardVars
<1>3. MountInv'
  BY MountInvStays DEF Select
<1>4. pc' \in Away
  BY DEF Select, Away
<1> QED BY <1>1, <1>2, <1>3, <1>4, NotServing DEF FatInv

LEMMA BrowseKeeps == FatInv /\ Browse => FatInv'
<1> SUFFICES ASSUME FatInv, Browse PROVE FatInv'
  OBVIOUS
<1>1. FatTyped /\ MetaKept /\ pc = "serve" /\ pc' = "serve"
  BY DEF FatInv, Browse
<1>2. PICK c \in Cards, f \in Files : Serves(c, f)
  BY <1>1, Served DEF Serving
<1>3. PICK k \in Answers : Use(trace_path(Window(k)))
  BY DEF Browse
<1>4. UNCHANGED <<cardVars, STA_NOINIT, fsid>> /\ opened' = opened /\ file1' = file1
  BY DEF Browse, selVars
<1>5. On(c)
  BY <1>2 DEF Serves
<1>6. CardTyped' /\ FsTyped' /\ On(c)' /\ fs'.winsect \in Meta(c) \cup {fs.winsect}
  BY <1>1, <1>3, <1>4, <1>5, Traced
<1>7. SelTyped' /\ FileTyped' /\ ReqTyped'
  BY <1>1, TypesStay DEF Browse, FatTyped, selVars
<1>8. MetaKept'
  BY <1>1, <1>4, MetaStays DEF cardVars
<1>9. ServeInv' /\ MountInv'
  BY <1>1, <1>2, <1>4, <1>6, ServesKept
<1>10. SeekInv' /\ Positioned' /\ CountInv' /\ DataInv'
  BY <1>1, AtRest
<1> QED BY <1>6, <1>7, <1>8, <1>9, <1>10 DEF FatInv, FatTyped

LEMMA MinOfTwo ==
  ASSUME NEW a \in Int, NEW b \in Int
  PROVE  Min({a, b}) = (IF a <= b THEN a ELSE b)
<1>1. CASE a <= b
  <2>1. \A x \in {a, b} : (\A y \in {a, b} : x <= y) => x = a
    BY <1>1
  <2>2. a \in {a, b} /\ \A y \in {a, b} : a <= y
    BY <1>1
  <2> QED BY <1>1, <2>1, <2>2 DEF Min
<1>2. CASE ~(a <= b)
  <2>1. \A x \in {a, b} : (\A y \in {a, b} : x <= y) => x = b
    BY <1>2
  <2>2. b \in {a, b} /\ \A y \in {a, b} : b <= y
    BY <1>2
  <2> QED BY <1>2, <2>1, <2>2 DEF Min
<1> QED BY <1>1, <1>2

LEMMA WrittenIs ==
  ASSUME NEW n \in Nat
  PROVE  Written(n) \in [0..(BLOCK - 1) -> Byte]
<1>1. BLOCK \in Nat
  BY Sizes
<1>2. ASSUME NEW i \in 0..(BLOCK - 1) PROVE (200 + BLOCK * n + i) % 256 \in Byte
  <2>1. BLOCK * n \in Nat /\ i \in Nat
    BY <1>1, <1>2
  <2> DEFINE A == BLOCK * n
  <2> HIDE DEF A
  <2>2. (200 + A + i) % 256 \in Byte
    BY <2>1, SMT DEF A, Byte
  <2> QED BY <2>2 DEF A
<1> QED BY <1>2 DEF Written

\* Where a position was cut off at the end of the file.
LEMMA ClipIs ==
  ASSUME FatTyped, NEW b \in Nat
  PROVE  /\ Clip(b * BLOCK) \in Nat /\ Clip(b * BLOCK) <= file1.fsize
         /\ Clip(b * BLOCK) # file1.fsize => Clip(b * BLOCK) = b * BLOCK
         /\ Clip(b * BLOCK) <= b * BLOCK
<1>1. b * BLOCK \in Nat
  BY Sizes, SMT
<1>2. file1.fsize \in Nat
  BY DEF FatTyped, FileTyped
<1> DEFINE p == b * BLOCK
<1> HIDE DEF p
<1>3. Clip(p) \in Nat /\ Clip(p) <= file1.fsize /\ (Clip(p) # file1.fsize => Clip(p) = p) /\ Clip(p) <= p
  BY <1>1, <1>2, SMT DEF Clip, p
<1> QED BY <1>3 DEF p

LEMMA ClusterSize ==
  ASSUME NEW c \in Cards
  PROVE  Spc(c) * SS \in Nat \ {0}
<1>1. Spc(c) \in Int /\ Spc(c) >= 1 /\ SS \in Nat \ {0}
  BY Sizes
<1>2. Spc(c) * SS >= SS /\ Spc(c) * SS \in Int
  BY <1>1, MulGe
<1> DEFINE A == Spc(c) * SS
<1>3. A >= SS /\ A \in Int
  BY <1>2
<1> HIDE DEF A
<1>4. A \in Nat \ {0}
  BY <1>1, <1>3
<1> QED BY <1>4 DEF A

LEMMA RequestKeeps == FatInv /\ Request => FatInv'
<1> SUFFICES ASSUME FatInv, Request PROVE FatInv'
  OBVIOUS
<1>1. FatTyped /\ MetaKept /\ pc = "serve"
  BY DEF FatInv, Request
<1>2. PICK c \in Cards, f \in Files : Serves(c, f)
  BY <1>1, Served DEF Serving
<1>3. PICK wr \in BOOLEAN, b \in Positions :
       /\ req' = [wr |-> wr, blk |-> b]
       /\ buf' = IF wr THEN Written(requests) ELSE buf
       /\ ofs' = Clip(b * BLOCK)
  BY DEF Request
<1>4. b \in Nat
  BY SectorAssumption
<1>5. ofs' \in Nat /\ ofs' <= file1.fsize
  BY <1>1, <1>3, <1>4, ClipIs
<1>6. /\ UNCHANGED <<cardVars, fsVars, selVars>> /\ btr' = btr /\ br' = br /\ before' = buf'
      /\ requests' = requests + 1
  BY DEF Request
<1>7. CardTyped' /\ FsTyped' /\ SelTyped'
  BY <1>1, <1>6, TypesStay DEF FatTyped, selVars
<1>8. buf' \in [0..(BLOCK - 1) -> Byte]
  <2>1. requests \in Nat /\ buf \in [0..(BLOCK - 1) -> Byte]
    BY <1>1 DEF FatTyped, ReqTyped
  <2> QED BY <1>3, <2>1, WrittenIs
<1>9. MetaKept'
  BY <1>1, <1>6, MetaStays DEF cardVars
<1>10. On(c)' /\ fs'.winsect \in Meta(c) \cup {fs.winsect} /\ opened' = opened
  BY <1>2, <1>6, OnStays DEF Serves, selVars
<1>11. file1.org_clust \in Nat /\ 1 \in Byte /\ 0 <= file1.fsize
  BY <1>1 DEF FatTyped, FileTyped, Byte
<1>12. CASE validate /\ ~file1.error
  <2>1. /\ file1' = [file1 EXCEPT !.fptr = 0, !.sect_clust = 1,
                        !.curr_clust = IF ofs' = 0 THEN @ ELSE file1.org_clust]
        /\ clust' = file1.org_clust
        /\ pc' = IF ofs' = 0 THEN "read" ELSE "seek"
        /\ result' = result
    BY <1>12 DEF Request
  <2>2. /\ FileTyped' /\ file1'.fptr = 0 /\ file1'.sect_clust = 1 /\ file1'.fsize = file1.fsize
        /\ file1'.org_clust = file1.org_clust /\ (ofs' # 0 => file1'.curr_clust = file1.org_clust)
    BY <1>1, <1>11, <2>1 DEF FatTyped, FileTyped
  <2>3. ReqTyped'
    BY <1>1, <1>3, <1>4, <1>5, <1>6, <1>8, <1>11, <2>1 DEF FatTyped, ReqTyped
  <2>4. Serves(c, f)' /\ ServeInv' /\ MountInv' /\ Card' = c /\ File' = f
    <3>1. pc' # "nextfile"
      BY <2>1
    <3> QED BY <1>2, <1>10, <2>2, <3>1, ServesKept
  <2>5. Target' = ofs'
    BY <1>3, <2>2 DEF Target, Clip
  <2>6. SeekInv'
    <3>1. pc' # "arrive"
      BY <2>1
    <3>2. ASSUME pc' = "seek"
          PROVE  /\ ofs' > 0 /\ file1'.fptr + ofs' = Target' /\ file1'.curr_clust = clust'
                 /\ \E i \in 1..Len(Chain[c][f]) :
                      file1'.fptr = (i - 1) * csize' /\ clust' = Chain[c][f][i]
      <4>1. ofs' # 0
        BY <2>1, <3>2
      <4>2. ofs' > 0 /\ file1'.fptr + ofs' = Target'
        <5> DEFINE o == ofs'
                   p == file1'.fptr
                   q == Target'
        <5>1. o \in Nat /\ o # 0 /\ p = 0 /\ q = o
          BY <1>5, <2>2, <2>5, <4>1
        <5> HIDE DEF o, p, q
        <5>2. o > 0 /\ p + o = q
          BY <5>1
        <5> QED BY <5>2 DEF o, p, q
      <4>3. file1'.curr_clust = clust'
        BY <2>1, <2>2, <4>1
      <4>4. clust' = Chain[c][f][1] /\ 1 \in 1..Len(Chain[c][f])
        <5>1. Len(Chain[c][f]) \in Nat \ {0}
          BY <1>2, FirstCluster DEF Serves
        <5>2. clust' = Chain[c][f][1]
          BY <1>2, <2>1 DEF Serves
        <5>3. 1 \in 1..Len(Chain[c][f])
          BY <5>1
        <5> QED BY <5>2, <5>3
      <4>5. csize' \in Int
        <5>1. fs'.vol.sects_clust = Spc(c)
          BY <2>4 DEF Serves, On, Spc
        <5>2. csize' = Spc(c) * SS
          BY <5>1 DEF csize
        <5>3. Spc(c) * SS \in Nat \ {0}
          BY ClusterSize
        <5>4. Spc(c) * SS \in Int
          <6> DEFINE A == Spc(c) * SS
          <6>1. A \in Nat \ {0}
            BY <5>3
          <6> HIDE DEF A
          <6>2. A \in Int
            BY <6>1
          <6> QED BY <6>2 DEF A
        <5> QED BY <5>2, <5>4
      <4>6. (1 - 1) * csize' = 0
        <5> DEFINE A == csize'
        <5>1. A \in Int
          BY <4>5
        <5> HIDE DEF A
        <5>2. 0 * A = 0
          BY <5>1, SMT
        <5>3. 1 - 1 = 0
          BY SMT
        <5>4. (1 - 1) * A = 0
          BY <5>2, <5>3
        <5> QED BY <5>4 DEF A
      <4>7. file1'.fptr = (1 - 1) * csize'
        BY <2>2, <4>6
      <4> QED BY <4>2, <4>3, <4>4, <4>7
    <3> QED BY <2>4, <3>1, <3>2 DEF SeekInv
  <2>7. Positioned'
    BY <2>2 DEF Positioned
  <2>8. CountInv'
    BY <2>1, <2>2, <2>5 DEF CountInv
  <2>9. DataInv'
    BY <1>6, <2>1 DEF DataInv
  <2> QED BY <1>7, <1>9, <2>2, <2>3, <2>4, <2>6, <2>7, <2>8, <2>9 DEF FatInv, FatTyped
<1>13. CASE ~(validate /\ ~file1.error)
  <2>1. /\ result' = IF validate THEN "RW_ERROR" ELSE "INVALID"
        /\ pc' = "report" /\ file1' = file1 /\ clust' = clust
    BY <1>13 DEF Request
  <2>2. FileTyped'
    BY <1>1, <2>1, TypesStay DEF FatTyped
  <2>3. ReqTyped'
    BY <1>1, <1>3, <1>4, <1>5, <1>6, <1>8, <2>1 DEF FatTyped, ReqTyped
  <2>4. ServeInv' /\ MountInv'
    BY <1>2, <1>10, <2>1, ServesKept
  <2>5. SeekInv' /\ Positioned' /\ CountInv' /\ DataInv'
    BY <2>1, AtRest
  <2> QED BY <1>7, <1>9, <2>2, <2>3, <2>4, <2>5 DEF FatInv, FatTyped
<1> QED BY <1>12, <1>13

\* While the position asked for is beyond a cluster, there is another cluster.
LEMMA MoreClusters ==
  ASSUME NEW c \in Cards, NEW f \in Files, NEW i \in 1..Len(Chain[c][f]), NEW o \in Nat,
         o > Spc(c) * SS, (i - 1) * (Spc(c) * SS) + o <= Size[c][f]
  PROVE  i \in 1..(Len(Chain[c][f]) - 1)
<1> DEFINE cs == Spc(c) * SS
           L == Len(Chain[c][f])
<1>1. cs \in Nat \ {0}
  BY ClusterSize
<1>2. L \in Nat /\ Size[c][f] \in Nat /\ Size[c][f] <= L * cs
  BY Chained
<1>3. o > cs /\ (i - 1) * cs + o <= Size[c][f] /\ i \in 1..L
  OBVIOUS
<1> HIDE DEF cs, L
<1>4. (i - 1) * cs + cs = i * cs /\ (i - 1) * cs \in Int /\ L * cs \in Int /\ i * cs \in Int
  BY <1>1, <1>2, <1>3, SMT
<1>5. i * cs < L * cs
  BY <1>1, <1>2, <1>3, <1>4, SMT
<1>6. ~(L <= i)
  BY <1>1, <1>2, <1>3, <1>4, <1>5, MulMono, SMT
<1> QED BY <1>2, <1>3, <1>6, SMT DEF L

LEMMA FollowKeeps == FatInv /\ Follow => FatInv'
<1> SUFFICES ASSUME FatInv, Follow PROVE FatInv'
  OBVIOUS
<1>1. FatTyped /\ MetaKept /\ pc = "seek" /\ ~(ofs <= csize)
  BY DEF FatInv, Follow, Reached
<1>2. PICK c \in Cards, f \in Files : Serves(c, f) /\ Card = c /\ File = f /\ csize = Spc(c) * SS
  BY <1>1, Served DEF Serving
<1> DEFINE cs == Spc(c) * SS
<1>3. PICK i \in 1..Len(Chain[c][f]) :
        file1.fptr = (i - 1) * cs /\ clust = Chain[c][f][i]
  BY <1>1, <1>2 DEF FatInv, SeekInv
<1>4. file1.fptr + ofs = Target /\ file1.curr_clust = clust
  BY <1>1 DEF FatInv, SeekInv
<1>5. cs \in Nat \ {0} /\ ofs \in Nat /\ file1.fptr \in Nat
  BY <1>1, ClusterSize DEF FatTyped, FileTyped, ReqTyped
<1>6. Target <= file1.fsize /\ file1.fsize = Size[c][f] /\ Target \in Nat
  <2>1. req.blk \in Nat
    BY <1>1 DEF FatTyped, ReqTyped
  <2> QED BY <1>1, <1>2, <2>1, ClipIs DEF Target, Serves
<1>7. csize = cs
  BY <1>2
<1> HIDE DEF cs
<1>8. ofs > cs
  BY <1>1, <1>5, <1>7, SMT
<1>9. (i - 1) * cs + ofs <= Size[c][f]
  BY <1>3, <1>4, <1>6
<1>10. i \in 1..(Len(Chain[c][f]) - 1)
  BY <1>8, <1>9, <1>5, MoreClusters DEF cs
<1>11. Len(Chain[c][f]) \in Nat /\ Volume[c].max_clust \in Nat
       /\ i + 1 \in 1..Len(Chain[c][f]) /\ Chain[c][f][i + 1] \in 2..(Volume[c].max_clust - 1)
  <2>1. Len(Chain[c][f]) \in Nat /\ Volume[c].max_clust \in Nat
    BY Chained, Sizes
  <2>2. i + 1 \in 1..Len(Chain[c][f])
    BY <1>10, <2>1
  <2> QED BY <2>1, <2>2, Chained
<1>12. PICK k \in Answers :
       LET got == get_cluster(Window(k), clust)
       IN /\ Use(got.w) /\ Blame(got.w.ok)
          /\ clust' = got.clust
          /\ IF InUse(got.clust)
             THEN /\ file1' = [file1 EXCEPT !.fptr = @ + csize, !.curr_clust = got.clust]
                  /\ ofs' = ofs - csize
                  /\ UNCHANGED <<pc, result>>
             ELSE IF got.clust = 0
             THEN ofs' = csize /\ pc' = "arrive" /\ UNCHANGED <<file1, result>>
             ELSE Fail(file1) /\ UNCHANGED ofs
  BY Zenon DEF Follow
<1>13. UNCHANGED <<cardVars, STA_NOINIT, fsid, selVars, req, btr, br, buf, before, requests, swaps>>
  BY DEF Follow
<1> DEFINE got == get_cluster(Window(k), clust)
<1>14. On(c)
  BY <1>2 DEF Serves
<1>15. Shows(got.w, c) /\ Accesses(Window(k), got.w, Meta(c))
       /\ got.clust = (IF got.w.ok THEN Chain[c][f][i + 1] ELSE 1)
  <2>1. Shows(Window(k), c)
    BY <1>1, <1>14, WindowShows
  <2> QED BY <1>1, <1>3, <1>10, <1>14, <2>1, LinkShows
<1>16. Use(got.w) /\ UNCHANGED <<cardVars, STA_NOINIT, fsid>>
  BY <1>12, <1>13
<1> HIDE DEF got
<1>17. CardTyped' /\ FsTyped' /\ On(c)' /\ fs'.winsect \in Meta(c) \cup {fs.winsect}
  BY <1>1, <1>14, <1>15, <1>16, WindowKept DEF FatTyped
<1>18. SelTyped' /\ opened' = opened
  BY <1>1, <1>13, TypesStay DEF FatTyped, selVars
<1>19. MetaKept'
  BY <1>1, <1>13, MetaStays DEF cardVars
<1>20. \A x : InUse(x) <=> x \in 2..(Volume[c].max_clust - 1)
  BY <1>14 DEF On, InUse
<1>21. CASE got.w.ok
  <2>1. got.clust = Chain[c][f][i + 1] /\ InUse(got.clust)
    BY <1>11, <1>15, <1>20, <1>21
  <2>2. /\ clust' = Chain[c][f][i + 1] /\ pc' = "seek" /\ ofs' = ofs - cs /\ result' = result
        /\ file1' = [file1 EXCEPT !.fptr = @ + cs, !.curr_clust = clust']
    BY <1>1, <1>7, <1>12, <2>1 DEF got
  <2>3. clust' \in Nat /\ ofs' \in Nat /\ ofs' > 0
    <3>1. clust' \in Nat
      BY <1>11, <2>2
    <3>2. ofs' \in Nat /\ ofs' > 0
      BY <1>5, <1>8, <2>2
    <3> QED BY <3>1, <3>2
  <2>4. ReqTyped'
    BY <1>1, <1>13, <2>2, <2>3 DEF FatTyped, ReqTyped
  <2>5. (i - 1) * cs + cs = i * cs /\ i * cs \in Nat
    BY <1>5, SMT
  <2>6. file1'.fptr = i * cs
    BY <1>1, <1>3, <2>2, <2>5 DEF FatTyped, FileTyped
  <2>7. /\ file1'.curr_clust = clust' /\ file1'.fsize = file1.fsize
        /\ file1'.org_clust = file1.org_clust
    BY <1>1, <2>2 DEF FatTyped, FileTyped
  <2>8. file1'.fptr + ofs' = Target
    <3> DEFINE A == file1'.fptr
    <3>1. A = file1.fptr + cs
      BY <1>3, <2>5, <2>6
    <3> HIDE DEF A
    <3>2. A + ofs' = file1.fptr + ofs
      BY <1>5, <2>2, <3>1, SMT
    <3> QED BY <1>4, <3>2 DEF A
  <2>9. FileTyped'
    <3> DEFINE A == i * cs
    <3>1. A <= file1.fsize
      <4>1. A \in Nat /\ A + ofs' = Target
        BY <2>5, <2>6, <2>8
      <4>2. file1.fsize \in Nat /\ Target <= file1.fsize
        BY <1>1, <1>6 DEF FatTyped, FileTyped
      <4> HIDE DEF A
      <4> QED BY <2>3, <4>1, <4>2, SMT
    <3>2. A \in Nat /\ A <= file1.fsize /\ file1' = [file1 EXCEPT !.fptr = A, !.curr_clust = clust']
      BY <1>1, <2>2, <2>5, <2>6, <3>1 DEF FatTyped, FileTyped
    <3> HIDE DEF A
    <3> QED BY <1>1, <2>3, <3>2 DEF FatTyped, FileTyped
  <2>10. Serves(c, f)' /\ ServeInv' /\ MountInv' /\ Card' = c /\ File' = f
    <3>1. pc' # "nextfile"
      BY <2>2
    <3> QED BY <1>2, <1>17, <1>18, <2>7, <3>1, ServesKept
  <2>11. Target' = Target
    BY <1>13, <2>7 DEF Target, Clip
  <2>12. csize' = cs
    BY <2>10 DEF Serves, On, csize, cs, Spc
  <2>13. SeekInv'
    <3>1. ((i + 1) - 1) * cs = i * cs
      <4>1. (i + 1) - 1 = i
        BY SMT
      <4> QED BY <4>1
    <3>2. \E j \in 1..Len(Chain[c][f]) : file1'.fptr = (j - 1) * csize' /\ clust' = Chain[c][f][j]
      <4>1. file1'.fptr = ((i + 1) - 1) * csize' /\ clust' = Chain[c][f][i + 1]
        BY <2>2, <2>6, <2>12, <3>1
      <4> QED BY <1>11, <4>1
    <3> QED BY <2>2, <2>3, <2>7, <2>8, <2>10, <2>11, <3>2 DEF SeekInv
  <2>14. Positioned' /\ CountInv'
    BY <2>2 DEF Positioned, CountInv
  <2>15. DataInv'
    <3>1. buf = before
      BY <1>1 DEF FatInv, DataInv
    <3> QED BY <1>13, <2>2, <3>1 DEF DataInv
  <2> QED BY <1>17, <1>18, <1>19, <2>4, <2>9, <2>10, <2>13, <2>14, <2>15 DEF FatInv, FatTyped
<1>22. CASE ~got.w.ok
  <2>1. got.clust = 1
    BY <1>15, <1>22
  <2>2. ~InUse(got.clust) /\ got.clust # 0
    BY <1>11, <1>20, <2>1
  <2>3. clust' = 1 /\ Fail(file1) /\ ofs' = ofs
    BY <1>12, <2>1, <2>2 DEF got
  <2>4. /\ file1' = [file1 EXCEPT !.error = TRUE] /\ result' = "RW_ERROR" /\ pc' = "report"
    BY <2>3 DEF Fail
  <2>5. FileTyped' /\ file1'.org_clust = file1.org_clust /\ file1'.fsize = file1.fsize
    BY <1>1, <2>4 DEF FatTyped, FileTyped
  <2>6. ReqTyped'
    BY <1>1, <1>13, <2>3, <2>4 DEF FatTyped, ReqTyped
  <2>7. ServeInv' /\ MountInv'
    BY <1>2, <1>17, <1>18, <2>4, <2>5, ServesKept
  <2>8. SeekInv' /\ Positioned' /\ CountInv' /\ DataInv'
    BY <2>4, AtRest
  <2> QED BY <1>17, <1>18, <1>19, <2>5, <2>6, <2>7, <2>8 DEF FatInv, FatTyped
<1> QED BY <1>21, <1>22

\* The last sector of the i-th cluster that a position at most cs beyond its head
\* is in or at the end of.
LEMMA LastSector ==
  ASSUME NEW c \in Cards, NEW i \in Nat \ {0}, NEW o \in Nat \ {0}, o <= Spc(c) * SS
  PROVE  LET s == (o - 1) \div SS
             h == ((i - 1) * (Spc(c) * SS) + o - 1) \div SS
         IN s \in 0..(Spc(c) - 1) /\ h \div Spc(c) = i - 1 /\ h % Spc(c) = s
<1> DEFINE n == Spc(c)
           cs == Spc(c) * SS
           s == (o - 1) \div SS
           p == (i - 1) * cs + (o - 1)
<1>1. n \in Nat \ {0} /\ SS \in Nat \ {0} /\ i - 1 \in Nat /\ o - 1 \in Nat
  BY Sizes, SMT
<1>2. cs \in Nat \ {0}
  BY ClusterSize
<1>3. cs = n * SS /\ o <= cs
  OBVIOUS
<1> HIDE DEF cs, n
<1>4. o - 1 \in 0..(cs - 1) /\ o - 1 < n * SS
  BY <1>1, <1>2, <1>3, SMT
<1>5. s \in Nat /\ s < n
  <2>1. n \in Nat
    BY <1>1
  <2>2. s < n
    BY <1>1, <1>4, <2>1, RowOf
  <2> QED BY <1>1, <2>2, DivMod
<1>6. p \div cs = i - 1 /\ p % cs = o - 1 /\ p \in Nat
  BY <1>1, <1>2, <1>4, DivIs
<1>7. p = (i - 1) * cs + o - 1
  <2>1. (i - 1) * cs \in Int
    BY <1>1, <1>2, SMT
  <2> QED BY <2>1, SMT
<1> HIDE DEF p
<1>8. Nests(SS, n, p)
  BY <1>1, <1>6, RowsOfRows
<1>9. (p \div SS) \div n = i - 1 /\ (p \div SS) % n = s
  BY <1>3, <1>6, <1>8 DEF Nests
<1> HIDE DEF s
<1>10. s \in 0..(n - 1)
  BY <1>1, <1>5, SMT
<1> QED BY <1>7, <1>9, <1>10 DEF s, cs, n

LEMMA ArriveKeeps == FatInv /\ Arrive => FatInv'
<1> SUFFICES ASSUME FatInv, Arrive PROVE FatInv'
  OBVIOUS
<1>1. FatTyped /\ MetaKept /\ pc = "seek" /\ ofs <= csize
  BY DEF FatInv, SeekInv, Arrive, Reached
<1>2. PICK c \in Cards, f \in Files : Serves(c, f) /\ Card = c /\ File = f /\ csize = Spc(c) * SS
  BY <1>1, Served DEF Serving
<1> DEFINE cs == Spc(c) * SS
           n == Spc(c)
<1>3. PICK i \in 1..Len(Chain[c][f]) :
        file1.fptr = (i - 1) * cs /\ clust = Chain[c][f][i]
  BY <1>1, <1>2 DEF FatInv, SeekInv
<1>4. file1.fptr + ofs = Target /\ file1.curr_clust = clust /\ ofs > 0
  BY <1>1 DEF FatInv, SeekInv
<1>5. cs \in Nat \ {0} /\ ofs \in Nat /\ file1.fptr \in Nat /\ n \in 1..128
      /\ Volume[c].max_clust \in Nat
  BY <1>1, ClusterSize, Sizes DEF FatTyped, FileTyped, ReqTyped
<1>6. Target <= file1.fsize /\ file1.fsize = Size[c][f] /\ Target \in Nat
  <2>1. req.blk \in Nat
    BY <1>1 DEF FatTyped, ReqTyped
  <2> QED BY <1>1, <1>2, <2>1, ClipIs DEF Target, Serves
<1>7. i \in Nat \ {0} /\ clust \in 2..(Volume[c].max_clust - 1)
  <2>1. Len(Chain[c][f]) \in Nat
    BY Chained
  <2>2. Chain[c][f][i] \in 2..(Volume[c].max_clust - 1)
    BY Chained
  <2>3. i \in Nat \ {0}
    BY <2>1
  <2> QED BY <1>3, <2>2, <2>3
<1>8. ofs <= cs /\ ofs \in Nat \ {0}
  BY <1>1, <1>2, <1>4, <1>5
<1> PICK h : h = ((i - 1) * cs + ofs - 1) \div SS
  OBVIOUS
<1>9. PICK s \in 0..(n - 1) : /\ s = (ofs - 1) \div SS /\ h = ((i - 1) * cs + ofs - 1) \div SS
                              /\ h \div n = i - 1 /\ h % n = s
  BY <1>7, <1>8, LastSector
<1>10. fs.vol = Volume[c]
  BY <1>2 DEF Serves, On
<1>11. UNCHANGED <<cardVars, fsVars, selVars, reqVars, faults, swaps>> /\ pc' = "read"
  BY DEF Arrive
<1> HIDE DEF cs, n
<1>12. s % 256 = s /\ s \in Int /\ n - s \in Byte
  <2>1. s \in 0..(n - 1)
    BY <1>9
  <2> QED BY <1>5, <2>1, SMT DEF Byte
<1>13. clust2sect(clust) = ClusterSector(c, clust) /\ ClusterSector(c, clust) \in Int
  <2>1. clust2sect(clust) = ClusterSector(c, clust)
    BY <1>7, <1>10 DEF clust2sect, InUse, ClusterSector
  <2>2. Volume[c].sects_clust \in Int /\ Volume[c].database \in Int
    <3>1. Spc(c) \in Int
      <4>1. n \in Int
        BY <1>5
      <4> QED BY <4>1 DEF n
    <3>2. Volume[c].database \in Int
      BY Sizes
    <3> QED BY <3>1, <3>2 DEF Spc
  <2>3. clust - 2 \in Int
    BY <1>5, <1>7, SMT
  <2>4. (clust - 2) * Volume[c].sects_clust \in Int
    BY <2>2, <2>3, SMT
  <2>5. ClusterSector(c, clust) \in Int
    BY <2>2, <2>4, SMT DEF ClusterSector
  <2> QED BY <2>1, <2>5
<1>14. file1' = [file1 EXCEPT !.fptr = @ + ofs, !.curr_sect = clust2sect(clust) + (s % 256),
                              !.sect_clust = SectorsLeft(s % 256)]
  BY <1>9, Zenon DEF Arrive
<1>15. SectorsLeft(s) = n - s
  BY <1>10 DEF SectorsLeft, n, Spc
<1>16. file1' = [file1 EXCEPT !.fptr = Target, !.curr_sect = ClusterSector(c, clust) + s,
                              !.sect_clust = n - s]
  BY <1>1, <1>4, <1>12, <1>13, <1>14, <1>15 DEF FatTyped, FileTyped
<1>17. ClusterSector(c, clust) + s \in Int /\ n - s \in Byte
  BY <1>12, <1>13
<1>18. /\ FileTyped' /\ file1'.fptr = Target /\ file1'.curr_sect = ClusterSector(c, clust) + s
       /\ file1'.sect_clust = n - s /\ file1'.curr_clust = clust
       /\ file1'.fsize = file1.fsize /\ file1'.org_clust = file1.org_clust
  BY <1>1, <1>4, <1>6, <1>16, <1>17 DEF FatTyped, FileTyped
<1>19. CardTyped' /\ FsTyped' /\ SelTyped' /\ ReqTyped'
  BY <1>1, <1>11, TypesStay DEF FatTyped, selVars
<1>20. MetaKept'
  BY <1>1, <1>11, MetaStays DEF cardVars
<1>21. On(c)' /\ fs'.winsect \in Meta(c) \cup {fs.winsect} /\ opened' = opened
  BY <1>2, <1>11, OnStays DEF Serves, selVars
<1>22. Serves(c, f)' /\ ServeInv' /\ MountInv' /\ Card' = c /\ File' = f
  <2>1. pc' # "nextfile"
    BY <1>11
  <2> QED BY <1>2, <1>18, <1>21, <2>1, ServesKept
<1>23. Target' = Target
  BY <1>11, <1>18 DEF Target, Clip, reqVars
<1>24. SeekInv'
  BY <1>11 DEF SeekInv
<1>25. Positioned'
  <2>1. h = (file1'.fptr - 1) \div SS
    <3>1. (i - 1) * cs + ofs = Target
      BY <1>3, <1>4
    <3>2. file1'.fptr = (i - 1) * cs + ofs
      BY <1>18, <3>1
    <3> DEFINE A == (i - 1) * cs
    <3>3. A \in Int
      BY <1>3, <1>5
    <3> HIDE DEF A
    <3>4. A + ofs - 1 = (A + ofs) - 1
      BY <1>5, <3>3, SMT
    <3>5. (i - 1) * cs + ofs - 1 = ((i - 1) * cs + ofs) - 1
      BY <3>4 DEF A
    <3> QED BY <1>9, <3>2, <3>5, Zenon
  <2>2. h \div n + 1 = i
    <3>1. h \div n = i - 1
      BY <1>9
    <3>2. (i - 1) + 1 = i
      BY <1>7
    <3> QED BY <3>1, <3>2
  <2>3. FileSector(c, f, h) = ClusterSector(c, clust) + s
    BY <1>3, <1>9, <2>2 DEF FileSector, n
  <2>4. Chain[c][f][h \div Spc(c) + 1] = clust /\ h % Spc(c) = s
    BY <1>3, <1>9, <2>2 DEF n
  <2>5. AtSector(c, f, h)'
    BY <1>18, <2>3, <2>4, Zenon DEF AtSector, n
  <2>7. file1'.fptr # 0
    <3>1. file1.fptr + ofs # 0
      BY <1>5, <1>8, SMT
    <3> QED BY <1>4, <1>18, <3>1
  <2>8. AtSector(c, f, (file1.fptr - 1) \div SS)'
    BY <2>1, <2>5, Zenon DEF AtSector
  <2> QED BY <1>22, <2>7, <2>8, Zenon DEF Positioned
<1>26. CountInv'
  BY <1>11, <1>18, <1>23 DEF CountInv
<1>27. DataInv'
  <2>1. buf = before
    BY <1>1 DEF FatInv, DataInv
  <2> QED BY <1>11, <2>1 DEF DataInv, reqVars
<1> QED BY <1>18, <1>19, <1>20, <1>22, <1>24, <1>25, <1>26, <1>27 DEF FatInv, FatTyped

LEMMA BeginKeeps == FatInv /\ Begin => FatInv'
<1> SUFFICES ASSUME FatInv, Begin PROVE FatInv'
  OBVIOUS
<1>1. FatTyped /\ MetaKept /\ pc = "read"
  BY DEF FatInv, Begin
<1>2. PICK c \in Cards, f \in Files : Serves(c, f)
  BY <1>1, Served DEF Serving
<1>3. file1.fptr = Target /\ buf = before
  BY <1>1 DEF FatInv, CountInv, DataInv
<1>4. /\ btr' = Min({BLOCK, file1.fsize - file1.fptr}) /\ br' = 0
      /\ result' = (IF validate THEN "OK" ELSE "INVALID")
      /\ pc' = (IF validate THEN "transfer" ELSE "report")
      /\ UNCHANGED <<cardVars, fsVars, selVars, file1, req, clust, ofs, buf, before, requests>>
  BY DEF Begin
<1>5. BLOCK \in Nat \ {0} /\ file1.fsize \in Nat /\ file1.fptr \in Nat /\ file1.fptr <= file1.fsize
  BY <1>1, Sizes DEF FatTyped, FileTyped
<1>6. btr' \in 0..BLOCK /\ btr' = Share
  <2>1. Share = Min({BLOCK, file1.fsize - file1.fptr})
    BY <1>3 DEF Share
  <2>2. file1.fsize - file1.fptr \in Nat
    BY <1>5
  <2>3. Min({BLOCK, file1.fsize - file1.fptr}) \in 0..BLOCK
    BY <1>5, <2>2, MinOfTwo
  <2> QED BY <1>4, <2>1, <2>3
<1>7. CardTyped' /\ FsTyped' /\ SelTyped' /\ FileTyped'
  BY <1>1, <1>4, TypesStay DEF FatTyped, selVars
<1>8. ReqTyped'
  BY <1>1, <1>4, <1>5, <1>6 DEF FatTyped, ReqTyped
<1>9. MetaKept'
  BY <1>1, <1>4, MetaStays DEF cardVars
<1>10. On(c)' /\ fs'.winsect \in Meta(c) \cup {fs.winsect} /\ opened' = opened
  BY <1>2, <1>4, OnStays DEF Serves, selVars
<1>11. ServeInv' /\ MountInv'
  BY <1>2, <1>4, <1>10, ServesKept
<1>12. CASE validate
  <2>1. pc' = "transfer" /\ result' = "OK"
    BY <1>4, <1>12
  <2>2. SeekInv'
    BY <2>1 DEF SeekInv
  <2>3. Positioned'
    BY <1>1, <1>4, <2>1 DEF FatInv, Positioned, AtSector, Card, File, selVars
  <2>4. Share' = Share /\ Target' = Target
    BY <1>4 DEF Share, Target, Clip
  <2>5. CountInv'
    <3>1. file1'.fptr = Target' + br'
      BY <1>3, <1>4, <1>5, <2>4
    <3>2. br' + btr' = Share'
      BY <1>4, <1>6, <2>4
    <3>3. br' % SS = 0
      <4>1. SS \in Nat \ {0}
        BY Sizes
      <4>2. 0 % SS = 0
        BY <4>1, SMT
      <4> QED BY <1>4, <4>2
    <3> QED BY <2>1, <3>1, <3>2, <3>3 DEF CountInv
  <2>6. DataInv'
    <3>1. ReadUpTo(0)' /\ WrittenUpTo(0)'
      <4>1. \A i \in 0..(BLOCK - 1) : ~(i < 0)
        BY <1>5
      <4>2. buf' = before'
        BY <1>3, <1>4
      <4> QED BY <4>1, <4>2 DEF ReadUpTo, WrittenUpTo
    <3>2. buf' = before' /\ br' = 0
      BY <1>3, <1>4
    <3>3. ReadUpTo(br)' /\ WrittenUpTo(br)'
      BY <3>1, <3>2 DEF ReadUpTo, WrittenUpTo
    <3> QED BY <2>1, <3>2, <3>3 DEF DataInv
  <2> QED BY <1>7, <1>8, <1>9, <1>11, <2>2, <2>3, <2>5, <2>6 DEF FatInv, FatTyped
<1>13. CASE ~validate
  <2>1. pc' = "report" /\ result' = "INVALID"
    BY <1>4, <1>13
  <2>2. SeekInv' /\ Positioned' /\ CountInv' /\ DataInv'
    BY <2>1, AtRest
  <2> QED BY <1>7, <1>8, <1>9, <1>11, <2>2 DEF FatInv, FatTyped
<1> QED BY <1>12, <1>13

LEMMA FinishKeeps == FatInv /\ Finish => FatInv'
<1> SUFFICES ASSUME FatInv, Finish PROVE FatInv'
  OBVIOUS
<1>1. FatTyped /\ MetaKept /\ pc = "transfer" /\ btr = 0 /\ pc' = "report"
  BY DEF FatInv, Finish
<1>2. PICK c \in Cards, f \in Files : Serves(c, f)
  BY <1>1, Served DEF Serving
<1>3. UNCHANGED <<cardVars, fsVars, selVars, file1, reqVars>>
  BY DEF Finish
<1>4. FatTyped'
  BY <1>1, <1>3, TypesStay DEF FatTyped, selVars
<1>5. MetaKept'
  BY <1>1, <1>3, MetaStays DEF cardVars
<1>6. On(c)' /\ fs'.winsect \in Meta(c) \cup {fs.winsect} /\ opened' = opened
  BY <1>2, <1>3, OnStays DEF Serves, selVars
<1>7. ServeInv' /\ MountInv'
  BY <1>1, <1>2, <1>3, <1>6, ServesKept
<1>8. SeekInv' /\ Positioned' /\ CountInv'
  BY <1>1 DEF SeekInv, Positioned, CountInv
<1>9. DataInv'
  <2>1. br = Share
    <3>1. br + btr = Share /\ br \in Nat
      BY <1>1 DEF FatInv, CountInv, FatTyped, ReqTyped
    <3> QED BY <1>1, <3>1
  <2>2. IF req.wr THEN WrittenUpTo(Share) ELSE ReadUpTo(Share)
    BY <1>1, <2>1 DEF FatInv, DataInv
  <2>3. IF req'.wr THEN WrittenUpTo(Share)' ELSE ReadUpTo(Share)'
    BY <1>3, <2>2 DEF WrittenUpTo, ReadUpTo, Share, Target, Clip, At, Card, selVars, reqVars, cardVars
  <2> QED BY <1>1, <2>3 DEF DataInv
<1> QED BY <1>4, <1>5, <1>7, <1>8, <1>9 DEF FatInv

LEMMA ReportKeeps == FatInv /\ Report => FatInv'
<1> SUFFICES ASSUME FatInv, Report PROVE FatInv'
  OBVIOUS
<1>1. FatTyped /\ MetaKept /\ pc = "report"
  BY DEF FatInv, Report
<1>2. PICK c \in Cards, f \in Files : Serves(c, f)
  BY <1>1, Served DEF Serving
<1>3. /\ UNCHANGED <<cardVars, fsVars, selVars, file1, requests>>
      /\ pc' \in {"mount", "serve"}
      /\ req' = NoRequest /\ clust' = 0 /\ ofs' = 0 /\ btr' = 0 /\ br' = 0
      /\ result' = "OK" /\ buf' = Zeros(BLOCK) /\ before' = Zeros(BLOCK)
  BY DEF Report
<1>4. CardTyped' /\ FsTyped' /\ SelTyped' /\ FileTyped'
  BY <1>1, <1>3, TypesStay DEF FatTyped, selVars
<1>5. ReqTyped'
  <2>1. BLOCK \in Nat
    BY Sizes
  <2>2. Zeros(BLOCK) \in [0..(BLOCK - 1) -> Byte]
    BY <2>1, SMT DEF Zeros, Byte
  <2>3. NoRequest \in [wr : BOOLEAN, blk : Nat]
    BY DEF NoRequest
  <2>4. requests \in Nat /\ 0 \in 0..BLOCK
    BY <1>1, <2>1 DEF FatTyped, ReqTyped
  <2> QED BY <1>3, <2>2, <2>3, <2>4 DEF ReqTyped
<1>6. MetaKept'
  BY <1>1, <1>3, MetaStays DEF cardVars
<1>7. On(c)' /\ fs'.winsect \in Meta(c) \cup {fs.winsect} /\ opened' = opened
  BY <1>2, <1>3, OnStays DEF Serves, selVars
<1>8. ServeInv' /\ MountInv'
  BY <1>2, <1>3, <1>7, ServesKept
<1>9. SeekInv' /\ Positioned' /\ CountInv' /\ DataInv'
  BY <1>3, AtRest
<1> QED BY <1>4, <1>5, <1>6, <1>8, <1>9 DEF FatInv, FatTyped

\* The card leaves or enters its socket.
LEMMA SwapKeeps ==
  ASSUME FatInv, socket' \in Cards \cup {"none"}, ready' = FALSE,
         UNCHANGED <<medium, fsVars, selVars, file1, pc, reqVars>>
  PROVE  FatInv'
<1>1. FatTyped /\ MetaKept
  BY DEF FatInv
<1>2. CardTyped'
  BY <1>1 DEF FatTyped, CardTyped
<1>3. FsTyped' /\ SelTyped' /\ FileTyped' /\ ReqTyped'
  BY <1>1, TypesStay DEF FatTyped, selVars
<1>4. MetaKept'
  BY <1>1, MetaStays
<1>5. \A c \in Cards : On(c) => On(c)'
  BY DEF On, fsVars
<1>6. \A c \in Cards, f \in Files : Serves(c, f) => Serves(c, f)'
  BY <1>5 DEF Serves, selVars, fsVars
<1>7. ServeInv'
  BY <1>6 DEF FatInv, ServeInv
<1>8. MountInv'
  BY <1>5 DEF FatInv, MountInv, fsVars, selVars
<1>8a. /\ UNCHANGED <<medium, fs, opened, file1, pc>>
      /\ UNCHANGED <<req, clust, ofs, btr, br, buf, result, before>>
  BY DEF fsVars, selVars, reqVars
<1>9. SeekInv'
  BY <1>8a DEF FatInv, SeekInv, Target, Clip, Card, File, csize
<1>10. Positioned'
  BY <1>8a DEF FatInv, Positioned, AtSector, Card, File
<1>11. CountInv'
  BY <1>8a DEF FatInv, CountInv, Target, Share, Clip
<1>12. DataInv'
  <2>1. Share' = Share /\ \A i : At(i)' = At(i)
    BY <1>8a DEF Share, Target, Clip, At
  <2>2. \A n \in {br, Share} : ReadUpTo(n)' = ReadUpTo(n) /\ WrittenUpTo(n)' = WrittenUpTo(n)
    BY <1>8a, <2>1 DEF ReadUpTo, WrittenUpTo, Card
  <2> QED BY <1>8a, <2>1, <2>2 DEF FatInv, DataInv
<1> QED BY <1>2, <1>3, <1>4, <1>7, <1>8, <1>9, <1>10, <1>11, <1>12 DEF FatInv, FatTyped

LEMMA CardOutKeeps == FatInv /\ CardOut => FatInv'
BY SwapKeeps DEF CardOut

LEMMA CardInKeeps == FatInv /\ CardIn => FatInv'
<1>1. FatInv /\ socket = "none" => ready = FALSE
  BY SectorAssumption DEF FatInv, FatTyped, CardTyped
<1> QED BY <1>1, SwapKeeps DEF CardIn

-----------------------------------------------------------------------------
(* Transfers.                                                              *)

LEMMA Multiples ==
  ASSUME NEW S \in Nat \ {0}, NEW a \in Nat, NEW b \in Nat, a % S = 0
  PROVE  /\ b % S = 0 => (a + b) % S = 0
         /\ (b * a) % S = 0
         /\ b % S = 0 /\ b < a => a - b >= S
<1> DEFINE q == a \div S
           d == b \div S
<1>1. q \in Nat /\ a = q * S + 0
  BY DivMod
<1>2. d \in Nat /\ (b % S = 0 => b = d * S + 0)
  BY DivMod
<1>3. b % S = 0 => (a + b) % S = 0
  BY AtMultiple
<1> HIDE DEF q, d
<1>4. (b * a) % S = 0
  <2>1. b * a = (b * q) * S /\ b * q \in Nat
    BY <1>1, SMT
  <2>2. ((b * q) * S) % S = 0
    BY <2>1, MultipleOf
  <2> QED BY <2>1, <2>2
<1>5. ASSUME b % S = 0, b < a PROVE a - b >= S
  <2>1. a - b = (q - d) * S
    BY <1>1, <1>2, <1>5, SMT
  <2>2. ~(q <= d)
    <3>1. q <= d => q * S <= d * S
      BY <1>1, <1>2, MulMono
    <3>2. q * S \in Int /\ d * S \in Int
      BY <1>1, <1>2, SMT
    <3> QED BY <1>1, <1>2, <1>5, <3>1, <3>2, SMT
  <2>3. q - d >= 1
    BY <1>1, <1>2, <2>2, SMT
  <2>4. (q - d) * S >= S
    BY <1>1, <1>2, <2>3, MulGe
  <2> QED BY <2>1, <2>4
<1> QED BY <1>3, <1>4, <1>5

\* A turn of the loop begins with a sector, and the odd bytes are the file's last.
LEMMA AtHead ==
  ASSUME FatInv, pc = "transfer", btr > 0
  PROVE  /\ Target = req.blk * BLOCK /\ Target \in Nat /\ file1.fptr = Target + br
         /\ file1.fptr % SS = 0 /\ br % SS = 0 /\ file1.fptr + btr <= file1.fsize
         /\ br + btr <= BLOCK /\ br + btr = Share
         /\ btr < SS => file1.fptr + btr = file1.fsize
<1>1. /\ SS \in Nat \ {0} /\ BLOCK \in Nat \ {0} /\ BLOCK % SS = 0
  BY Sizes
<1>2. /\ req.blk \in Nat /\ br \in Nat /\ btr \in Nat /\ file1.fsize \in Nat /\ FatTyped
  BY <1>1 DEF FatInv, FatTyped, ReqTyped, FileTyped
<1>3. file1.fptr = Target + br /\ br + btr = Share /\ br % SS = 0
  BY DEF FatInv, CountInv
<1>4. Target \in Nat /\ Target <= file1.fsize /\ (Target # file1.fsize => Target = req.blk * BLOCK)
  BY <1>2, ClipIs DEF Target
<1>5. Share = IF BLOCK <= file1.fsize - Target THEN BLOCK ELSE file1.fsize - Target
  BY <1>1, <1>2, <1>4, MinOfTwo DEF Share
<1>6. Target # file1.fsize
  BY <1>1, <1>2, <1>3, <1>4, <1>5
<1>7. Target = req.blk * BLOCK
  BY <1>4, <1>6
<1>8. (req.blk * BLOCK) % SS = 0
  BY <1>1, <1>2, Multiples
<1>9. (Target + br) % SS = 0
  BY <1>1, <1>2, <1>3, <1>4, <1>7, <1>8, Multiples
<1>10. btr < SS => file1.fptr + btr = file1.fsize
  <2>1. br < BLOCK => BLOCK - br >= SS
    BY <1>1, <1>2, <1>3, Multiples
  <2> DEFINE F == file1.fsize
             P == file1.fptr
             T == Target
             H == Share
  <2>2. /\ F \in Nat /\ T \in Nat /\ br \in Nat /\ btr \in Nat /\ BLOCK \in Nat /\ SS \in Nat
        /\ P = T + br /\ br + btr = H /\ (H = BLOCK \/ H = F - T)
    BY <1>1, <1>2, <1>3, <1>4, <1>5
  <2> HIDE DEF F, P, T, H
  <2>3. CASE H = BLOCK
    BY <2>1, <2>2, <2>3, SMT
  <2>4. CASE H = F - T
    <3>1. P + btr = F
      BY <2>2, <2>4, SMT
    <3> QED BY <3>1 DEF P, F
  <2> QED BY <2>2, <2>3, <2>4
<1>11. file1.fptr + btr <= file1.fsize /\ br + btr <= BLOCK
  BY <1>1, <1>2, <1>3, <1>4, <1>5
<1> QED BY <1>3, <1>4, <1>7, <1>9, <1>10, <1>11

\* file1, set to sector h of the file.
SetTo(c, f, h) ==
  [file1 EXCEPT !.curr_sect = FileSector(c, f, h), !.curr_clust = Chain[c][f][h \div Spc(c) + 1],
                !.sect_clust = Spc(c) - (h % Spc(c))]

LEMMA SetToTyped ==
  ASSUME FileTyped, NEW c \in Cards, NEW f \in Files, NEW h, Within(c, f, h)
  PROVE  LET fp == SetTo(c, f, h)
         IN /\ fp \in [id : 0..(ID_MOD - 1), error : BOOLEAN, fptr : Nat, fsize : Nat, org_clust : Nat,
                       curr_clust : Nat, curr_sect : Int, sect_clust : 1..128]
            /\ fp.fptr = file1.fptr /\ fp.fsize = file1.fsize /\ fp.org_clust = file1.org_clust
            /\ fp.curr_sect = FileSector(c, f, h)
            /\ fp.curr_clust = Chain[c][f][h \div Spc(c) + 1]
            /\ fp.sect_clust = Spc(c) - (h % Spc(c))
<1> DEFINE s == FileSector(c, f, h)
           x == Chain[c][f][(h \div Spc(c)) + 1]
           t == h % Spc(c)
           b == Spc(c) - t
<1>1. x \in 2..(Volume[c].max_clust - 1) /\ t \in 0..(Spc(c) - 1)
  BY ClusterOf
<1>2. Spc(c) \in 1..128 /\ Volume[c].max_clust \in Nat
  BY Sizes
<1>3. s \in Int
  BY SectorType
<1> HIDE DEF s, x, t
<1>4. x \in Nat
  BY <1>1, <1>2
<1>5. b \in 1..128
  BY <1>1, <1>2, SMT
<1> HIDE DEF b
<1>6. file1 \in [id : 0..(ID_MOD - 1), error : BOOLEAN, fptr : Nat, fsize : Nat, org_clust : Nat,
                 curr_clust : Nat, curr_sect : Int, sect_clust : Byte]
  BY DEF FileTyped
<1> DEFINE fp == [file1 EXCEPT !.curr_sect = s, !.curr_clust = x, !.sect_clust = b]
<1>7. /\ fp \in [id : 0..(ID_MOD - 1), error : BOOLEAN, fptr : Nat, fsize : Nat, org_clust : Nat,
                 curr_clust : Nat, curr_sect : Int, sect_clust : 1..128]
      /\ fp.fptr = file1.fptr /\ fp.fsize = file1.fsize /\ fp.org_clust = file1.org_clust
      /\ fp.curr_sect = s /\ fp.curr_clust = x /\ fp.sect_clust = b
  BY <1>3, <1>4, <1>5, <1>6
<1>8. fp = SetTo(c, f, h)
  BY DEF SetTo, s, x, t, b
<1> HIDE DEF fp
<1> QED BY <1>7, <1>8 DEF s, x, t, b

\* Sector h follows the one in which the byte before it is.
LEMMA SectorBefore ==
  ASSUME NEW p \in Nat \ {0}, p % SS = 0
  PROVE  p \div SS \in Nat \ {0} /\ (p - 1) \div SS = (p \div SS) - 1
<1>1. SS \in Nat \ {0}
  BY Sizes
<1> DEFINE h == p \div SS
<1>2. h \in Nat /\ p = h * SS + 0
  BY <1>1, DivMod
<1> HIDE DEF h
<1>3. h # 0
  <2>1. h = 0 => h * SS = 0
    BY <1>1, SMT
  <2> QED BY <1>2, <2>1, SMT
<1>4. p - 1 = (h - 1) * SS + (SS - 1)
  <2>1. (h - 1) * SS = h * SS - SS /\ h * SS \in Int
    BY <1>1, <1>2, SMT
  <2> QED BY <1>1, <1>2, <2>1, SMT
<1>5. h - 1 \in Nat /\ SS - 1 \in 0..(SS - 1)
  BY <1>1, <1>2, <1>3, SMT
<1>6. ((h - 1) * SS + (SS - 1)) \div SS = h - 1
  <2> DEFINE g == h - 1
             r == SS - 1
  <2>1. g \in Nat /\ r \in 0..(SS - 1)
    BY <1>5
  <2> HIDE DEF g, r
  <2>2. (g * SS + r) \div SS = g
    BY <1>1, <2>1, DivIs
  <2> QED BY <2>2 DEF g, r
<1>7. h \in Nat \ {0} /\ (p - 1) \div SS = h - 1
  BY <1>2, <1>3, <1>4, <1>6
<1> QED BY <1>7 DEF h

LEMMA NextIsSector ==
  ASSUME FatInv, pc = "transfer", btr > 0, NEW c \in Cards, NEW f \in Files, Serves(c, f),
         NEW w, Shows(w, c)
  PROVE  LET n == NextSector(w)
             h == file1.fptr \div SS
         IN /\ Within(c, f, h) /\ FileSector(c, f, h) \in DOMAIN Contents[c]
            /\ Shows(n.w, c) /\ Accesses(w, n.w, Meta(c)) /\ n.ok \in BOOLEAN
            /\ n.fp = IF n.ok THEN SetTo(c, f, h) ELSE [file1 EXCEPT !.sect_clust = 0]
<1> DEFINE h == file1.fptr \div SS
           fp == [file1 EXCEPT !.sect_clust = @ - 1]
           n == NextSector(w)
<1>1. /\ FatTyped /\ MetaKept
      /\ file1 \in [id : 0..(ID_MOD - 1), error : BOOLEAN, fptr : Nat, fsize : Nat, org_clust : Nat,
                    curr_clust : Nat, curr_sect : Int, sect_clust : Byte]
  BY DEF FatInv, FatTyped, FileTyped
<1>2. /\ file1.fptr % SS = 0 /\ file1.fptr + btr <= file1.fsize /\ btr \in Nat
  BY <1>1, AtHead DEF FatTyped, ReqTyped
<1>3. file1.fptr < Size[c][f] /\ file1.fptr \in Nat
  BY <1>1, <1>2 DEF Serves
<1>4. Within(c, f, h) /\ FileSector(c, f, h) \in DOMAIN Contents[c]
  BY <1>3, InFile
<1>5. /\ (h \div Spc(c)) + 1 \in 1..Len(Chain[c][f])
      /\ Chain[c][f][(h \div Spc(c)) + 1] \in 2..(Volume[c].max_clust - 1)
  BY <1>4, ClusterOf
<1>6. fs.vol = Volume[c] /\ On(c) /\ file1.org_clust = Chain[c][f][1] /\ Card = c /\ File = f
  BY DEF Serves, On, Card, File
<1>7. \A x : InUse(x) <=> x \in 2..(Volume[c].max_clust - 1)
  BY <1>6 DEF InUse
<1>8. \A x \in 2..(Volume[c].max_clust - 1) : clust2sect(x) = ClusterSector(c, x)
  BY <1>6, <1>7 DEF clust2sect, ClusterSector
<1>9. Spc(c) \in 1..128 /\ Volume[c].max_clust \in Nat /\ fs.vol.sects_clust = Spc(c)
  BY <1>6, Sizes DEF Spc
<1>9a. Spc(c) \in Nat \ {0}
  <2> DEFINE n0 == Spc(c)
  <2>1. n0 \in 1..128
    BY <1>9
  <2> HIDE DEF n0
  <2>2. n0 \in Nat \ {0}
    BY <2>1, SMT
  <2> QED BY <2>2 DEF n0
<1>10. Accesses(w, w, Meta(c))
  BY DEF Accesses
<1> HIDE DEF h
<1>11. CASE file1.fptr = 0
  <2>1. file1.sect_clust = 1
    BY <1>11 DEF FatInv, Positioned
  <2>2. fp.sect_clust = 0
    BY <1>1, <2>1
  <2>3. h \div Spc(c) = 0 /\ h % Spc(c) = 0
    <3>1. h = 0
      <4>1. SS \in Nat \ {0}
        BY Sizes
      <4> QED BY <1>11, <4>1, SMT DEF h
    <3> QED BY <1>9, <3>1, SMT
  <2>4. Chain[c][f][(h \div Spc(c)) + 1] = file1.org_clust /\ InUse(file1.org_clust)
    <3>1. (h \div Spc(c)) + 1 = 1
      BY <2>3
    <3>2. Chain[c][f][1] \in 2..(Volume[c].max_clust - 1)
      BY <1>5, <3>1
    <3> QED BY <1>6, <1>7, <3>1, <3>2
  <2>5. n = [w |-> w, ok |-> TRUE,
             fp |-> [fp EXCEPT !.curr_clust = file1.org_clust,
                               !.curr_sect = clust2sect(file1.org_clust),
                               !.sect_clust = fs.vol.sects_clust]]
    BY <1>2, <1>11, <2>2, <2>4 DEF NextSector
  <2>6. clust2sect(file1.org_clust) = ClusterSector(c, file1.org_clust)
    BY <1>7, <1>8, <2>4
  <2>7. FileSector(c, f, h) = ClusterSector(c, file1.org_clust)
    <3>1. ClusterSector(c, file1.org_clust) \in Int
      <4>1. FileSector(c, f, h) = ClusterSector(c, file1.org_clust) + 0
        BY <2>3, <2>4 DEF FileSector
      <4>2. Volume[c].database \in Int /\ Spc(c) \in Int /\ file1.org_clust - 2 \in Int
        BY <1>1, <1>9, Sizes
      <4>3. (file1.org_clust - 2) * Spc(c) \in Int
        BY <4>2, SMT
      <4> QED BY <4>2, <4>3, SMT DEF ClusterSector, Spc
    <3> QED BY <2>3, <2>4, <3>1 DEF FileSector
  <2>8. Spc(c) - (h % Spc(c)) = Spc(c)
    BY <1>9, <2>3
  <2>9. SetTo(c, f, h) = [file1 EXCEPT !.curr_sect = ClusterSector(c, file1.org_clust),
                                       !.curr_clust = file1.org_clust, !.sect_clust = Spc(c)]
    BY <2>4, <2>7, <2>8 DEF SetTo
  <2>10. n.fp = SetTo(c, f, h)
    <3> DEFINE y == file1.org_clust
               S == ClusterSector(c, y)
               B == Spc(c)
    <3>1. n.fp = [fp EXCEPT !.curr_clust = y, !.curr_sect = S, !.sect_clust = B]
      <4>1. n.fp = [fp EXCEPT !.curr_clust = y, !.curr_sect = clust2sect(y),
                              !.sect_clust = fs.vol.sects_clust]
        <5> HIDE DEF fp
        <5> QED BY <2>5
      <4>2. clust2sect(y) = S /\ fs.vol.sects_clust = B
        BY <1>9, <2>6
      <4> QED BY <4>1, <4>2, Zenon
    <3>2. SetTo(c, f, h) = [file1 EXCEPT !.curr_sect = S, !.curr_clust = y, !.sect_clust = B]
      BY <2>9
    <3> HIDE DEF n, y, S, B
    <3>3. [fp EXCEPT !.curr_clust = y, !.curr_sect = S, !.sect_clust = B]
            = [file1 EXCEPT !.curr_sect = S, !.curr_clust = y, !.sect_clust = B]
      BY <1>1
    <3> QED BY <3>1, <3>2, <3>3
  <2>11. n.ok = TRUE /\ n.w = w
    BY <2>5
  <2> HIDE DEF n
  <2> QED BY <1>4, <1>10, <2>10, <2>11 DEF n, h
<1>12. CASE file1.fptr # 0
  <2> DEFINE g == (file1.fptr - 1) \div SS
             t == g % Spc(c)
  <2>1. h \in Nat \ {0} /\ g = h - 1
    BY <1>2, <1>3, <1>12, SectorBefore DEF h
  <2>2. AtSector(c, f, g)
    BY <1>6, <1>12 DEF FatInv, Positioned
  <2>3. g \in Nat /\ g + 1 = h
    BY <2>1
  <2> HIDE DEF g
  <2>4. t \in 0..(Spc(c) - 1) /\ g \div Spc(c) \in Nat
    BY <1>9a, <2>3, DivMod
  <2>5. file1.sect_clust = Spc(c) - t /\ fp.sect_clust = Spc(c) - t - 1
    BY <1>1, <2>2 DEF AtSector
  <2> DEFINE x == Chain[c][f][(g \div Spc(c)) + 1]
  <2>6. file1.curr_clust = x /\ file1.curr_sect = ClusterSector(c, x) + t
    BY <2>2 DEF AtSector, FileSector
  <2>7. CASE t # Spc(c) - 1
    <3>1. fp.sect_clust # 0
      <4> HIDE DEF t
      <4> QED BY <1>9, <2>4, <2>5, <2>7, SMT
    <3>2. n = [w |-> w, fp |-> [fp EXCEPT !.curr_sect = @ + 1], ok |-> TRUE]
      BY <1>2, <3>1 DEF NextSector
    <3>3. h \div Spc(c) = g \div Spc(c) /\ h % Spc(c) = t + 1
      <4>1. t + 1 < Spc(c)
        <5> HIDE DEF t
        <5> QED BY <1>9, <2>4, <2>7, SMT
      <4>2. (g + 1) \div Spc(c) = g \div Spc(c) /\ (g + 1) % Spc(c) = (g % Spc(c)) + 1
        BY <1>9a, <2>3, <4>1, Along
      <4> QED BY <2>3, <4>2
    <3>4. FileSector(c, f, h) = ClusterSector(c, x) + (t + 1)
      BY <3>3 DEF FileSector
    <3>5. SetTo(c, f, h) = [file1 EXCEPT !.curr_sect = ClusterSector(c, x) + (t + 1),
                                         !.curr_clust = x, !.sect_clust = Spc(c) - (t + 1)]
      BY <3>3, <3>4 DEF SetTo
    <3>6. ClusterSector(c, x) \in Int
      <4>1. x \in Nat
        BY <1>1, <2>6
      <4>2. Volume[c].database \in Int /\ Spc(c) \in Int /\ x - 2 \in Int
        BY <1>9, <4>1, Sizes
      <4> HIDE DEF x
      <4>3. (x - 2) * Spc(c) \in Int
        BY <4>2, SMT
      <4> QED BY <4>2, <4>3, SMT DEF ClusterSector, Spc
    <3> DEFINE S == ClusterSector(c, x)
    <3>7. S \in Int /\ file1.curr_sect = S + t /\ t \in Int
      BY <2>4, <2>6, <3>6
    <3> HIDE DEF S, x, t
    <3>8. n.fp = [file1 EXCEPT !.sect_clust = Spc(c) - t - 1, !.curr_sect = (S + t) + 1]
      <4> DEFINE b == Spc(c) - t - 1
                 u == S + t
      <4>1. file1.sect_clust - 1 = b
        BY <1>1, <2>5
      <4>2. file1.curr_sect = u
        BY <3>7
      <4>3. n.fp = [fp EXCEPT !.curr_sect = @ + 1]
        BY <3>2
      <4> HIDE DEF n, b, u
      <4>4. [fp EXCEPT !.curr_sect = @ + 1] = [file1 EXCEPT !.sect_clust = b, !.curr_sect = u + 1]
        BY <1>1, <4>1, <4>2
      <4> QED BY <4>3, <4>4 DEF b, u
    <3>9. SetTo(c, f, h) = [file1 EXCEPT !.sect_clust = Spc(c) - t - 1, !.curr_sect = (S + t) + 1]
      <4>1. S + (t + 1) = (S + t) + 1 /\ Spc(c) - (t + 1) = Spc(c) - t - 1
        BY <1>9, <3>7, SMT
      <4>2. SetTo(c, f, h) = [file1 EXCEPT !.curr_sect = (S + t) + 1,
                                           !.curr_clust = x, !.sect_clust = Spc(c) - t - 1]
        BY <3>5, <4>1 DEF S
      <4> QED BY <1>1, <2>6, <4>2
    <3>10. n.fp = SetTo(c, f, h) /\ n.ok = TRUE /\ n.w = w
      BY <3>2, <3>8, <3>9
    <3> HIDE DEF n
    <3> QED BY <1>4, <1>10, <3>10 DEF n, h
  <2>8. CASE t = Spc(c) - 1
    <3> DEFINE i == (g \div Spc(c)) + 1
               got == get_cluster(w, x)
    <3>1. fp.sect_clust = 0
      <4> HIDE DEF t
      <4> QED BY <1>9, <2>5, <2>8, SMT
    <3>2. h \div Spc(c) = i /\ h % Spc(c) = 0
      <4>1. (g + 1) \div Spc(c) = (g \div Spc(c)) + 1 /\ (g + 1) % Spc(c) = 0
        BY <1>9a, <2>3, <2>8, NextRow
      <4> QED BY <2>3, <4>1
    <3>3. Len(Chain[c][f]) \in Nat /\ i \in Nat \ {0}
      BY <2>4, Chained
    <3>4. i \in 1..(Len(Chain[c][f]) - 1) /\ Chain[c][f][i + 1] \in 2..(Volume[c].max_clust - 1)
      <4>1. i + 1 \in 1..Len(Chain[c][f]) /\ Chain[c][f][i + 1] \in 2..(Volume[c].max_clust - 1)
        BY <1>5, <3>2
      <4> HIDE DEF i
      <4> QED BY <3>3, <4>1
    <3>5. /\ Shows(got.w, c) /\ Accesses(w, got.w, Meta(c))
          /\ got.clust = (IF got.w.ok THEN Chain[c][f][i + 1] ELSE 1)
      <4>1. x = Chain[c][f][i]
        OBVIOUS
      <4> HIDE DEF i, x
      <4> QED BY <1>1, <1>6, <3>4, <4>1, LinkShows
    <3>6. n = IF ~InUse(got.clust) THEN [w |-> got.w, fp |-> fp, ok |-> FALSE]
              ELSE [w |-> got.w, ok |-> TRUE,
                    fp |-> [fp EXCEPT !.curr_clust = got.clust, !.curr_sect = clust2sect(got.clust),
                                      !.sect_clust = fs.vol.sects_clust]]
      BY <1>2, <1>12, <2>6, <3>1, Zenon DEF NextSector
    <3> HIDE DEF got, x, t, i
    <3>7. CASE got.w.ok
      <4> DEFINE y == Chain[c][f][i + 1]
      <4>1. got.clust = y /\ InUse(y) /\ clust2sect(y) = ClusterSector(c, y)
        BY <1>7, <1>8, <3>4, <3>5, <3>7
      <4>2. n.fp = [fp EXCEPT !.curr_clust = y, !.curr_sect = ClusterSector(c, y), !.sect_clust = Spc(c)]
            /\ n.ok = TRUE /\ n.w = got.w
        BY <1>9, <3>6, <4>1
      <4>3. FileSector(c, f, h) = ClusterSector(c, y) + 0 /\ Chain[c][f][(h \div Spc(c)) + 1] = y
        BY <3>2 DEF FileSector
      <4>4. ClusterSector(c, y) + 0 = ClusterSector(c, y)
        <5>1. y \in Int /\ Volume[c].database \in Int /\ Spc(c) \in Int
          <6>1. y \in Int
            BY <1>9, <3>4
          <6>2. Volume[c].database \in Int
            BY Sizes
          <6> QED BY <1>9, <6>1, <6>2
        <5> HIDE DEF y
        <5>2. (y - 2) * Spc(c) \in Int
          BY <5>1, SMT
        <5>3. ClusterSector(c, y) \in Int
          BY <5>1, <5>2, SMT DEF ClusterSector, Spc
        <5> QED BY <5>3
      <4>5. Spc(c) - (h % Spc(c)) = Spc(c)
        BY <1>9, <3>2
      <4> HIDE DEF y
      <4>6. SetTo(c, f, h) = [file1 EXCEPT !.curr_sect = ClusterSector(c, y), !.curr_clust = y,
                                           !.sect_clust = Spc(c)]
        BY <4>3, <4>4, <4>5 DEF SetTo
      <4>7. n.fp = SetTo(c, f, h) /\ n.ok = TRUE /\ n.w = got.w
        BY <1>1, <4>2, <4>6
      <4> HIDE DEF n
      <4> QED BY <1>4, <3>5, <4>7 DEF n, h
    <3>8. CASE ~got.w.ok
      <4>1. ~InUse(got.clust)
        BY <1>7, <1>9, <3>5, <3>8
      <4>2. n.w = got.w /\ n.fp = fp /\ n.ok = FALSE
        BY <3>6, <4>1
      <4>3. fp = [file1 EXCEPT !.sect_clust = 0]
        BY <1>1, <3>1
      <4> HIDE DEF n, fp
      <4> QED BY <1>4, <3>5, <4>2, <4>3 DEF n, h
    <3> QED BY <3>7, <3>8
  <2> QED BY <2>7, <2>8
<1> QED BY <1>11, <1>12

\* A run of m sectors from sector h on, in one cluster and in the file.
IsRun(c, f, h, m) ==
  /\ Within(c, f, h) /\ m \in Nat \ {0} /\ (h % Spc(c)) + m <= Spc(c)
  /\ h * SS + m * SS <= Size[c][f]

LEMMA RunIs ==
  ASSUME NEW c \in Cards, NEW f \in Files, NEW h, NEW m, IsRun(c, f, h, m), NEW j \in 0..(m - 1)
  PROVE  /\ FileSector(c, f, h + j) = FileSector(c, f, h) + j
         /\ Whole(c, f, h + j)
         /\ (h + j) \div Spc(c) = h \div Spc(c) /\ (h + j) % Spc(c) = (h % Spc(c)) + j
<1>1. h \in Nat /\ m \in Nat \ {0} /\ j \in Nat /\ j < m
  BY DEF IsRun, Within
<1>2. Spc(c) \in Nat \ {0} /\ SS \in Nat \ {0}
  BY Sizes, SMT
<1>3. h % Spc(c) \in 0..(Spc(c) - 1)
  BY <1>1, <1>2, DivMod
<1>4. (h % Spc(c)) + j < Spc(c)
  <2> DEFINE t == h % Spc(c)
             n == Spc(c)
  <2>1. t + m <= n /\ t \in Int /\ n \in Int
    BY <1>2, <1>3 DEF IsRun
  <2> HIDE DEF t, n
  <2>2. t + j < n
    BY <1>1, <2>1, SMT
  <2> QED BY <2>2 DEF t, n
<1>5. (h + j) \div Spc(c) = h \div Spc(c) /\ (h + j) % Spc(c) = (h % Spc(c)) + j
  BY <1>1, <1>2, <1>4, Along
<1>6. FileSector(c, f, h + j) = FileSector(c, f, h) + j
  <2> DEFINE S == ClusterSector(c, Chain[c][f][(h \div Spc(c)) + 1])
             t == h % Spc(c)
  <2>1. FileSector(c, f, h) = S + t /\ FileSector(c, f, h + j) = S + (t + j)
    BY <1>5 DEF FileSector
  <2>2. S \in Int
    <3> DEFINE x == Chain[c][f][(h \div Spc(c)) + 1]
    <3>1. x \in 2..(Volume[c].max_clust - 1) /\ Volume[c].max_clust \in Nat
      BY Sizes, ClusterOf DEF IsRun
    <3>2. Volume[c].database \in Int
      BY Sizes
    <3> HIDE DEF x
    <3>3. x - 2 \in Int
      BY <3>1, SMT
    <3>4. (x - 2) * Spc(c) \in Int
      BY <1>2, <3>3, SMT
    <3>5. ClusterSector(c, x) \in Int
      BY <3>2, <3>4, SMT DEF ClusterSector, Spc
    <3> QED BY <3>5 DEF x
  <2>3. t \in Int
    BY <1>2, <1>3
  <2> HIDE DEF S, t
  <2>4. S + (t + j) = (S + t) + j
    BY <1>1, <2>2, <2>3, SMT
  <2> QED BY <2>1, <2>4
<1>7. Whole(c, f, h + j)
  <2>1. (h + j + 1) * SS <= (h + m) * SS
    BY <1>1, <1>2, MulMono, SMT
  <2>2. (h + m) * SS = h * SS + m * SS
    BY <1>1, <1>2, SMT
  <2>3. h * SS \in Int /\ m * SS \in Int /\ (h + j + 1) * SS \in Int /\ Size[c][f] \in Int
    BY <1>1, <1>2, Chained, SMT
  <2> DEFINE A == (h + j + 1) * SS
             B == (h + m) * SS
  <2>4. A <= B /\ B <= Size[c][f] /\ A \in Int /\ B \in Int
    BY <2>1, <2>2, <2>3 DEF IsRun
  <2> HIDE DEF A, B
  <2>5. A <= Size[c][f]
    BY <2>3, <2>4, SMT
  <2>6. (h + j + 1) * SS <= Size[c][f]
    BY <2>5 DEF A
  <2>7. h + j \in Nat
    BY <1>1
  <2> QED BY <2>6, <2>7 DEF Whole
<1> QED BY <1>5, <1>6, <1>7

\* Byte i of a run that begins with byte b of a request for the bytes from t on.
LEMMA ByteAt ==
  ASSUME NEW c \in Cards, NEW f \in Files, NEW t \in Nat, NEW b \in Nat, (t + b) % SS = 0,
         NEW h, h = (t + b) \div SS, NEW m, IsRun(c, f, h, m),
         NEW i \in Nat, b <= i, i < b + m * SS
  PROVE  LET j == (i - b) \div SS
             x == (i - b) % SS
         IN /\ j \in 0..(m - 1) /\ x \in Offsets /\ i = b + j * SS + x
            /\ Place(c, f, t + i) = <<FileSector(c, f, h) + j, x>>
<1> DEFINE k == i - b
           j == k \div SS
           x == k % SS
           a == t + b
<1>1. k \in Nat /\ SS \in Nat \ {0} /\ m \in Nat \ {0} /\ a \in Nat /\ h \in Nat
  <2>1. SS \in Nat \ {0} /\ m \in Nat \ {0} /\ h \in Nat
    BY Sizes, Zenon DEF IsRun, Within
  <2>2. k \in Nat /\ a \in Nat
    OBVIOUS
  <2> QED BY <2>1, <2>2
<1>2. j \in Nat /\ x \in 0..(SS - 1) /\ k = j * SS + x
  BY <1>1, DivMod
<1>3. m * SS \in Nat
  BY <1>1, SMT
<1>4. k < m * SS
  BY <1>3
<1>5. j < m
  BY <1>1, <1>4, RowOf
<1>6. (a + k) \div SS = h + j /\ (a + k) % SS = x
  <2>1. a % SS = 0 /\ a \div SS = h
    OBVIOUS
  <2>2. a \in Nat /\ k \in Nat /\ SS \in Nat \ {0}
    BY <1>1
  <2> HIDE DEF a, k
  <2>3. (a + k) \div SS = (a \div SS) + (k \div SS) /\ (a + k) % SS = k % SS
    BY <2>1, <2>2, AtMultiple
  <2> QED BY <2>1, <2>3
<1>7. t + i = a + k
  BY SMT
<1>8. i = b + j * SS + x
  <2>1. j * SS \in Nat
    BY <1>1, <1>2, SMT
  <2>2. i = b + k
    BY SMT
  <2> HIDE DEF k, j, x
  <2> DEFINE A == j * SS
  <2>3. A \in Nat /\ k = A + x /\ x \in Int
    BY <1>1, <1>2, <2>1
  <2> HIDE DEF A
  <2>4. i = b + A + x
    BY <2>2, <2>3, SMT
  <2> QED BY <2>4 DEF A
<1>9. j \in 0..(m - 1)
  <2> HIDE DEF j
  <2> QED BY <1>1, <1>2, <1>5, SMT
<1>10. FileSector(c, f, h + j) = FileSector(c, f, h) + j
  <2> HIDE DEF j
  <2> QED BY <1>9, RunIs
<1>11. Place(c, f, t + i) = <<FileSector(c, f, h) + j, x>>
  <2>1. t + i \in Nat
    BY SMT
  <2>2. Place(c, f, t + i) = <<FileSector(c, f, (t + i) \div SS), (t + i) % SS>>
    BY <2>1, PlaceIs
  <2>3. (t + i) \div SS = h + j /\ (t + i) % SS = x
    BY <1>6, <1>7
  <2> HIDE DEF j, x
  <2> QED BY <1>10, <2>2, <2>3
<1> QED BY <1>2, <1>8, <1>9, <1>11 DEF Offsets

\* The bytes before a run are in other sectors.
LEMMA ByteBefore ==
  ASSUME NEW c \in Cards, NEW f \in Files, NEW p \in Nat, NEW h, NEW m, IsRun(c, f, h, m),
         p < h * SS
  PROVE  /\ Place(c, f, p) = <<FileSector(c, f, p \div SS), p % SS>>
         /\ FileSector(c, f, p \div SS) \in DOMAIN Contents[c] /\ p % SS \in Offsets
         /\ \A j \in 0..(m - 1) : FileSector(c, f, p \div SS) # FileSector(c, f, h) + j
<1>1. h \in Nat /\ m \in Nat \ {0} /\ SS \in Nat \ {0}
  BY Sizes DEF IsRun, Within
<1>2. h * SS \in Nat /\ m * SS \in Nat /\ Size[c][f] \in Nat /\ h * SS + m * SS <= Size[c][f]
  BY <1>1, Chained, SMT DEF IsRun
<1>3. p < Size[c][f]
  <2> DEFINE A == h * SS
             B == m * SS
  <2>1. A \in Nat /\ B \in Nat /\ A + B <= Size[c][f] /\ p < A
    BY <1>2
  <2> HIDE DEF A, B
  <2> QED BY <1>2, <2>1, SMT
<1>4. Within(c, f, p \div SS) /\ FileSector(c, f, p \div SS) \in DOMAIN Contents[c]
  BY <1>3, InFile
<1>5. p \div SS < h /\ p % SS \in Offsets
  BY <1>1, RowOf, DivMod DEF Offsets
<1>6. ASSUME NEW j \in 0..(m - 1), FileSector(c, f, p \div SS) = FileSector(c, f, h) + j PROVE FALSE
  <2>1. Within(c, f, h + j) /\ FileSector(c, f, h + j) = FileSector(c, f, h) + j
    BY <1>6, RunIs, WholeIs
  <2>2. p \div SS = h + j
    BY <1>4, <1>6, <2>1, OneSector
  <2>3. j \in Nat
    BY <1>1, <1>6
  <2>4. p \div SS \in Int
    BY <1>1, DivMod
  <2> QED BY <1>1, <1>5, <2>2, <2>3, <2>4
<1> QED BY <1>4, <1>5, <1>6, PlaceIs

\* Byte x of sector j of a run.
LEMMA SlotIs ==
  ASSUME NEW b \in Nat, NEW d \in Nat \ {0}, NEW j \in 0..(d - 1), NEW x \in Offsets
  PROVE  LET i == b + j * SS + x
         IN i \in Nat /\ b <= i /\ i < b + d * SS /\ (i - b) \div SS = j /\ (i - b) % SS = x
<1> DEFINE A == j * SS
           i == b + A + x
<1>1. SS \in Nat \ {0} /\ j \in Nat /\ x \in 0..(SS - 1)
  BY Sizes DEF Offsets
<1>2. (A + x) \div SS = j /\ (A + x) % SS = x
  BY <1>1, DivIs
<1>3. A \in Nat /\ d * SS \in Nat
  BY <1>1, SMT
<1>4. A + SS <= d * SS
  <2>1. (j + 1) * SS <= d * SS
    BY <1>1, MulMono, SMT
  <2>2. (j + 1) * SS = A + SS
    BY <1>1, SMT
  <2> QED BY <2>1, <2>2
<1> DEFINE D == d * SS
<1>5. A + SS <= D /\ D \in Nat
  BY <1>3, <1>4
<1> HIDE DEF A, D
<1>6. i \in Nat /\ b <= i /\ i < b + D /\ i - b = A + x
  BY <1>1, <1>3, <1>5, SMT
<1>7. (i - b) \div SS = j /\ (i - b) % SS = x
  BY <1>2, <1>6
<1> QED BY <1>6, <1>7 DEF A, D

\* What is moved at once is a run of the file.
LEMMA RunHere ==
  ASSUME FatInv, pc = "transfer", btr >= SS, NEW c \in Cards, NEW f \in Files, Serves(c, f)
  PROVE  LET h == file1.fptr \div SS
             m == Run(SetTo(c, f, h))
         IN /\ m \in Nat \ {0} /\ m * SS <= btr
            /\ \A d \in 1..m : IsRun(c, f, h, d) /\ d * SS <= btr
<1>1. SS \in Nat \ {0} /\ btr \in Nat /\ FatTyped /\ FileTyped
  BY Sizes DEF FatInv, FatTyped, ReqTyped
<1>2. btr > 0
  BY <1>1
<1>3. file1.fptr % SS = 0 /\ file1.fptr + btr <= Size[c][f] /\ file1.fptr \in Nat
  BY <1>1, <1>2, AtHead DEF Serves, FileTyped
<1>4. Size[c][f] \in Nat
  BY Chained
<1> DEFINE h == file1.fptr \div SS
           e == btr \div SS
<1>5. h \in Nat /\ file1.fptr = h * SS + 0
  BY <1>1, <1>3, DivMod
<1>6. Within(c, f, h)
  BY <1>1, <1>2, <1>3, <1>4, InFile
<1>7. e \in Nat /\ btr = e * SS + (btr % SS) /\ btr % SS \in 0..(SS - 1)
  BY <1>1, DivMod
<1>8. e >= 1
  <2>1. 1 * SS = SS
    BY <1>1, SMT
  <2> QED BY <1>1, <2>1, RowOf
<1> HIDE DEF h, e
<1> DEFINE fp == SetTo(c, f, h)
<1>9. fp.sect_clust \in 1..128 /\ fp.sect_clust = Spc(c) - (h % Spc(c))
  BY <1>1, <1>6, SetToTyped
<1>10. Run(fp) = IF e <= fp.sect_clust THEN e ELSE fp.sect_clust
  <2> DEFINE z == fp.sect_clust
  <2>1. e \in Int /\ z \in Int
    BY <1>7, <1>9
  <2>2. Run(fp) = Min({e, z})
    BY DEF Run, e
  <2> HIDE DEF z
  <2>3. Min({e, z}) = IF e <= z THEN e ELSE z
    BY <2>1, MinOfTwo
  <2> QED BY <2>2, <2>3 DEF z
<1> DEFINE m == Run(fp)
           q == fp.sect_clust
<1>11. q \in 1..128 /\ q = Spc(c) - (h % Spc(c)) /\ m = (IF e <= q THEN e ELSE q)
  BY <1>9, <1>10
<1> HIDE DEF fp, m, q
<1>12. m \in Nat \ {0} /\ m <= e /\ m <= q
  BY <1>7, <1>8, <1>11
<1>13. h % Spc(c) \in Int /\ Spc(c) \in Int
  <2>1. Spc(c) \in Nat \ {0}
    BY Sizes, SMT
  <2>2. h % Spc(c) \in Nat
    BY <1>5, <2>1, DivMod
  <2> QED BY <2>1, <2>2
<1>14. ASSUME NEW d \in 1..m PROVE IsRun(c, f, h, d) /\ d * SS <= btr
  <2>1. d \in Nat \ {0} /\ d <= e /\ d <= q
    BY <1>7, <1>11, <1>12, <1>14
  <2> DEFINE D == d * SS
             E == e * SS
             H == h * SS
  <2>2. D <= E /\ D \in Nat /\ E \in Nat
    BY <1>1, <1>7, <2>1, MulMono
  <2>3. H \in Nat
    BY <1>1, <1>5, SMT
  <2>4. btr = E + (btr % SS)
    BY <1>7
  <2>5. file1.fptr = H
    BY <1>5, <2>3
  <2> HIDE DEF D, E, H
  <2>6. D <= btr
    BY <1>1, <1>7, <2>2, <2>4, SMT
  <2>7. H + D <= Size[c][f]
    BY <1>1, <1>3, <1>4, <2>2, <2>3, <2>5, <2>6, SMT
  <2>8. (h % Spc(c)) + d <= Spc(c)
    <3> DEFINE t == h % Spc(c)
               n == Spc(c)
    <3>1. t \in Int /\ n \in Int /\ d \in Int /\ q = n - t /\ d <= q
      BY <1>11, <1>13, <2>1
    <3> HIDE DEF t, n
    <3>2. t + d <= n
      BY <3>1, SMT
    <3> QED BY <3>2 DEF t, n
  <2> QED BY <1>6, <2>1, <2>6, <2>7, <2>8 DEF IsRun, D, H
<1>15. m * SS <= btr
  <2>1. m \in 1..m
    BY <1>12
  <2> QED BY <1>14, <2>1
<1>16. m \in Nat \ {0} /\ m * SS <= btr /\ \A d \in 1..m : IsRun(c, f, h, d) /\ d * SS <= btr
  BY <1>12, <1>14, <1>15
<1> QED BY <1>16 DEF m, fp, h

\* The same for a request's bytes.
LEMMA BytesOfRun ==
  ASSUME FatInv, pc = "transfer", btr > 0, NEW c \in Cards, NEW f \in Files, Serves(c, f),
         NEW h, h = file1.fptr \div SS, NEW d, IsRun(c, f, h, d)
  PROVE  /\ \A i \in Nat : br <= i /\ i < br + d * SS =>
              /\ (i - br) \div SS \in 0..(d - 1) /\ (i - br) % SS \in Offsets
              /\ i = br + ((i - br) \div SS) * SS + ((i - br) % SS)
              /\ At(i) = <<FileSector(c, f, h) + ((i - br) \div SS), (i - br) % SS>>
         /\ \A i \in 0..(BLOCK - 1) : i < br =>
              /\ At(i)[1] \in DOMAIN Contents[c] /\ At(i)[2] \in Offsets
              /\ \A j \in 0..(d - 1) : At(i)[1] # FileSector(c, f, h) + j
<1>1. /\ Target = req.blk * BLOCK /\ Target \in Nat /\ file1.fptr = Target + br
      /\ file1.fptr % SS = 0 /\ br \in Nat /\ SS \in Nat \ {0}
  BY AtHead, Sizes DEF FatInv, FatTyped, ReqTyped
<1>2. \A i : At(i) = Place(c, f, Target + i)
  BY <1>1 DEF At, Serves
<1>3. ASSUME NEW i \in Nat, br <= i, i < br + d * SS
      PROVE  /\ (i - br) \div SS \in 0..(d - 1) /\ (i - br) % SS \in Offsets
             /\ i = br + ((i - br) \div SS) * SS + ((i - br) % SS)
             /\ At(i) = <<FileSector(c, f, h) + ((i - br) \div SS), (i - br) % SS>>
  BY <1>1, <1>2, <1>3, ByteAt
<1>4. ASSUME NEW i \in 0..(BLOCK - 1), i < br
      PROVE  /\ At(i)[1] \in DOMAIN Contents[c] /\ At(i)[2] \in Offsets
             /\ \A j \in 0..(d - 1) : At(i)[1] # FileSector(c, f, h) + j
  <2>1. i \in Nat
    BY <1>4, Sizes
  <2> DEFINE p == Target + i
  <2>2. p \in Nat /\ p < file1.fptr
    BY <1>1, <1>4, <2>1
  <2>3. file1.fptr = h * SS
    <3>0. file1.fptr \in Nat
      BY <1>1
    <3>1. file1.fptr = (file1.fptr \div SS) * SS + (file1.fptr % SS) /\ file1.fptr \div SS \in Nat
      BY <1>1, <3>0, DivMod
    <3>2. h * SS \in Int
      BY <1>1, <3>1, SMT
    <3> QED BY <1>1, <3>1, <3>2
  <2>4. p < h * SS
    BY <2>2, <2>3
  <2> HIDE DEF p
  <2>5. /\ Place(c, f, p) = <<FileSector(c, f, p \div SS), p % SS>>
        /\ FileSector(c, f, p \div SS) \in DOMAIN Contents[c] /\ p % SS \in Offsets
        /\ \A j \in 0..(d - 1) : FileSector(c, f, p \div SS) # FileSector(c, f, h) + j
    BY <2>2, <2>4, ByteBefore
  <2>6. At(i) = Place(c, f, p)
    BY <1>2 DEF p
  <2> QED BY <2>5, <2>6
<1> QED BY <1>3, <1>4

\* d sectors of a run are written.
RunOn(c, f, h, d) ==
  /\ \A s \in DOMAIN Contents[c], j \in 0..(d - 1), x \in Offsets :
       s = FileSector(c, f, h) + j => medium'[c][s][x] = buf[br + j * SS + x]
  /\ \A s \in DOMAIN Contents[c] :
       (\A j \in 0..(d - 1) : s # FileSector(c, f, h) + j) => medium'[c][s] = medium[c][s]

LEMMA RunWritten ==
  ASSUME FatInv, pc = "transfer", btr > 0, NEW c \in Cards, NEW f \in Files, Serves(c, f), socket = c,
         NEW h, h = file1.fptr \div SS, NEW d, IsRun(c, f, h, d), d * SS <= btr,
         medium' = [medium EXCEPT ![socket] = WriteSectors(FileSector(c, f, h), d)]
  PROVE  /\ medium' = [x \in Cards |-> medium'[x]]
         /\ \A x \in Cards : medium'[x] \in [DOMAIN Contents[x] -> [Offsets -> Byte]]
         /\ \A x \in Cards : x # c => medium'[x] = medium[x]
         /\ \A s \in DOMAIN Contents[c] : s \notin WholeSectors(c, f) => medium'[c][s] = medium[c][s]
         /\ RunOn(c, f, h, d)
<1> DEFINE q == FileSector(c, f, h)
           W == WriteSectors(q, d)
<1>1. /\ medium = [x \in Cards |-> medium[x]]
      /\ \A x \in Cards : medium[x] \in [DOMAIN Contents[x] -> [Offsets -> Byte]]
      /\ br \in Nat /\ btr \in Nat /\ BLOCK \in Nat /\ buf \in [0..(BLOCK - 1) -> Byte]
      /\ SS \in Nat \ {0} /\ br + btr <= BLOCK
  <2>1. CardTyped /\ ReqTyped
    BY DEF FatInv, FatTyped
  <2>2. SS \in Nat \ {0} /\ BLOCK \in Nat
    BY Sizes
  <2>3. br + btr <= BLOCK
    BY AtHead
  <2>4. br \in Nat /\ btr \in Nat /\ buf \in [0..(BLOCK - 1) -> Byte]
    BY <2>1, <2>2 DEF ReqTyped
  <2>5. medium = [x \in Cards |-> medium[x]] /\ \A x \in Cards : medium[x] \in [DOMAIN Contents[x] -> [Offsets -> Byte]]
    BY <2>1, Zenon DEF CardTyped
  <2> QED BY <2>2, <2>3, <2>4, <2>5
<1>2. d \in Nat \ {0} /\ q \in Nat
  BY SectorType DEF IsRun
<1>3. medium' = [x \in Cards |-> IF x = c THEN W ELSE medium[x]]
  BY <1>1
<1>4. W = [s \in DOMAIN Contents[c] |->
             IF s \in q..(q + d - 1)
             THEN [i \in Offsets |-> buf[br + (s - q) * SS + i]] ELSE medium[c][s]]
  <2>1. DOMAIN medium[c] = DOMAIN Contents[c]
    BY <1>1
  <2> QED BY <2>1 DEF WriteSectors
<1> HIDE DEF W
<1>5. \A s \in DOMAIN Contents[c] : s \in Nat
  BY VolumeAssumption
<1> HIDE DEF q
<1>6. \A s \in DOMAIN Contents[c] :
        /\ s \in q..(q + d - 1) => s - q \in 0..(d - 1) /\ s = q + (s - q)
        /\ \A j \in 0..(d - 1) : s = q + j => s \in q..(q + d - 1) /\ s - q = j
  BY <1>2, <1>5, SMT
<1>7. \A j \in 0..(d - 1), x \in Offsets : br + j * SS + x \in 0..(BLOCK - 1)
  <2> SUFFICES ASSUME NEW j \in 0..(d - 1), NEW x \in Offsets
               PROVE  br + j * SS + x \in 0..(BLOCK - 1)
    OBVIOUS
  <2> DEFINE i == br + j * SS + x
             D == d * SS
  <2>1. i \in Nat /\ i < br + D
    BY <1>1, <1>2, SlotIs
  <2>2. D <= btr /\ D \in Nat
    BY <1>1, <1>2, MulMono
  <2> HIDE DEF i, D
  <2>3. i \in 0..(BLOCK - 1)
    BY <1>1, <2>1, <2>2, SMT
  <2> QED BY <2>3 DEF i
<1>8. \A s \in DOMAIN Contents[c] : W[s] \in [Offsets -> Byte]
  <2> SUFFICES ASSUME NEW s \in DOMAIN Contents[c] PROVE W[s] \in [Offsets -> Byte]
    OBVIOUS
  <2>1. CASE s \in q..(q + d - 1)
    <3>1. W[s] = [i \in Offsets |-> buf[br + (s - q) * SS + i]]
      BY <1>4, <2>1
    <3>2. \A i \in Offsets : br + (s - q) * SS + i \in 0..(BLOCK - 1)
      BY <1>6, <1>7, <2>1
    <3>3. \A i \in Offsets : buf[br + (s - q) * SS + i] \in Byte
      BY <1>1, <3>2
    <3> QED BY <3>1, <3>3
  <2>2. CASE ~(s \in q..(q + d - 1))
    <3>1. W[s] = medium[c][s]
      BY <1>4, <2>2
    <3> QED BY <1>1, <3>1
  <2> QED BY <2>1, <2>2
<1>9. W \in [DOMAIN Contents[c] -> [Offsets -> Byte]]
  BY <1>4, <1>8
<1>10. medium' = [x \in Cards |-> medium'[x]]
  BY <1>3
<1>11. \A x \in Cards : medium'[x] \in [DOMAIN Contents[x] -> [Offsets -> Byte]]
  BY <1>1, <1>3, <1>9
<1>12. (\A x \in Cards : x # c => medium'[x] = medium[x]) /\ medium'[c] = W
  BY <1>3
<1>13. \A s \in DOMAIN Contents[c] :
         (\A j \in 0..(d - 1) : s # q + j) => medium'[c][s] = medium[c][s]
  BY <1>4, <1>6, <1>12
<1>14. \A s \in DOMAIN Contents[c], j \in 0..(d - 1), x \in Offsets :
         s = q + j => medium'[c][s][x] = buf[br + j * SS + x]
  BY <1>4, <1>6, <1>12
<1>15. \A s \in DOMAIN Contents[c] : s \notin WholeSectors(c, f) => medium'[c][s] = medium[c][s]
  <2>1. \A j \in 0..(d - 1) : q + j \in WholeSectors(c, f)
    <3> SUFFICES ASSUME NEW j \in 0..(d - 1) PROVE q + j \in WholeSectors(c, f)
      OBVIOUS
    <3>1. FileSector(c, f, h + j) = q + j /\ Whole(c, f, h + j)
      BY RunIs DEF q
    <3> QED BY <3>1, WholeIs
  <2> QED BY <1>13, <2>1
<1>16. RunOn(c, f, h, d)
  BY <1>13, <1>14, Zenon DEF RunOn, q
<1> QED BY <1>10, <1>11, <1>12, <1>15, <1>16

\* A step changes no more of the cards than whole sectors of the file.
OnlyIn(c, f) ==
  /\ medium' = [x \in Cards |-> medium'[x]]
  /\ \A x \in Cards : medium'[x] \in [DOMAIN Contents[x] -> [Offsets -> Byte]]
  /\ \A x \in Cards : x # c => medium'[x] = medium[x]
  /\ \A s \in DOMAIN Contents[c] : s \notin WholeSectors(c, f) => medium'[c][s] = medium[c][s]

LEMMA NothingChanged ==
  ASSUME CardTyped, UNCHANGED medium, NEW c \in Cards, NEW f \in Files
  PROVE  OnlyIn(c, f)
BY DEF CardTyped, OnlyIn

\* What a turn does to the card and the window leaves the volume in place.
LEMMA TurnStores ==
  ASSUME FatInv, NEW c \in Cards, NEW f \in Files, Serves(c, f), OnlyIn(c, f),
         NEW w, Shows(w, c), w.sect \notin WholeSectors(c, f), Use(w),
         UNCHANGED <<socket, ready, STA_NOINIT, fsid, opened>>, pc' # "nextfile",
         file1'.org_clust = file1.org_clust, file1'.fsize = file1.fsize
  PROVE  /\ CardTyped' /\ FsTyped' /\ MetaKept' /\ MountInv' /\ ServeInv'
         /\ fs'.vol = fs.vol /\ Card' = c /\ File' = f
<1>1. /\ CardTyped /\ FsTyped /\ MetaKept /\ On(c) /\ opened = <<c, f>> /\ Chain[c][f] # <<>>
      /\ file1.org_clust = Chain[c][f][1] /\ file1.fsize = Size[c][f]
  BY DEF FatInv, FatTyped, Serves
<1>2. CardTyped'
  BY <1>1 DEF CardTyped, OnlyIn
<1>3. w \in [sect : Nat, win : [Offsets -> Byte], left : Nat, ok : BOOLEAN]
  BY DEF Shows
<1>4. fs' = [fs EXCEPT !.winsect = w.sect] /\ win' = w.win
  BY DEF Use
<1>5. /\ fs'.vol = fs.vol /\ fs'.winsect = w.sect
      /\ fs' \in [id : 0..(ID_MOD - 1), winsect : Nat, vol : {Volume[x] : x \in Cards} \cup {NoVolume}]
  BY <1>1, <1>3, <1>4 DEF FsTyped
<1>6. FsTyped'
  <2>1. win' \in [Offsets -> Byte]
    BY <1>3, <1>4
  <2> QED BY <1>1, <1>5, <2>1 DEF FsTyped
<1>7. MetaKept'
  <2> SUFFICES ASSUME NEW x \in Cards, NEW s \in Meta(x) PROVE medium'[x][s] = Contents[x][s]
    BY DEF MetaKept
  <2>1. medium[x][s] = Contents[x][s]
    BY <1>1 DEF MetaKept
  <2>2. CASE x # c
    BY <2>1, <2>2 DEF OnlyIn
  <2>3. CASE x = c
    <3>1. s \in DOMAIN Contents[c] /\ s \notin WholeSectors(c, f)
      BY <2>3, NotMeta DEF Meta
    <3> QED BY <2>1, <2>3, <3>1 DEF OnlyIn
  <2> QED BY <2>2, <2>3
<1>8. On(c)'
  <2>1. w.sect # 0 => w.sect \in DOMAIN Contents[c] /\ w.win = medium[c][w.sect]
    BY DEF Shows
  <2>2. w.sect # 0 => medium'[c][w.sect] = medium[c][w.sect]
    BY <2>1 DEF OnlyIn
  <2>3. fs'.vol = Volume[c] /\ (ready' => socket' = c)
    BY <1>1, <1>5 DEF On
  <2> QED BY <1>4, <1>5, <2>1, <2>2, <2>3 DEF On
<1>9. Serves(c, f)'
  BY <1>1, <1>5, <1>8 DEF Serves
<1>10. ServeInv' /\ Card' = c /\ File' = f
  BY <1>9 DEF ServeInv, Serves, Card, File
<1>11. MountInv'
  BY <1>8, MountStays
<1> QED BY <1>2, <1>5, <1>6, <1>7, <1>10, <1>11

\* The window of a turn.
AtOnce == file1.fptr % SS = 0 /\ btr >= SS
Turn(n) == IF n.ok /\ ~AtOnce THEN move_window(n.w, n.fp.curr_sect) ELSE n.w

LEMMA TurnShows ==
  ASSUME FatInv, pc = "transfer", btr > 0, NEW c \in Cards, NEW f \in Files, Serves(c, f),
         NEW k \in Answers
  PROVE  LET n == NextSector(Window(k))
             h == file1.fptr \div SS
             w == Turn(n)
         IN /\ Shows(w, c) /\ w.sect \notin WholeSectors(c, f)
            /\ n.ok /\ ~AtOnce /\ w.ok => w.win = medium[c][FileSector(c, f, h)]
<1> DEFINE n == NextSector(Window(k))
           h == file1.fptr \div SS
           q == FileSector(c, f, h)
           w == Turn(n)
<1>1. FatTyped /\ On(c) /\ fs.winsect \notin WholeSectors(c, f)
  BY DEF FatInv, Serves
<1>2. Shows(Window(k), c) /\ Window(k).sect = fs.winsect
  BY <1>1, WindowShows
<1>3. /\ Within(c, f, h) /\ q \in DOMAIN Contents[c]
      /\ Shows(n.w, c) /\ Accesses(Window(k), n.w, Meta(c)) /\ n.ok \in BOOLEAN
      /\ n.fp = IF n.ok THEN SetTo(c, f, h) ELSE [file1 EXCEPT !.sect_clust = 0]
  BY <1>2, NextIsSector
<1>4. n.w.sect \notin WholeSectors(c, f)
  BY <1>1, <1>2, <1>3, NotMeta DEF Accesses
<1>5. CASE ~(n.ok /\ ~AtOnce)
  <2>1. w = n.w
    BY <1>5 DEF Turn
  <2> HIDE DEF n, w
  <2> QED BY <1>3, <1>4, <1>5, <2>1 DEF w, n
<1>6. CASE n.ok /\ ~AtOnce
  <2> DEFINE v == move_window(n.w, q)
  <2>1. n.fp.curr_sect = q
    <3>1. FileTyped
      BY <1>1 DEF FatTyped
    <3>2. SetTo(c, f, h).curr_sect = q
      BY <1>3, <3>1, SetToTyped
    <3> HIDE DEF n, q, h
    <3> QED BY <1>3, <1>6, <3>2
  <2>2. w = v
    BY <1>6, <2>1 DEF Turn
  <2>3. Shows(v, c) /\ Accesses(n.w, v, {q}) /\ (v.ok => v.sect = q /\ (q # 0 => v.win = medium[c][q]))
    BY <1>1, <1>3, MoveShows
  <2>4. q # 0
    BY <1>3, SectorType
  <2>5. q \notin WholeSectors(c, f)
    <3> SUFFICES ASSUME q \in WholeSectors(c, f) PROVE FALSE
      OBVIOUS
    <3>1. PICK l \in Nat : Whole(c, f, l) /\ q = FileSector(c, f, l)
      BY WholeSectorsAre
    <3>2. l = h
      BY <1>3, <3>1, WholeIs, OneSector
    <3>3. /\ file1.fptr % SS = 0 /\ (btr < SS => file1.fptr + btr = Size[c][f])
          /\ file1.fptr \in Nat /\ btr \in Nat /\ SS \in Nat \ {0}
      BY <1>1, AtHead, Sizes DEF Serves, FatTyped, FileTyped, ReqTyped
    <3>4. btr < SS
      BY <1>6, <3>3 DEF AtOnce
    <3>5. file1.fptr = h * SS + 0 /\ h \in Nat
      BY <3>3, DivMod
    <3>6. (h + 1) * SS <= Size[c][f]
      BY <3>1, <3>2 DEF Whole
    <3>7. (h + 1) * SS = h * SS + SS /\ h * SS \in Nat
      BY <3>3, <3>5, SMT
    <3> HIDE DEF h
    <3> DEFINE A == h * SS
    <3>8. A + SS <= Size[c][f] /\ A + btr = Size[c][f] /\ A \in Nat
      BY <3>3, <3>4, <3>5, <3>6, <3>7
    <3> HIDE DEF A
    <3> QED BY <3>3, <3>4, <3>8, SMT
  <2>6. v.sect \notin WholeSectors(c, f)
    BY <1>4, <2>3, <2>5 DEF Accesses
  <2> HIDE DEF n, w, v, q
  <2>7. Shows(w, c) /\ w.sect \notin WholeSectors(c, f) /\ (w.ok => w.win = medium[c][q])
    BY <2>2, <2>3, <2>4, <2>6
  <2> QED BY <2>7 DEF w, n, q
<1> QED BY <1>5, <1>6

\* A turn, as far as the socket, the window and the request go.
TurnOf(c, f, k) ==
  /\ pc = "transfer" /\ btr > 0 /\ Serves(c, f) /\ k \in Answers
  /\ Use(Turn(NextSector(Window(k))))
  /\ UNCHANGED <<socket, ready, STA_NOINIT, fsid, selVars, req, clust, ofs, before, requests>>

LEMMA TurnKeeps ==
  ASSUME FatInv, NEW c \in Cards, NEW f \in Files, NEW k, TurnOf(c, f, k), OnlyIn(c, f),
         pc' # "nextfile", file1'.org_clust = file1.org_clust, file1'.fsize = file1.fsize
  PROVE  /\ CardTyped' /\ FsTyped' /\ SelTyped' /\ MetaKept' /\ MountInv' /\ ServeInv'
         /\ Card' = c /\ File' = f
<1> DEFINE w == Turn(NextSector(Window(k)))
<1>1. /\ pc = "transfer" /\ btr > 0 /\ Serves(c, f) /\ k \in Answers /\ Use(w)
      /\ UNCHANGED <<socket, ready, STA_NOINIT, fsid, opened>> /\ UNCHANGED <<first, imagefile>>
  BY DEF TurnOf, selVars
<1>2. Shows(w, c) /\ w.sect \notin WholeSectors(c, f)
  BY <1>1, TurnShows
<1> HIDE DEF w
<1>3. CardTyped' /\ FsTyped' /\ MetaKept' /\ MountInv' /\ ServeInv' /\ Card' = c /\ File' = f
  BY <1>1, <1>2, TurnStores
<1>4. SelTyped'
  BY <1>1, TypesStay DEF FatInv, FatTyped
<1> QED BY <1>3, <1>4

\* A turn that fails ends the request, and the file object with it.
LEMMA FailedTurn ==
  ASSUME FatInv, NEW c \in Cards, NEW f \in Files, NEW k, TurnOf(c, f, k), OnlyIn(c, f),
         NEW fp, fp \in [id : 0..(ID_MOD - 1), error : BOOLEAN, fptr : Nat, fsize : Nat, org_clust : Nat,
                         curr_clust : Nat, curr_sect : Int, sect_clust : Byte],
         fp.fptr = file1.fptr, fp.fsize = file1.fsize, fp.org_clust = file1.org_clust,
         Fail(fp), buf' \in [0..(BLOCK - 1) -> Byte], UNCHANGED <<br, btr>>
  PROVE  FatInv'
<1>1. FileTyped /\ ReqTyped
  BY DEF FatInv, FatTyped
<1>2. file1' = [fp EXCEPT !.error = TRUE] /\ result' = "RW_ERROR" /\ pc' = "report"
  BY DEF Fail
<1>3. /\ file1' \in [id : 0..(ID_MOD - 1), error : BOOLEAN, fptr : Nat, fsize : Nat, org_clust : Nat,
                     curr_clust : Nat, curr_sect : Int, sect_clust : Byte]
      /\ file1'.fptr = file1.fptr /\ file1'.fsize = file1.fsize /\ file1'.org_clust = file1.org_clust
  BY <1>2
<1>4. FileTyped'
  BY <1>1, <1>3 DEF FileTyped
<1>5. ReqTyped'
  BY <1>1, <1>2 DEF ReqTyped, TurnOf
<1>6. CardTyped' /\ FsTyped' /\ SelTyped' /\ MetaKept' /\ MountInv' /\ ServeInv'
  BY <1>2, <1>3, TurnKeeps
<1>7. SeekInv' /\ Positioned' /\ CountInv' /\ DataInv'
  BY <1>2, AtRest
<1> QED BY <1>4, <1>5, <1>6, <1>7 DEF FatInv, FatTyped

\* A turn that moves n bytes, and leaves the file object in the sector of the
\* last of them.
LEMMA MovedTurn ==
  ASSUME FatInv, NEW c \in Cards, NEW f \in Files, NEW k, TurnOf(c, f, k), OnlyIn(c, f),
         NEW fp, fp \in [id : 0..(ID_MOD - 1), error : BOOLEAN, fptr : Nat, fsize : Nat, org_clust : Nat,
                         curr_clust : Nat, curr_sect : Int, sect_clust : Byte],
         fp.fptr = file1.fptr, fp.fsize = file1.fsize, fp.org_clust = file1.org_clust,
         NEW n, n \in 1..btr, n % SS = 0 \/ n = btr, Moved(fp, n),
         NEW h, h = (file1.fptr + n - 1) \div SS,
         fp.curr_sect = FileSector(c, f, h), fp.curr_clust = Chain[c][f][h \div Spc(c) + 1],
         fp.sect_clust = Spc(c) - (h % Spc(c)),
         buf' \in [0..(BLOCK - 1) -> Byte], UNCHANGED <<result, pc>>, DataInv'
  PROVE  FatInv'
<1>1. /\ FileTyped /\ ReqTyped /\ pc = "transfer" /\ btr > 0 /\ SS \in Nat \ {0} /\ BLOCK \in Nat
      /\ br \in Nat /\ btr \in Nat /\ file1.fptr \in Nat /\ file1.fsize \in Nat
  <2>1. FileTyped /\ ReqTyped /\ pc = "transfer" /\ btr > 0
    BY DEF FatInv, FatTyped, TurnOf
  <2>2. SS \in Nat \ {0} /\ BLOCK \in Nat
    BY Sizes
  <2>3. br \in Nat /\ btr \in Nat
    BY <2>1, <2>2 DEF ReqTyped
  <2>4. file1.fptr \in Nat /\ file1.fsize \in Nat
    BY <2>1 DEF FileTyped
  <2> QED BY <2>1, <2>2, <2>3, <2>4
<1>2. /\ file1.fptr = Target + br /\ br % SS = 0 /\ file1.fptr + btr <= file1.fsize
      /\ br + btr <= BLOCK /\ br + btr = Share /\ Target \in Nat
  BY <1>1, AtHead
<1>3. file1' = [fp EXCEPT !.fptr = @ + n] /\ br' = br + n /\ btr' = btr - n
  BY DEF Moved
<1>4. n \in Nat \ {0} /\ n <= btr
  BY <1>1
<1>5. file1.fptr + n \in Nat /\ file1.fptr + n <= file1.fsize
  BY <1>1, <1>2, <1>4
<1>6. /\ file1' \in [id : 0..(ID_MOD - 1), error : BOOLEAN, fptr : Nat, fsize : Nat, org_clust : Nat,
                     curr_clust : Nat, curr_sect : Int, sect_clust : Byte]
      /\ file1'.fptr = file1.fptr + n /\ file1'.fsize = file1.fsize
      /\ file1'.org_clust = file1.org_clust /\ file1'.curr_sect = fp.curr_sect
      /\ file1'.curr_clust = fp.curr_clust /\ file1'.sect_clust = fp.sect_clust
  BY <1>3, <1>5
<1>7. FileTyped'
  BY <1>5, <1>6 DEF FileTyped
<1>8. br' \in 0..BLOCK /\ btr' \in 0..BLOCK
  <2>1. br + btr <= BLOCK
    BY <1>2
  <2>2. br' = br + n /\ btr' = btr - n
    BY <1>3
  <2> QED BY <1>1, <1>4, <2>1, <2>2, SMT
<1>9. ReqTyped'
  BY <1>1, <1>8 DEF ReqTyped, TurnOf
<1>10. /\ CardTyped' /\ FsTyped' /\ SelTyped' /\ MetaKept' /\ MountInv' /\ ServeInv'
       /\ Card' = c /\ File' = f
  BY <1>1, <1>6, TurnKeeps
<1>11. SeekInv'
  BY <1>1 DEF SeekInv
<1>12. Positioned'
  <2>1. file1'.fptr # 0
    <3> DEFINE P == file1.fptr
    <3>1. P \in Nat /\ file1'.fptr = P + n
      BY <1>1, <1>6
    <3> HIDE DEF P
    <3> QED BY <1>4, <3>1
  <2>2. AtSector(c, f, h)'
    BY <1>6, Zenon DEF AtSector
  <2>3. (file1'.fptr - 1) \div SS = h
    <3>1. (file1.fptr + n) - 1 = file1.fptr + n - 1
      BY <1>1, <1>4, SMT
    <3> QED BY <1>6, <3>1
  <2>4. AtSector(c, f, (file1.fptr - 1) \div SS)'
    BY <2>2, <2>3, Zenon DEF AtSector
  <2> QED BY <1>10, <2>1, <2>4, Zenon DEF Positioned
<1>13. CountInv'
  <2>1. Target' = Target /\ Share' = Share
    BY <1>6 DEF TurnOf, Target, Share, Clip
  <2>2. file1'.fptr = Target' + br' /\ br' + btr' = Share'
    <3> DEFINE T == Target
               P == file1.fptr
               H == Share
    <3>1. P = T + br /\ br + btr = H /\ T \in Nat
      BY <1>2
    <3>2. br' = br + n /\ btr' = btr - n /\ file1'.fptr = P + n
      BY <1>3, <1>6
    <3>2a. n \in Int /\ br \in Int /\ btr \in Int
      BY <1>1, <1>4
    <3> HIDE DEF T, P, H
    <3>3. P + n = T + (br + n) /\ (br + n) + (btr - n) = H
      BY <3>1, <3>2a, SMT
    <3> QED BY <2>1, <3>2, <3>3 DEF T, H
  <2>3. btr' > 0 => br' % SS = 0
    <3> SUFFICES ASSUME btr' > 0 PROVE br' % SS = 0
      OBVIOUS
    <3>1. n # btr
      BY <1>1, <1>3
    <3>2. n % SS = 0
      BY <3>1
    <3>3. (br + n) % SS = 0
      BY <1>1, <1>2, <1>4, <3>2, Multiples
    <3> QED BY <1>3, <3>3
  <2>4. result' = "OK"
    BY <1>1 DEF FatInv, CountInv
  <2> QED BY <1>1, <2>2, <2>3, <2>4 DEF CountInv
<1> QED BY <1>7, <1>9, <1>10, <1>11, <1>12, <1>13 DEF FatInv, FatTyped

\* d sectors of a run are read.
LEMMA RunRead ==
  ASSUME FatInv, pc = "transfer", btr > 0, NEW c \in Cards, NEW f \in Files, Serves(c, f), socket = c,
         NEW h, h = file1.fptr \div SS, NEW d, IsRun(c, f, h, d),
         buf' = ReadSectors(FileSector(c, f, h), d)
  PROVE  /\ buf' \in [0..(BLOCK - 1) -> Byte]
         /\ \A i \in 0..(BLOCK - 1) :
              buf'[i] = IF br <= i /\ i < br + d * SS THEN medium[c][At(i)[1]][At(i)[2]] ELSE buf[i]
<1> DEFINE q == FileSector(c, f, h)
           D == d * SS
           v(i) == medium[c][q + ((i - br) \div SS)][(i - br) % SS]
<1>1. /\ \A x \in Cards : medium[x] \in [DOMAIN Contents[x] -> [Offsets -> Byte]]
      /\ br \in Nat /\ BLOCK \in Nat /\ buf \in [0..(BLOCK - 1) -> Byte] /\ SS \in Nat \ {0}
  BY Sizes DEF FatInv, FatTyped, CardTyped, ReqTyped
<1>2. d \in Nat /\ D \in Nat
  <2>1. d \in Nat
    BY DEF IsRun
  <2> QED BY <1>1, <2>1, SMT
<1>3. buf' = [i \in 0..(BLOCK - 1) |-> IF i \in br..(br + D - 1) THEN v(i) ELSE buf[i]]
  BY <1>1 DEF ReadSectors
<1>4. \A i \in Nat : br <= i /\ i < br + D =>
        /\ (i - br) \div SS \in 0..(d - 1) /\ (i - br) % SS \in Offsets
        /\ At(i) = <<q + ((i - br) \div SS), (i - br) % SS>>
  BY BytesOfRun
<1>5. \A j \in 0..(d - 1) : q + j \in DOMAIN Contents[c]
  <2> SUFFICES ASSUME NEW j \in 0..(d - 1) PROVE q + j \in DOMAIN Contents[c]
    OBVIOUS
  <2>1. FileSector(c, f, h + j) = q + j /\ Whole(c, f, h + j)
    BY RunIs
  <2> HIDE DEF q
  <2> QED BY <2>1, WholeIs
<1> HIDE DEF q, D
<1>6. ASSUME NEW i \in 0..(BLOCK - 1)
      PROVE  /\ buf'[i] \in Byte
             /\ buf'[i] = IF br <= i /\ i < br + D THEN medium[c][At(i)[1]][At(i)[2]] ELSE buf[i]
  <2>1. i \in Nat /\ (i \in br..(br + D - 1) <=> br <= i /\ i < br + D)
    BY <1>1, <1>2, SMT
  <2>2. CASE br <= i /\ i < br + D
    <3>1. buf'[i] = v(i)
      BY <1>3, <2>1, <2>2
    <3>2. /\ (i - br) \div SS \in 0..(d - 1) /\ (i - br) % SS \in Offsets
          /\ At(i) = <<q + ((i - br) \div SS), (i - br) % SS>>
      BY <1>4, <2>1, <2>2
    <3>3. q + ((i - br) \div SS) \in DOMAIN Contents[c]
      BY <1>5, <3>2
    <3>4. v(i) \in Byte
      BY <1>1, <3>2, <3>3
    <3>5. v(i) = medium[c][At(i)[1]][At(i)[2]]
      BY <3>2
    <3> HIDE DEF v
    <3> QED BY <2>2, <3>1, <3>4, <3>5
  <2>3. CASE ~(br <= i /\ i < br + D)
    <3>1. buf'[i] = buf[i]
      BY <1>3, <2>1, <2>3
    <3> QED BY <1>1, <2>3, <3>1
  <2> QED BY <2>2, <2>3
<1>7. buf' \in [0..(BLOCK - 1) -> Byte]
  BY <1>3, <1>6
<1> QED BY <1>6, <1>7 DEF D

\* Sectors moved at once, and what is left of them when the card fails.
LEMMA DirectStores ==
  ASSUME FatInv, NEW c \in Cards, NEW f \in Files, NEW k, TurnOf(c, f, k), btr >= SS,
         NEW h, h = file1.fptr \div SS, NEW m, m = Run(SetTo(c, f, h)), NEW ok \in BOOLEAN,
         ok => socket = c,
         \E done \in (IF ok THEN {m} ELSE IF ready THEN 0..m ELSE {0}) :
           IF done = 0 THEN UNCHANGED <<medium, buf>>
           ELSE IF req.wr
           THEN /\ medium' = [medium EXCEPT ![socket] = WriteSectors(FileSector(c, f, h), done)]
                /\ UNCHANGED buf
           ELSE /\ done = m => ok
                /\ buf' = ReadSectors(FileSector(c, f, h), done)
                /\ UNCHANGED medium
  PROVE  /\ OnlyIn(c, f) /\ buf' \in [0..(BLOCK - 1) -> Byte]
         /\ ok => IF req.wr
                  THEN /\ medium' = [medium EXCEPT ![socket] = WriteSectors(FileSector(c, f, h), m)]
                       /\ UNCHANGED buf
                  ELSE buf' = ReadSectors(FileSector(c, f, h), m) /\ UNCHANGED medium
<1>1. pc = "transfer" /\ btr > 0 /\ Serves(c, f) /\ CardTyped /\ (ready => socket = c)
      /\ buf \in [0..(BLOCK - 1) -> Byte]
  BY DEF TurnOf, Serves, On, FatInv, FatTyped, ReqTyped
<1>2. m \in Nat \ {0} /\ \A d \in 1..m : IsRun(c, f, h, d) /\ d * SS <= btr
  BY <1>1, RunHere
<1>3. PICK done \in (IF ok THEN {m} ELSE IF ready THEN 0..m ELSE {0}) :
        IF done = 0 THEN UNCHANGED <<medium, buf>>
        ELSE IF req.wr
        THEN /\ medium' = [medium EXCEPT ![socket] = WriteSectors(FileSector(c, f, h), done)]
             /\ UNCHANGED buf
        ELSE /\ done = m => ok
             /\ buf' = ReadSectors(FileSector(c, f, h), done)
             /\ UNCHANGED medium
  OBVIOUS
<1>4. CASE done = 0
  <2>1. ~ok
    BY <1>2, <1>3, <1>4
  <2>2. OnlyIn(c, f)
    BY <1>1, <1>3, <1>4, NothingChanged
  <2> QED BY <1>1, <1>3, <1>4, <2>1, <2>2
<1>5. CASE done # 0
  <2>1. done \in 1..m /\ socket = c /\ (ok => done = m)
    BY <1>1, <1>2, <1>3, <1>5
  <2>2. IsRun(c, f, h, done) /\ done * SS <= btr
    BY <1>2, <2>1
  <2>3. CASE req.wr
    <3>1. medium' = [medium EXCEPT ![socket] = WriteSectors(FileSector(c, f, h), done)] /\ buf' = buf
      BY <1>3, <1>5, <2>3
    <3>2. OnlyIn(c, f)
      <4>1. /\ medium' = [x \in Cards |-> medium'[x]]
            /\ \A x \in Cards : medium'[x] \in [DOMAIN Contents[x] -> [Offsets -> Byte]]
            /\ \A x \in Cards : x # c => medium'[x] = medium[x]
            /\ \A s \in DOMAIN Contents[c] : s \notin WholeSectors(c, f) => medium'[c][s] = medium[c][s]
        BY <1>1, <2>1, <2>2, <3>1, RunWritten
      <4> QED BY <4>1, Zenon DEF OnlyIn
    <3> QED BY <1>1, <2>1, <2>3, <3>1, <3>2
  <2>4. CASE ~req.wr
    <3>1. buf' = ReadSectors(FileSector(c, f, h), done) /\ medium' = medium
      BY <1>3, <1>5, <2>4
    <3>2. OnlyIn(c, f)
      BY <1>1, <3>1, NothingChanged
    <3>3. buf' \in [0..(BLOCK - 1) -> Byte]
      BY <1>1, <2>1, <2>2, <3>1, RunRead
    <3> QED BY <2>1, <2>4, <3>1, <3>2, <3>3
  <2> QED BY <2>3, <2>4
<1> QED BY <1>4, <1>5

\* What is asked for, and where it is, does not change in a turn.
LEMMA SameRequest ==
  ASSUME NEW c \in Cards, NEW f \in Files, NEW k, TurnOf(c, f, k)
  PROVE  /\ req' = req /\ before' = before /\ opened' = opened /\ Card = c /\ Card' = c
         /\ \A i : At(i)' = At(i)
BY DEF TurnOf, Serves, At, Card, selVars

\* A read at once brings the bytes asked for.
LEMMA ReadAtOnce ==
  ASSUME FatInv, NEW c \in Cards, NEW f \in Files, NEW k, TurnOf(c, f, k), socket = c, ~req.wr,
         NEW h, h = file1.fptr \div SS, NEW m, IsRun(c, f, h, m),
         buf' = ReadSectors(FileSector(c, f, h), m), UNCHANGED <<medium, pc>>, br' = br + m * SS
  PROVE  DataInv'
<1>1. /\ req' = req /\ before' = before /\ opened' = opened /\ Card = c /\ Card' = c
      /\ \A i : At(i)' = At(i)
  BY SameRequest
<1>2. pc = "transfer" /\ btr > 0 /\ Serves(c, f)
  BY DEF TurnOf
<1>3. ReadUpTo(br)
  BY <1>2 DEF FatInv, DataInv
<1>4. \A i \in 0..(BLOCK - 1) :
        buf'[i] = IF br <= i /\ i < br + m * SS THEN medium[c][At(i)[1]][At(i)[2]] ELSE buf[i]
  BY <1>2, RunRead
<1>5. br \in Nat /\ BLOCK \in Nat /\ m * SS \in Nat
  <2>1. m \in Nat /\ SS \in Nat
    BY Sizes DEF IsRun
  <2>2. br \in Nat /\ BLOCK \in Nat
    BY Sizes DEF FatInv, FatTyped, ReqTyped
  <2> QED BY <2>1, <2>2, SMT
<1>6. ReadUpTo(br)'
  <2> SUFFICES ASSUME NEW i \in 0..(BLOCK - 1)
               PROVE  buf'[i] = IF i < br' THEN medium'[Card'][At(i)'[1]][At(i)'[2]] ELSE before'[i]
    BY DEF ReadUpTo
  <2>1. buf[i] = IF i < br THEN medium[c][At(i)[1]][At(i)[2]] ELSE before[i]
    BY <1>1, <1>3 DEF ReadUpTo
  <2>2. buf'[i] = IF br <= i /\ i < br + m * SS THEN medium[c][At(i)[1]][At(i)[2]] ELSE buf[i]
    BY <1>4
  <2>3. At(i)' = At(i)
    BY <1>1
  <2> DEFINE D == m * SS
             v == medium[c][At(i)[1]][At(i)[2]]
  <2>4. D \in Nat /\ i \in Nat /\ br \in Nat
    BY <1>5
  <2> HIDE DEF D, v
  <2>5. buf[i] = (IF i < br THEN v ELSE before[i])
    BY <2>1 DEF v
  <2>6. buf'[i] = (IF br <= i /\ i < br + D THEN v ELSE buf[i])
    BY <2>2 DEF D, v
  <2>7. buf'[i] = (IF i < br + D THEN v ELSE before[i])
    BY <2>4, <2>5, <2>6, SMT
  <2>8. v = medium'[Card'][At(i)'[1]][At(i)'[2]]
    BY <1>1, <2>3 DEF v
  <2> QED BY <1>1, <2>7, <2>8 DEF D
<1> QED BY <1>1, <1>2, <1>6 DEF DataInv

\* A write at once puts them on the card.
LEMMA WriteAtOnce ==
  ASSUME FatInv, NEW c \in Cards, NEW f \in Files, NEW k, TurnOf(c, f, k), socket = c, req.wr,
         NEW h, h = file1.fptr \div SS, NEW m, IsRun(c, f, h, m), m * SS <= btr,
         medium' = [medium EXCEPT ![socket] = WriteSectors(FileSector(c, f, h), m)],
         UNCHANGED <<buf, pc>>, br' = br + m * SS, file1'.fsize = file1.fsize
  PROVE  DataInv'
<1>1. /\ req' = req /\ before' = before /\ opened' = opened /\ Card = c /\ Card' = c
      /\ \A i : At(i)' = At(i)
  BY SameRequest
<1>2. pc = "transfer" /\ btr > 0 /\ Serves(c, f)
  BY DEF TurnOf
<1>3. WrittenUpTo(br) /\ buf = before
  BY <1>2 DEF FatInv, DataInv
<1>3a. RunOn(c, f, h, m)
  BY <1>2, RunWritten
<1> DEFINE q == FileSector(c, f, h)
<1>4. /\ \A s \in DOMAIN Contents[c], j \in 0..(m - 1), x \in Offsets :
           s = q + j => medium'[c][s][x] = buf[br + j * SS + x]
      /\ \A s \in DOMAIN Contents[c] :
           (\A j \in 0..(m - 1) : s # q + j) => medium'[c][s] = medium[c][s]
  BY <1>3a, Zenon DEF RunOn
<1>5. /\ \A i \in Nat : br <= i /\ i < br + m * SS =>
           /\ (i - br) \div SS \in 0..(m - 1) /\ (i - br) % SS \in Offsets
           /\ i = br + ((i - br) \div SS) * SS + ((i - br) % SS)
           /\ At(i) = <<q + ((i - br) \div SS), (i - br) % SS>>
      /\ \A i \in 0..(BLOCK - 1) : i < br =>
           /\ At(i)[1] \in DOMAIN Contents[c] /\ At(i)[2] \in Offsets
           /\ \A j \in 0..(m - 1) : At(i)[1] # q + j
  BY <1>2, BytesOfRun
<1>6. \A j \in 0..(m - 1) : q + j \in DOMAIN Contents[c]
  <2> SUFFICES ASSUME NEW j \in 0..(m - 1) PROVE q + j \in DOMAIN Contents[c]
    OBVIOUS
  <2>1. FileSector(c, f, h + j) = q + j /\ Whole(c, f, h + j)
    BY RunIs
  <2> HIDE DEF q
  <2> QED BY <2>1, WholeIs
<1> HIDE DEF q
<1>7. br \in Nat /\ BLOCK \in Nat /\ m * SS \in Nat
  <2>1. m \in Nat /\ SS \in Nat
    BY Sizes DEF IsRun
  <2>2. br \in Nat /\ BLOCK \in Nat
    BY Sizes DEF FatInv, FatTyped, ReqTyped
  <2> QED BY <2>1, <2>2, SMT
<1>8. WrittenUpTo(br)'
  <2> SUFFICES ASSUME NEW i \in 0..(BLOCK - 1), i < br + m * SS,
                      (req.blk * BLOCK + i) < (file1.fsize \div SS) * SS
               PROVE  medium'[c][At(i)[1]][At(i)[2]] = before[i]
    BY <1>1 DEF WrittenUpTo
  <2>1. CASE i < br
    <3>1. medium[c][At(i)[1]][At(i)[2]] = before[i]
      BY <1>1, <1>3, <2>1 DEF WrittenUpTo
    <3>2. medium'[c][At(i)[1]] = medium[c][At(i)[1]]
      BY <1>4, <1>5, <2>1
    <3> QED BY <3>1, <3>2
  <2>2. CASE ~(i < br)
    <3> DEFINE j == (i - br) \div SS
               x == (i - br) % SS
    <3>1. i \in Nat /\ br <= i
      BY <1>7, <2>2
    <3>2. j \in 0..(m - 1) /\ x \in Offsets /\ i = br + j * SS + x /\ At(i) = <<q + j, x>>
      BY <1>5, <3>1
    <3> HIDE DEF j, x
    <3>3. medium'[c][q + j][x] = buf[br + j * SS + x]
      BY <1>4, <1>6, <3>2
    <3> QED BY <1>3, <3>2, <3>3
  <2> QED BY <2>1, <2>2
<1>9. buf' = before'
  BY <1>1, <1>3
<1> QED BY <1>1, <1>2, <1>8, <1>9 DEF DataInv

\* The odd bytes at the end of the file: a read takes them from the window, and a
\* write has no more to put on the card.
LEMMA OddBytes ==
  ASSUME FatInv, NEW c \in Cards, NEW f \in Files, NEW k, TurnOf(c, f, k), btr < SS,
         NEW h, h = file1.fptr \div SS, NEW v, v = medium[c][FileSector(c, f, h)],
         buf' = [i \in DOMAIN buf |-> IF i \in br..(br + btr - 1) THEN v[0 + i - br] ELSE buf[i]],
         UNCHANGED <<medium, pc>>, br' = br + btr, btr' = 0, file1'.fsize = file1.fsize
  PROVE  DataInv'
<1>1. /\ req' = req /\ before' = before /\ opened' = opened /\ Card = c /\ Card' = c
      /\ \A i : At(i)' = At(i)
  BY SameRequest
<1>2. pc = "transfer" /\ btr > 0 /\ Serves(c, f)
  BY DEF TurnOf
<1>3. /\ Target = req.blk * BLOCK /\ Target \in Nat /\ file1.fptr = Target + br
      /\ file1.fptr % SS = 0 /\ file1.fptr + btr = file1.fsize
  BY <1>2, AtHead
<1>4. /\ br \in Nat /\ btr \in Nat /\ BLOCK \in Nat /\ SS \in Nat \ {0}
      /\ buf \in [0..(BLOCK - 1) -> Byte] /\ file1.fptr \in Nat
  BY Sizes DEF FatInv, FatTyped, ReqTyped, FileTyped
<1>5. \A i : At(i) = Place(c, f, Target + i)
  BY <1>2, <1>3 DEF At, Serves
<1>6. \A e \in Nat : e < SS => (file1.fptr + e) \div SS = h /\ (file1.fptr + e) % SS = e
  <2> SUFFICES ASSUME NEW e \in Nat, e < SS
               PROVE  (file1.fptr + e) \div SS = h /\ (file1.fptr + e) % SS = e
    OBVIOUS
  <2>1. (file1.fptr % SS) + e = e /\ (file1.fptr % SS) + e < SS
    BY <1>3
  <2> QED BY <1>4, <2>1, Along
<1>7. CASE ~req.wr
  <2>1. ReadUpTo(br)
    BY <1>2, <1>7 DEF FatInv, DataInv
  <2>2. ASSUME NEW i \in 0..(BLOCK - 1)
        PROVE  buf'[i] = IF i < br' THEN medium'[Card'][At(i)'[1]][At(i)'[2]] ELSE before'[i]
    <3> DEFINE u == medium[c][At(i)[1]][At(i)[2]]
    <3>1. buf[i] = IF i < br THEN u ELSE before[i]
      BY <1>1, <2>1 DEF ReadUpTo
    <3>2. buf'[i] = IF i \in br..(br + btr - 1) THEN v[0 + i - br] ELSE buf[i]
      BY <1>4
    <3>3. ASSUME i \in br..(br + btr - 1) PROVE v[0 + i - br] = u
      <4> DEFINE e == i - br
      <4>0. Target \in Nat /\ file1.fptr = Target + br
        BY <1>3
      <4> DEFINE T == Target
                 P == file1.fptr
      <4> HIDE DEF T, P
      <4>1. e \in Nat /\ e < SS /\ 0 + i - br = e /\ T + i = P + e /\ T + i \in Nat
        <5>1. T \in Nat /\ P = T + br
          BY <4>0 DEF T, P
        <5>2. i \in Nat
          BY <1>4
        <5> QED BY <1>4, <3>3, <5>1, <5>2, SMT
      <4> USE DEF T, P
      <4>2. At(i) = <<FileSector(c, f, (Target + i) \div SS), (Target + i) % SS>>
        BY <1>5, <4>1, PlaceIs
      <4> HIDE DEF e
      <4>3. At(i) = <<FileSector(c, f, h), e>>
        BY <1>6, <4>1, <4>2
      <4> QED BY <4>1, <4>3
    <3> HIDE DEF u
    <3>4. i \in Nat
      BY <1>4
    <3>5. buf'[i] = IF i < br + btr THEN u ELSE before[i]
      BY <1>4, <3>1, <3>2, <3>3, <3>4, SMT
    <3>6. u = medium'[Card'][At(i)'[1]][At(i)'[2]]
      BY <1>1 DEF u
    <3> QED BY <1>1, <3>5, <3>6
  <2>3. ReadUpTo(br)'
    BY <2>2 DEF ReadUpTo
  <2> QED BY <1>1, <1>2, <1>7, <2>3 DEF DataInv
<1>8. CASE req.wr
  <2>1. WrittenUpTo(br)
    BY <1>2, <1>8 DEF FatInv, DataInv
  <2>2. WrittenUpTo(br)'
    <3> SUFFICES ASSUME NEW i \in 0..(BLOCK - 1), i < br + btr,
                        (req.blk * BLOCK + i) < (file1.fsize \div SS) * SS
                 PROVE  medium[c][At(i)[1]][At(i)[2]] = before[i]
      BY <1>1 DEF WrittenUpTo
    <3>1. file1.fsize \div SS = h
      BY <1>3, <1>4, <1>6
    <3>2. file1.fptr = h * SS
      <4>1. h \in Nat /\ file1.fptr = h * SS + 0
        BY <1>3, <1>4, DivMod
      <4>2. h * SS \in Int
        BY <1>4, <4>1, SMT
      <4> QED BY <4>1, <4>2
    <3>3. Target + i < Target + br
      BY <1>3, <3>1, <3>2
    <3>4. i < br
      BY <1>3, <1>4, <3>3
    <3> QED BY <1>1, <2>1, <3>4 DEF WrittenUpTo
  <2>3. ~(btr' > 0)
    OBVIOUS
  <2> QED BY <1>1, <1>2, <1>8, <2>2, <2>3 DEF DataInv
<1> QED BY <1>7, <1>8

LEMMA TransferKeeps == FatInv /\ Transfer => FatInv'
<1> SUFFICES ASSUME FatInv, Transfer PROVE FatInv'
  OBVIOUS
<1>1. FatTyped /\ FileTyped /\ CardTyped /\ pc = "transfer" /\ btr > 0
  BY DEF FatInv, FatTyped, Transfer
<1>2. PICK c \in Cards, f \in Files : Serves(c, f)
  BY <1>1, Served DEF Serving
<1>3. PICK k \in Answers :
        LET n == NextSector(Window(k))
            direct == file1.fptr % SS = 0 /\ btr >= SS
            w == IF n.ok /\ ~direct THEN move_window(n.w, n.fp.curr_sect) ELSE n.w
            ok == n.ok /\ IF direct THEN w.left > 0 ELSE w.ok
        IN /\ Use(w) /\ Blame(ok)
           /\ \/ ~n.ok /\ Fail(n.fp) /\ UNCHANGED <<medium, buf, br, btr>>
              \/ n.ok /\ direct /\ Direct(n.fp, Run(n.fp), ok)
              \/ n.ok /\ ~direct /\ Windowed(n.fp, w) /\ UNCHANGED medium
  BY Zenon DEF Transfer
<1> DEFINE n == NextSector(Window(k))
           w == Turn(n)
           ok == n.ok /\ IF AtOnce THEN w.left > 0 ELSE w.ok
           h == file1.fptr \div SS
           fp == SetTo(c, f, h)
           q == FileSector(c, f, h)
<1>4. /\ Use(w)
      /\ \/ ~n.ok /\ Fail(n.fp) /\ UNCHANGED <<medium, buf, br, btr>>
         \/ n.ok /\ AtOnce /\ Direct(n.fp, Run(n.fp), ok)
         \/ n.ok /\ ~AtOnce /\ Windowed(n.fp, w) /\ UNCHANGED medium
  BY <1>3 DEF AtOnce, Turn
<1>5. TurnOf(c, f, k)
  BY <1>1, <1>2, <1>4, Zenon DEF TurnOf, Transfer
<1>6. Shows(w, c) /\ (n.ok /\ ~AtOnce /\ w.ok => w.win = medium[c][q])
  BY <1>1, <1>2, TurnShows
<1>7. /\ Within(c, f, h) /\ n.ok \in BOOLEAN
      /\ n.fp = IF n.ok THEN fp ELSE [file1 EXCEPT !.sect_clust = 0]
  <2>1. Shows(Window(k), c)
    BY <1>1, <1>2, WindowShows DEF Serves
  <2> QED BY <1>1, <1>2, <2>1, NextIsSector
<1>8. /\ fp \in [id : 0..(ID_MOD - 1), error : BOOLEAN, fptr : Nat, fsize : Nat, org_clust : Nat,
                 curr_clust : Nat, curr_sect : Int, sect_clust : 1..128]
      /\ fp.fptr = file1.fptr /\ fp.fsize = file1.fsize /\ fp.org_clust = file1.org_clust
      /\ fp.curr_sect = q /\ fp.curr_clust = Chain[c][f][h \div Spc(c) + 1]
      /\ fp.sect_clust = Spc(c) - (h % Spc(c))
  BY <1>1, <1>7, SetToTyped
<1>9. fp \in [id : 0..(ID_MOD - 1), error : BOOLEAN, fptr : Nat, fsize : Nat, org_clust : Nat,
              curr_clust : Nat, curr_sect : Int, sect_clust : Byte]
  <2>1. 1..128 \subseteq Byte
    BY SMT DEF Byte
  <2> HIDE DEF fp, h, q
  <2> QED BY <1>8, <2>1
<1>10. /\ SS \in Nat \ {0} /\ BLOCK \in Nat /\ br \in Nat /\ btr \in Nat /\ file1.fptr \in Nat
       /\ buf \in [0..(BLOCK - 1) -> Byte]
  BY <1>1, Sizes DEF FatTyped, ReqTyped, FileTyped
<1>11. file1.fptr % SS = 0 /\ (btr < SS => file1.fptr + btr = file1.fsize)
  BY <1>1, AtHead
<1>12. h \in Nat /\ file1.fptr = h * SS
  <2>1. h \in Nat /\ file1.fptr = h * SS + 0
    BY <1>10, <1>11, DivMod
  <2>2. h * SS \in Int
    BY <1>10, <2>1, SMT
  <2> QED BY <2>1, <2>2
<1>13. AtOnce <=> btr >= SS
  BY <1>11 DEF AtOnce
<1> HIDE DEF n, w, fp, h, q
<1>14. CASE ~n.ok /\ Fail(n.fp) /\ UNCHANGED <<medium, buf, br, btr>>
  <2>1. n.fp = [file1 EXCEPT !.sect_clust = 0] /\ Fail(n.fp)
    BY <1>7, <1>14
  <2> DEFINE fq == n.fp
  <2>2. /\ fq \in [id : 0..(ID_MOD - 1), error : BOOLEAN, fptr : Nat, fsize : Nat, org_clust : Nat,
                   curr_clust : Nat, curr_sect : Int, sect_clust : Byte]
        /\ fq.fptr = file1.fptr /\ fq.fsize = file1.fsize /\ fq.org_clust = file1.org_clust
    <3>1. 0 \in Byte
      BY DEF Byte
    <3> QED BY <1>1, <2>1, <3>1 DEF FileTyped
  <2>3. Fail(fq)
    BY <2>1
  <2> HIDE DEF fq
  <2>4. OnlyIn(c, f) /\ buf' \in [0..(BLOCK - 1) -> Byte] /\ UNCHANGED <<br, btr>>
    BY <1>1, <1>10, <1>14, NothingChanged
  <2> QED BY <1>5, <2>2, <2>3, <2>4, FailedTurn
<1>15. CASE n.ok /\ AtOnce /\ Direct(n.fp, Run(n.fp), ok)
  <2> DEFINE m == Run(fp)
  <2>1. Direct(fp, m, ok) /\ n.ok
    BY <1>7, <1>15
  <2>2. ok \in BOOLEAN /\ (ok => socket = c)
    BY <1>6, <1>15 DEF Shows
  <2>3. m \in Nat \ {0} /\ m * SS <= btr /\ IsRun(c, f, h, m)
    <3>1. btr >= SS
      BY <1>13, <1>15
    <3>2. m \in Nat \ {0} /\ m * SS <= btr /\ \A d \in 1..m : IsRun(c, f, h, d) /\ d * SS <= btr
      BY <1>1, <1>2, <3>1, RunHere DEF h, fp
    <3> HIDE DEF m
    <3> QED BY <3>2
  <2>4. m = Run(SetTo(c, f, h)) /\ fp.curr_sect = q
    BY <1>8 DEF fp
  <2> HIDE DEF m, ok
  <2>5. \E done \in (IF ok THEN {m} ELSE IF ready THEN 0..m ELSE {0}) :
          IF done = 0 THEN UNCHANGED <<medium, buf>>
          ELSE IF req.wr
          THEN /\ medium' = [medium EXCEPT ![socket] = WriteSectors(q, done)]
               /\ UNCHANGED buf
          ELSE /\ done = m => ok
               /\ buf' = ReadSectors(q, done)
               /\ UNCHANGED medium
    BY <2>1, <2>4, Zenon DEF Direct
  <2>6. /\ OnlyIn(c, f) /\ buf' \in [0..(BLOCK - 1) -> Byte]
        /\ ok => IF req.wr
                 THEN /\ medium' = [medium EXCEPT ![socket] = WriteSectors(q, m)]
                      /\ UNCHANGED buf
                 ELSE buf' = ReadSectors(q, m) /\ UNCHANGED medium
    <3>1. h = file1.fptr \div SS /\ q = FileSector(c, f, h) /\ btr >= SS
      BY <1>13, <1>15 DEF h, q
    <3> QED BY <1>5, <2>2, <2>4, <2>5, <3>1, DirectStores
  <2>7. CASE ~ok
    <3>1. Fail(fp) /\ UNCHANGED <<br, btr>>
      BY <2>1, <2>7 DEF Direct
    <3> QED BY <1>5, <1>8, <1>9, <2>6, <3>1, FailedTurn
  <2>8. CASE ok
    <3> DEFINE N == m * SS
               fq == [fp EXCEPT !.sect_clust = @ - (m - 1), !.curr_sect = @ + m - 1]
               g == h + (m - 1)
    <3>1. Moved(fq, N) /\ UNCHANGED <<result, pc>>
      BY <2>1, <2>8 DEF Direct
    <3>2. N \in Nat /\ N % SS = 0 /\ N <= btr /\ N >= SS
      <4>1. N % SS = 0 /\ N \in Nat
        BY <1>10, <2>3, MultipleOf
      <4>2. N >= SS
        BY <1>10, <2>3, MulGe
      <4> QED BY <2>3, <4>1, <4>2
    <3>3. g \in Nat /\ g \div Spc(c) = h \div Spc(c) /\ g % Spc(c) = (h % Spc(c)) + (m - 1)
          /\ FileSector(c, f, g) = q + (m - 1) /\ Within(c, f, g)
      <4>1. m - 1 \in 0..(m - 1) /\ g \in Nat
        BY <1>12, <2>3
      <4> DEFINE j == m - 1
      <4>2. j \in 0..(m - 1)
        BY <4>1
      <4> HIDE DEF j
      <4>3. /\ FileSector(c, f, h + j) = FileSector(c, f, h) + j /\ Whole(c, f, h + j)
            /\ (h + j) \div Spc(c) = h \div Spc(c) /\ (h + j) % Spc(c) = (h % Spc(c)) + j
        BY <2>3, <4>2, RunIs
      <4>4. Within(c, f, h + j)
        BY <4>3, WholeIs
      <4> QED BY <4>1, <4>3, <4>4 DEF j, q
    <3>4. h % Spc(c) \in Nat /\ Spc(c) \in 1..128 /\ (h % Spc(c)) + (m - 1) \in 0..(Spc(c) - 1)
      <4>1. h % Spc(c) \in 0..(Spc(c) - 1) /\ g % Spc(c) \in 0..(Spc(c) - 1)
        BY <1>7, <3>3, ClusterOf
      <4>2. Spc(c) \in 1..128
        BY Sizes
      <4> QED BY <3>3, <4>1, <4>2
    <3>5. q \in Int
      BY <1>8
    <3> DEFINE b == fp.sect_clust - (m - 1)
               s == fp.curr_sect + m - 1
    <3>6. b \in Byte /\ b = Spc(c) - ((h % Spc(c)) + (m - 1)) /\ s \in Int /\ s = q + (m - 1)
      <4> DEFINE t == h % Spc(c)
                 z == Spc(c)
      <4>1. fp.sect_clust = z - t /\ t \in Nat /\ z \in 1..128 /\ t + (m - 1) \in 0..(z - 1)
        BY <1>8, <3>4
      <4> HIDE DEF t, z
      <4>2. b \in Byte /\ b = z - (t + (m - 1))
        BY <2>3, <4>1, SMT DEF Byte
      <4>3. s \in Int /\ s = q + (m - 1)
        BY <2>3, <2>4, <3>5, SMT
      <4> QED BY <4>2, <4>3 DEF t, z
    <3>7. fq = [fp EXCEPT !.sect_clust = b, !.curr_sect = s]
      OBVIOUS
    <3> HIDE DEF b, s, fq
    <3>8. /\ fq \in [id : 0..(ID_MOD - 1), error : BOOLEAN, fptr : Nat, fsize : Nat, org_clust : Nat,
                     curr_clust : Nat, curr_sect : Int, sect_clust : Byte]
          /\ fq.fptr = file1.fptr /\ fq.fsize = file1.fsize /\ fq.org_clust = file1.org_clust
          /\ fq.curr_sect = s /\ fq.curr_clust = fp.curr_clust /\ fq.sect_clust = b
      BY <1>8, <1>9, <3>6, <3>7
    <3>9. /\ fq.curr_sect = FileSector(c, f, g) /\ fq.curr_clust = Chain[c][f][g \div Spc(c) + 1]
          /\ fq.sect_clust = Spc(c) - (g % Spc(c))
      BY <1>8, <3>3, <3>6, <3>8
    <3>10. g = (file1.fptr + N - 1) \div SS
      <4>1. file1.fptr + N = (h + m) * SS
        BY <1>10, <1>12, <2>3, SMT
      <4>2. h + m \in Nat \ {0}
        BY <1>12, <2>3
      <4> DEFINE p == file1.fptr + N
      <4>3. p % SS = 0 /\ p \div SS = h + m
        BY <1>10, <4>1, <4>2, MultipleOf
      <4>4. p \in Nat \ {0}
        BY <1>10, <3>2
      <4>5. (p - 1) \div SS = (h + m) - 1
        BY <4>3, <4>4, SectorBefore
      <4>6. file1.fptr + N - 1 = p - 1
        BY <1>10, <3>2
      <4>7. (h + m) - 1 = g
        BY <1>12, <2>3
      <4> QED BY <4>5, <4>6, <4>7
    <3>11. br' = br + N /\ file1'.fsize = file1.fsize
      BY <3>1, <3>8 DEF Moved
    <3>12. DataInv'
      <4>1. h = file1.fptr \div SS /\ q = FileSector(c, f, h) /\ socket = c
        BY <2>2, <2>8 DEF h, q
      <4>2. CASE req.wr
        <5>1. medium' = [medium EXCEPT ![socket] = WriteSectors(q, m)] /\ UNCHANGED <<buf, pc>>
          BY <2>6, <2>8, <3>1, <4>2
        <5> QED BY <1>5, <2>3, <3>11, <4>1, <4>2, <5>1, WriteAtOnce
      <4>3. CASE ~req.wr
        <5>1. buf' = ReadSectors(q, m) /\ UNCHANGED <<medium, pc>>
          BY <2>6, <2>8, <3>1, <4>3
        <5> QED BY <1>5, <2>3, <3>11, <4>1, <4>3, <5>1, ReadAtOnce
      <4> QED BY <4>2, <4>3
    <3>13. N \in 1..btr
      BY <1>10, <3>2
    <3> HIDE DEF N, g
    <3>14. N % SS = 0
      BY <3>2 DEF N
    <3> QED BY <1>5, <2>6, <3>1, <3>8, <3>9, <3>10, <3>12, <3>13, <3>14, MovedTurn
  <2> QED BY <2>2, <2>7, <2>8
<1>16. CASE n.ok /\ ~AtOnce /\ Windowed(n.fp, w) /\ UNCHANGED medium
  <2>1. btr < SS /\ btr \in 1..btr
    BY <1>1, <1>10, <1>13, <1>16
  <2>2. Min({SS - (fp.fptr % SS), btr}) = btr
    <3>1. fp.fptr % SS = 0
      BY <1>8, <1>11
    <3>2. SS - (fp.fptr % SS) = SS
      BY <1>10, <3>1
    <3> QED BY <1>10, <2>1, <3>2, MinOfTwo
  <2>3. IF w.ok
        THEN /\ buf' = [i \in DOMAIN buf |-> IF i \in br..(br + btr - 1)
                                             THEN w.win[(fp.fptr % SS) + i - br] ELSE buf[i]]
             /\ Moved(fp, btr) /\ UNCHANGED <<result, pc>>
        ELSE Fail(fp) /\ UNCHANGED <<buf, br, btr>>
    BY <1>7, <1>16, <2>2 DEF Windowed
  <2>4. OnlyIn(c, f)
    BY <1>1, <1>16, NothingChanged
  <2>5. CASE ~w.ok
    <3>1. Fail(fp) /\ buf' = buf /\ UNCHANGED <<br, btr>>
      BY <2>3, <2>5
    <3> QED BY <1>5, <1>8, <1>9, <1>10, <2>4, <3>1, FailedTurn
  <2>6. CASE w.ok
    <3> DEFINE v == medium[c][q]
    <3>1. w.win = v
      BY <1>6, <1>16, <2>6
    <3>2. v \in [Offsets -> Byte]
      BY <1>6, <3>1 DEF Shows
    <3>3. fp.fptr % SS = 0
      BY <1>8, <1>11
    <3> HIDE DEF v
    <3>4. buf' = [i \in DOMAIN buf |-> IF i \in br..(br + btr - 1) THEN v[0 + i - br] ELSE buf[i]]
      BY <2>3, <2>6, <3>1, <3>3
    <3>5. Moved(fp, btr) /\ UNCHANGED <<result, pc>>
      BY <2>3, <2>6
    <3>6. buf' \in [0..(BLOCK - 1) -> Byte]
      <4>1. \A i \in 0..(BLOCK - 1) : i \in br..(br + btr - 1) => 0 + i - br \in Offsets
        BY <1>10, <2>1, SMT DEF Offsets
      <4> QED BY <1>10, <3>2, <3>4, <4>1
    <3>7. br' = br + btr /\ btr' = 0 /\ file1'.fsize = file1.fsize
      BY <1>8, <1>10, <3>5 DEF Moved
    <3>8. DataInv'
      <4>1. h = file1.fptr \div SS /\ v = medium[c][FileSector(c, f, h)] /\ UNCHANGED <<medium, pc>>
        BY <1>16, <3>5 DEF h, q, v
      <4> QED BY <1>5, <2>1, <3>4, <3>7, <4>1, OddBytes
    <3>9. h = (file1.fptr + btr - 1) \div SS
      <4> DEFINE e == btr - 1
      <4>1. e \in Nat /\ e < SS /\ file1.fptr + btr - 1 = file1.fptr + e
        BY <1>1, <1>10, <2>1
      <4> HIDE DEF e
      <4>2. (file1.fptr % SS) + e < SS
        BY <1>11, <4>1
      <4>3. (file1.fptr + e) \div SS = file1.fptr \div SS
        BY <1>10, <4>1, <4>2, Along
      <4> QED BY <4>1, <4>3 DEF h
    <3>10. fp.curr_sect = FileSector(c, f, h)
      BY <1>8 DEF q
    <3> QED BY <1>5, <1>8, <1>9, <2>1, <2>4, <3>5, <3>6, <3>8, <3>9, <3>10, MovedTurn
  <2> QED BY <2>5, <2>6
<1> QED BY <1>4, <1>14, <1>15, <1>16

-----------------------------------------------------------------------------
(* The invariant.                                                          *)

LEMMA FatStutter == FatInv /\ UNCHANGED fatVars => FatInv'
<1> SUFFICES ASSUME FatInv, UNCHANGED fatVars PROVE FatInv'
  OBVIOUS
<1>1. FatTyped /\ MetaKept
  BY DEF FatInv
<1>2. /\ UNCHANGED <<socket, ready, medium>> /\ UNCHANGED <<STA_NOINIT, fs, fsid, win>>
      /\ UNCHANGED <<first, imagefile, opened>> /\ UNCHANGED <<file1, pc>>
      /\ UNCHANGED <<req, clust, ofs, btr, br, buf, result, before, requests>>
  BY DEF fatVars, cardVars, fsVars, selVars, reqVars
<1>3. UNCHANGED cardVars /\ UNCHANGED fsVars /\ UNCHANGED selVars /\ UNCHANGED reqVars
  BY <1>2 DEF cardVars, fsVars, selVars, reqVars
<1>4. FatTyped'
  BY <1>1, <1>2, <1>3, TypesStay DEF FatTyped
<1>5. MetaKept'
  BY <1>1, <1>2, MetaStays
<1>6. \A c \in Cards : On(c) => On(c)'
  BY <1>3, OnStays
<1>7. \A c \in Cards, f \in Files : Serves(c, f) => Serves(c, f)'
  BY <1>2, <1>6 DEF Serves
<1>8. ServeInv'
  BY <1>2, <1>7 DEF FatInv, ServeInv
<1>9. MountInv'
  BY <1>2, <1>6 DEF FatInv, MountInv
<1>10. SeekInv'
  BY <1>2 DEF FatInv, SeekInv, Target, Clip, Card, File, csize
<1>11. Positioned'
  BY <1>2 DEF FatInv, Positioned, AtSector, Card, File
<1>12. CountInv'
  BY <1>2 DEF FatInv, CountInv, Target, Share, Clip
<1>13. DataInv'
  <2>1. Share' = Share /\ \A i : At(i)' = At(i)
    BY <1>2 DEF Share, Target, Clip, At
  <2>2. \A n \in {br, Share} : ReadUpTo(n)' = ReadUpTo(n) /\ WrittenUpTo(n)' = WrittenUpTo(n)
    BY <1>2, <2>1 DEF ReadUpTo, WrittenUpTo, Card
  <2> QED BY <1>2, <2>1, <2>2 DEF FatInv, DataInv
<1> QED BY <1>4, <1>5, <1>8, <1>9, <1>10, <1>11, <1>12, <1>13 DEF FatInv

LEMMA FatStep == FatInv /\ [FatNext]_fatVars => FatInv'
<1> SUFFICES ASSUME FatInv, [FatNext]_fatVars PROVE FatInv'
  OBVIOUS
<1>1. CASE Firmware
  BY <1>1, MountKeeps, AutoMountKeeps, OpenDirKeeps, NextFileKeeps, OpenKeeps, PollFailsKeeps,
     BrowseKeeps, SelectKeeps, RequestKeeps, FollowKeeps, ArriveKeeps, BeginKeeps,
     TransferKeeps, FinishKeeps, ReportKeeps, Zenon DEF Firmware
<1>2. CASE CardOut
  BY <1>2, CardOutKeeps
<1>3. CASE CardIn
  BY <1>3, CardInKeeps
<1>4. CASE UNCHANGED fatVars
  BY <1>4, FatStutter
<1> QED BY <1>1, <1>2, <1>3, <1>4, Zenon DEF FatNext

\* FatInv is inductive, and so it always holds.
THEOREM FatInvariant == FatSpec => []FatInv
BY FatInitial, FatStep, PTL DEF FatSpec

-----------------------------------------------------------------------------
(* What it says.                                                           *)

LEMMA Coherent == FatInv => WindowCoherent
<1> SUFFICES ASSUME FatInv, ready, fs.winsect # 0 PROVE win = medium[socket][fs.winsect]
  BY DEF WindowCoherent
<1>1. PICK c \in Cards : On(c)
  BY DEF FatInv, MountInv
<1> QED BY <1>1 DEF On

\* The window is never stale: writes go past it, and the card comes and goes.
THEOREM WindowIsCoherent == FatSpec => []WindowCoherent
BY FatInvariant, Coherent, PTL

LEMMA FatTypes == FatInv => FatTypeOK
<1> SUFFICES ASSUME FatInv PROVE FatTypeOK
  OBVIOUS
<1>1. CardTyped /\ FsTyped /\ SelTyped /\ FileTyped /\ ReqTyped
  BY DEF FatInv, FatTyped
<1>2. /\ fs.vol \in {Volume[c] : c \in Cards} \cup {NoVolume}
      /\ fs.id \in 0..(ID_MOD - 1) /\ fsid \in 0..(ID_MOD - 1) /\ win \in [Offsets -> Byte]
      /\ STA_NOINIT \in BOOLEAN
  BY <1>1 DEF FsTyped
<1>3. file1.id \in 0..(ID_MOD - 1) /\ file1.fptr \in 0..file1.fsize /\ file1.sect_clust \in Byte
  BY <1>1 DEF FileTyped
<1> QED BY <1>1, <1>2, <1>3 DEF FatTypeOK, CardTyped, SelTyped, ReqTyped

LEMMA Matches == FatInv => PositionMatches
<1> SUFFICES ASSUME FatInv PROVE PositionMatches
  OBVIOUS
<1> DEFINE p == file1.fptr - 1
           cs == fs.vol.sects_clust * SS
<1>1. ASSUME pc \in {"read", "transfer"}, file1.fptr # 0
      PROVE  /\ file1.curr_sect = Place(opened[1], opened[2], p)[1]
             /\ file1.curr_clust = Chain[opened[1]][opened[2]][p \div cs + 1]
             /\ file1.sect_clust = fs.vol.sects_clust - (p % cs) \div SS
  <2>1. PICK c \in Cards, f \in Files : Serves(c, f) /\ Card = c /\ File = f
    BY <1>1, Served DEF Serving
  <2> DEFINE h == p \div SS
  <2>2. AtSector(c, f, h)
    BY <1>1, <2>1 DEF FatInv, Positioned
  <2>3. p \in Nat
    BY <1>1 DEF FatInv, FatTyped, FileTyped
  <2>4. opened[1] = c /\ opened[2] = f /\ fs.vol.sects_clust = Spc(c)
    BY <2>1 DEF Card, File, Serves, On, Spc
  <2>5. Place(c, f, p) = <<FileSector(c, f, h), p % SS>>
    BY <2>3, PlaceIs
  <2>6. p \div cs = h \div Spc(c) /\ (p % cs) \div SS = h % Spc(c)
    <3>1. SS \in Nat \ {0} /\ Spc(c) \in Nat \ {0}
      BY Sizes, SMT
    <3>2. Nests(SS, Spc(c), p)
      BY <2>3, <3>1, RowsOfRows
    <3> QED BY <2>4, <3>2 DEF Nests
  <2> HIDE DEF p, h, cs
  <2>7. file1.curr_sect = Place(c, f, p)[1]
    BY <2>2, <2>5 DEF AtSector
  <2>8. file1.curr_clust = Chain[c][f][p \div cs + 1] /\ file1.sect_clust = Spc(c) - (p % cs) \div SS
    BY <2>2, <2>6, Zenon DEF AtSector
  <2> QED BY <2>4, <2>7, <2>8
<1>2. pc \in {"read", "transfer"} /\ file1.fptr = 0 => file1.sect_clust = 1
  BY DEF FatInv, Positioned
<1> HIDE DEF p, cs
<1> QED BY <1>1, <1>2, FatTypes, Zenon DEF PositionMatches, p, cs

\* Every variable has its type; and between two turns the file object is in the
\* cluster and the sector of the byte before its position, however it came there:
\* along the chain in f_lseek, or sector by sector in f_read_or_wr.
THEOREM PositionAlwaysMatches == FatSpec => []PositionMatches
BY FatInvariant, Matches, PTL

\* The first bytes of the request are in the file, and no others.
LEMMA AskedIs ==
  ASSUME FatInv, NEW i \in 0..(BLOCK - 1)
  PROVE  i \in Asked <=> i < Share
<1>1. BLOCK \in Nat \ {0} /\ req.blk \in Nat /\ file1.fsize \in Nat
  BY Sizes DEF FatInv, FatTyped, ReqTyped, FileTyped
<1> DEFINE b == req.blk * BLOCK
           F == file1.fsize
<1>2. b \in Nat
  BY <1>1, SMT
<1>3. i \in Asked <=> b + i \in 0..(F - 1)
  BY DEF Asked
<1>4. Target = IF b > F THEN F ELSE b
  BY DEF Target, Clip
<1>5. Target \in Nat /\ F \in Nat
  <2> HIDE DEF b, F
  <2>1. F \in Nat
    BY <1>1 DEF F
  <2> QED BY <1>2, <1>4, <2>1
<1> DEFINE T == Target
<1>6. Share = IF BLOCK <= F - T THEN BLOCK ELSE F - T
  BY <1>1, <1>5, MinOfTwo DEF Share
<1>7. T = (IF b > F THEN F ELSE b) /\ T \in Nat /\ F \in Nat
  BY <1>4, <1>5
<1> HIDE DEF b, F, T
<1> QED BY <1>1, <1>2, <1>3, <1>6, <1>7, SMT

LEMMA Done == FatInv => OkIsDone
<1> SUFFICES ASSUME FatInv, pc = "report", result = "OK"
             PROVE  IF req.wr THEN WritesFile ELSE ReadsFile
  BY DEF OkIsDone
<1>1. IF req.wr THEN WrittenUpTo(Share) ELSE ReadUpTo(Share)
  BY DEF FatInv, DataInv
<1>2. DOMAIN buf = 0..(BLOCK - 1)
  BY DEF FatInv, FatTyped, ReqTyped
<1>3. Asked \subseteq 0..(BLOCK - 1)
  BY DEF Asked
<1>4. CASE req.wr
  <2>1. WrittenUpTo(Share)
    BY <1>1, <1>4
  <2>2. WritesFile
    BY <1>3, <2>1, AskedIs, Zenon DEF WritesFile, WrittenUpTo, Card
  <2> QED BY <1>4, <2>2
<1>5. CASE ~req.wr
  <2>1. ReadUpTo(Share)
    BY <1>1, <1>5
  <2>2. ReadsFile
    BY <1>2, <2>1, AskedIs, Zenon DEF ReadsFile, ReadUpTo, Card
  <2> QED BY <1>5, <2>2
<1> QED BY <1>4, <1>5

\* A request that reports success was done, whatever chain of clusters the file
\* has and wherever its sectors end: a read has brought the bytes of the image, a
\* write has put them there, except for the odd bytes that end the image.
THEOREM OkIsAlwaysDone == FatSpec => []OkIsDone
BY FatInvariant, Done, PTL

\* What a step may change on the cards.
InPlace ==
  medium' # medium =>
    \A c \in Cards : \A s \in DOMAIN medium[c] : \A j \in Offsets :
      medium'[c][s][j] # medium[c][s][j] =>
        /\ req.wr /\ c = opened[1]
        /\ \E i \in Asked : At(i) = <<s, j>> /\ medium'[c][s][j] = before[i]

LEMMA WrittenInPlace == FatInv /\ Transfer => InPlace
<1> SUFFICES ASSUME FatInv, Transfer, medium' # medium,
                    NEW x \in Cards, NEW s \in DOMAIN medium[x], NEW j \in Offsets,
                    medium'[x][s][j] # medium[x][s][j]
             PROVE  /\ req.wr /\ x = opened[1]
                    /\ \E i \in Asked : At(i) = <<s, j>> /\ medium'[x][s][j] = before[i]
  BY Zenon DEF InPlace
<1>1. /\ FatTyped /\ FileTyped /\ CardTyped /\ pc = "transfer" /\ btr > 0
      /\ BLOCK \in Nat /\ SS \in Nat \ {0} /\ br \in Nat /\ btr \in Nat /\ file1.fsize \in Nat
  BY Sizes DEF FatInv, FatTyped, ReqTyped, FileTyped, Transfer
<1>2. PICK c \in Cards, f \in Files : Serves(c, f)
  BY <1>1, Served DEF Serving
<1> DEFINE h == file1.fptr \div SS
           q == FileSector(c, f, h)
<1>3. PICK d \in Nat : /\ req.wr /\ socket = c /\ IsRun(c, f, h, d) /\ d * SS <= btr
                       /\ medium' = [medium EXCEPT ![socket] = WriteSectors(q, d)]
  <2>1. PICK k \in Answers :
        LET n == NextSector(Window(k))
            direct == file1.fptr % SS = 0 /\ btr >= SS
            w == IF n.ok /\ ~direct THEN move_window(n.w, n.fp.curr_sect) ELSE n.w
            ok == n.ok /\ IF direct THEN w.left > 0 ELSE w.ok
        IN /\ Use(w) /\ Blame(ok)
           /\ \/ ~n.ok /\ Fail(n.fp) /\ UNCHANGED <<medium, buf, br, btr>>
              \/ n.ok /\ direct /\ Direct(n.fp, Run(n.fp), ok)
              \/ n.ok /\ ~direct /\ Windowed(n.fp, w) /\ UNCHANGED medium
    BY Zenon DEF Transfer
  <2> DEFINE n == NextSector(Window(k))
             w == Turn(n)
             ok == n.ok /\ IF AtOnce THEN w.left > 0 ELSE w.ok
             fp == SetTo(c, f, h)
             m == Run(fp)
  <2>2. n.ok /\ AtOnce /\ Direct(n.fp, Run(n.fp), ok)
    BY <2>1 DEF AtOnce, Turn
  <2>3. Shows(w, c) /\ (ready => socket = c)
    BY <1>1, <1>2, TurnShows DEF Serves, On
  <2>4. Within(c, f, h) /\ n.fp = IF n.ok THEN fp ELSE [file1 EXCEPT !.sect_clust = 0]
    <3>1. Shows(Window(k), c)
      BY <1>1, <1>2, WindowShows DEF Serves
    <3> QED BY <1>1, <1>2, <3>1, NextIsSector
  <2>5. fp.curr_sect = q
    BY <1>1, <2>4, SetToTyped
  <2>6. m \in Nat \ {0} /\ \A d \in 1..m : IsRun(c, f, h, d) /\ d * SS <= btr
    <3>1. btr >= SS
      BY <2>2 DEF AtOnce
    <3> QED BY <1>1, <1>2, <3>1, RunHere
  <2> HIDE DEF n, w, fp, h, q
  <2>7. Direct(fp, m, ok)
    BY <2>2, <2>4
  <2>8. ok => socket = c
    BY <2>2, <2>3 DEF Shows
  <2> HIDE DEF ok, m
  <2>9. PICK done \in (IF ok THEN {m} ELSE IF ready THEN 0..m ELSE {0}) :
          IF done = 0 THEN UNCHANGED <<medium, buf>>
          ELSE IF req.wr
          THEN /\ medium' = [medium EXCEPT ![socket] = WriteSectors(q, done)]
               /\ UNCHANGED buf
          ELSE /\ done = m => ok
               /\ buf' = ReadSectors(q, done)
               /\ UNCHANGED medium
    BY <2>5, <2>7, Zenon DEF Direct
  <2>10. done # 0 /\ req.wr /\ medium' = [medium EXCEPT ![socket] = WriteSectors(q, done)]
    BY <2>9
  <2>11. done \in 1..m /\ socket = c /\ done \in Nat
    BY <2>3, <2>6, <2>8, <2>9, <2>10
  <2> QED BY <2>6, <2>10, <2>11
<1>4. /\ \A y \in Cards : y # c => medium'[y] = medium[y]
      /\ RunOn(c, f, h, d)
  BY <1>1, <1>2, <1>3, RunWritten
<1>5. x = c /\ opened[1] = c
  BY <1>2, <1>4 DEF Serves
<1>6. s \in DOMAIN Contents[c]
  BY <1>1, <1>5 DEF CardTyped
<1>7. PICK e \in 0..(d - 1) : s = q + e
  BY <1>4, <1>5, <1>6, Zenon DEF RunOn
<1>8. medium'[c][s][j] = buf[br + e * SS + j]
  BY <1>4, <1>6, <1>7, Zenon DEF RunOn
<1> DEFINE i == br + e * SS + j
<1>9. i \in Nat /\ br <= i /\ i < br + d * SS /\ (i - br) \div SS = e /\ (i - br) % SS = j
  <2>1. d \in Nat \ {0}
    BY <1>3 DEF IsRun
  <2> QED BY <1>1, <2>1, SlotIs
<1> HIDE DEF i
<1>10. At(i) = <<q + e, j>>
  <2>1. At(i) = <<q + ((i - br) \div SS), (i - br) % SS>>
    BY <1>1, <1>2, <1>3, <1>9, BytesOfRun
  <2> QED BY <1>9, <2>1
<1>11. buf = before
  BY <1>1, <1>3 DEF FatInv, DataInv
<1>12. i \in Asked
  <2>1. /\ Target = req.blk * BLOCK /\ Target \in Nat /\ file1.fptr = Target + br
        /\ file1.fptr + btr <= file1.fsize /\ br + btr <= BLOCK
    BY <1>1, AtHead
  <2> DEFINE T == Target
             D == d * SS
             P == file1.fptr
             F == file1.fsize
  <2>2. D <= btr /\ i < br + D
    BY <1>3, <1>9
  <2>3. D \in Int
    BY <1>1, <1>3, SMT
  <2>4. T \in Nat /\ P = T + br /\ P + btr <= F /\ br + btr <= BLOCK /\ F \in Nat
    BY <1>1, <2>1
  <2> HIDE DEF T, D, P, F
  <2>5. i \in 0..(BLOCK - 1) /\ T + i \in 0..(F - 1)
    BY <1>1, <1>9, <2>2, <2>3, <2>4, SMT
  <2> QED BY <2>1, <2>5 DEF Asked, T, F
<1> QED BY <1>3, <1>5, <1>7, <1>8, <1>10, <1>11, <1>12 DEF i

LEMMA StepInPlace == FatInv /\ [FatNext]_fatVars => InPlace
<1> SUFFICES ASSUME FatInv, [FatNext]_fatVars, medium' # medium PROVE InPlace
  BY DEF InPlace
<1>1. Transfer
  <2>1. ~(UNCHANGED medium)
    OBVIOUS
  <2>2. ~(UNCHANGED fatVars)
    BY <2>1 DEF fatVars, cardVars
  <2>3. ~CardOut /\ ~CardIn
    BY <2>1 DEF CardOut, CardIn
  <2>4. ~Mount /\ ~AutoMount /\ ~OpenDir /\ ~NextFile /\ ~f_open
    BY <2>1, Zenon DEF Mount, AutoMount, OpenDir, NextFile, f_open, cardVars
  <2>5. ~PollFails /\ ~Browse /\ ~Select /\ ~Request /\ ~Follow
    BY <2>1, Zenon DEF PollFails, Browse, Select, Request, Follow, cardVars
  <2>6. ~Arrive /\ ~Begin /\ ~Finish /\ ~Report
    BY <2>1, Zenon DEF Arrive, Begin, Finish, Report, cardVars
  <2> QED BY <2>2, <2>3, <2>4, <2>5, <2>6, Zenon DEF FatNext, Firmware
<1> QED BY <1>1, WrittenInPlace

\* The cards change only under a write, in bytes the request asked for, of the file
\* that was opened, on the card it was opened on, and to the bytes sent; whatever
\* fails, and whichever card was in the socket before.
THEOREM WritesAreInPlace == FatSpec => WritesInPlace
<1>1. FatInv /\ [FatNext]_fatVars => [InPlace]_fatVars
  BY StepInPlace
<1>2. FatSpec => [][InPlace]_fatVars
  BY <1>1, FatInvariant, PTL DEF FatSpec
<1>3. [][InPlace]_fatVars <=> WritesInPlace
  BY DEF InPlace, WritesInPlace
<1> QED BY <1>2, <1>3
=============================================================================
