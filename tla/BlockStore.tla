----------------------------- MODULE BlockStore -----------------------------
(***************************************************************************)
(* What diskio.h promises the file system: numbered blocks on the card in  *)
(* the socket, read and written by calls that may fail at any point, while *)
(* the user pulls and changes cards.                                       *)
(***************************************************************************)
EXTENDS Integers, Sequences

CONSTANTS
  Cards, Contents,
  Sectors, Counts, Payloads   \* what is asked for: where, how much, what to write

VARIABLES
  slot,    \* the card in the socket, or "none"
  mem,     \* what the cards hold
  fresh,   \* the block written last may still be lost: <<card, sector, what it was>>
  call,    \* the call in hand
  buff,    \* the blocks handed over so far
  result

NoCall == [op |-> "none"]

storeVars == <<slot, mem, fresh, call, buff, result>>

StoreInit ==
  /\ slot \in Cards \cup {"none"} /\ mem = Contents /\ fresh = <<>>
  /\ call = NoCall /\ buff = <<>> /\ result = "OK"

Ask ==
  /\ call = NoCall
  /\ \E op \in {"initialize", "poll", "read", "write"}, s \in Sectors, n \in Counts,
        data \in Payloads :
       call' = [op |-> op, sector |-> s, count |-> n, data |-> data, card |-> slot,
                well |-> TRUE]
  /\ buff' = <<>>
  /\ UNCHANGED <<slot, mem, fresh, result>>

\* A write replaces the addressed blocks of the card it was addressed to, in
\* any order and not necessarily all.
Put ==
  /\ call # NoCall /\ call.op = "write" /\ slot \in Cards /\ slot = call.card
  /\ \E i \in 1..call.count :
       /\ mem' = [mem EXCEPT ![slot][call.sector + i - 1] = call.data[i]]
       /\ fresh' = <<slot, call.sector + i - 1, mem[slot][call.sector + i - 1]>>
  /\ UNCHANGED <<slot, call, buff, result>>

Settle == fresh' = <<>> /\ UNCHANGED <<slot, mem, call, buff, result>>

Hand == call # NoCall /\ buff' # buff /\ UNCHANGED <<slot, mem, fresh, call, result>>

Blocks(c, s, n) == [i \in 1..n |-> mem[c][s + i - 1]]

\* The card stops working, and the call in hand may not notice.
Break ==
  /\ call # NoCall /\ call' = [call EXCEPT !.well = FALSE]
  /\ UNCHANGED <<slot, mem, fresh, buff, result>>

\* The call says it worked: the card that was there, and well, all the time has
\* it so.
Succeed ==
  /\ call # NoCall
  /\ call.well =>
       /\ call.card \in Cards
       /\ call.op = "read" => buff = Blocks(call.card, call.sector, call.count)
       /\ call.op = "write" =>
            Blocks(call.card, call.sector, call.count) = SubSeq(call.data, 1, call.count)
  /\ call' = NoCall /\ buff' = <<>> /\ result' = "OK"
  /\ UNCHANGED <<slot, mem, fresh>>

Fail ==
  /\ call # NoCall
  /\ call' = NoCall /\ buff' = <<>> /\ result' \in {"ERROR", "NOTRDY"}
  /\ UNCHANGED <<slot, mem, fresh>>

\* A card pulled before it was done with its last block may lose that block.
Change ==
  /\ slot' \in Cards \cup {"none"} /\ slot' # slot
  /\ mem' \in {mem} \cup (IF fresh = <<>> THEN {}
                          ELSE {[mem EXCEPT ![fresh[1]][fresh[2]] = fresh[3]]})
  /\ fresh' = <<>>
  /\ call' = IF call = NoCall THEN NoCall ELSE [call EXCEPT !.well = FALSE]
  /\ UNCHANGED <<buff, result>>

StoreNext == Ask \/ Put \/ Settle \/ Hand \/ Succeed \/ Fail \/ Break \/ Change
StoreSpec == StoreInit /\ [][StoreNext]_storeVars
=============================================================================
