----------------------------- MODULE DataShare -----------------------------
(***************************************************************************)
(* How the synchronised simulators share fields                            *)
(* (mt/src/SimSyncDataShare.cpp): the bytes of the fields connected to     *)
(* "outputs" of one side, one after the other, are loaded into the fields  *)
(* connected to "inputs" of the other side, by position alone. A list of   *)
(* fields is the sequence of their sizes; byte b of output i is <<i, b>>.  *)
(***************************************************************************)
EXTENDS Integers, Sequences

Bytes(sizes, i) == [b \in 1 .. sizes[i] |-> <<i, b>>]

\* The fields store themselves, in the order of their connection: what the
\* first n of them have written.
Stored(sizes) ==
  LET upTo[n \in 0 .. Len(sizes)] ==
        IF n = 0 THEN <<>> ELSE upTo[n - 1] \o Bytes(sizes, n)
  IN  upTo

retrieveData(sizes) == Stored(sizes)[Len(sizes)]

\* What the fields before the i-th one have taken from the buffer.
Taken(sizes, i) == Len(Stored(sizes)[i - 1])

\* Restore copies without looking at what the buffer has left.
Garbage == <<0, 0>>

loadData(sizes, buf) ==
  [i \in DOMAIN sizes |-> [b \in 1 .. sizes[i] |->
     LET at == Taken(sizes, i) + b
     IN IF at <= Len(buf) THEN buf[at] ELSE Garbage]]

=============================================================================
