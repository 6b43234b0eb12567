----------------------------- MODULE MCSession -----------------------------
(***************************************************************************)
(* Chunks of three half-words, of which the first begins as an image does, *)
(* with a low half of zero; five places, and a CRC that reads past the     *)
(* flash once two chunks are stored.                                       *)
(***************************************************************************)
EXTENDS Session

mcFile == << <<0, 2, 1>>, <<1, 0, 3>> >>

\* Among them words with a half that is zero or all ones.
mcCrcWords == { <<1, 2>>, <<0, 3>>, <<3, 0>> }

\* Too short, like an answer, four bytes of a CRC, and 0xFFFFFFFF.
mcStrays ==
    { [from |-> "other", len |-> 2, byte |-> "other"],
      [from |-> "other", len |-> 3, byte |-> "other"],
      [from |-> "other", len |-> 4, byte |-> "BB"],
      [from |-> "other", len |-> 4, byte |-> "FF"] }

=============================================================================
