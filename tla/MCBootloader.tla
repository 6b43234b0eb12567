---------------------------- MODULE MCBootloader ----------------------------
(***************************************************************************)
(* A flash of seventeen pages of four half-words, whose values run from 0  *)
(* to 7: eight pages of current core, as in the code, and nine staged ones *)
(* of which the bootloader erases four.  The header ("ve", "r.", the size  *)
(* word; the date is left out) fills a page of its own, so that a core of  *)
(* eight half-words takes two pages in either place.                       *)
(***************************************************************************)
EXTENDS Bootloader

mcMagicHi == {6}

Img(lo, hi, body) ==
    [ver |-> 6, date |-> 0, lo |-> lo, hi |-> hi, body |-> body]

(***************************************************************************)
(* Three images: two cores of 16 bytes that differ everywhere, one with an *)
(* erased and a zero half-word in it, the other with a CRC word behind it; *)
(* and a core of four bytes.  The copy loop moves 32 and 8 half-words.     *)
(***************************************************************************)
mcImages == { Img(0, 2, <<1, 7, 0, 2, 1, 1, 3, 2>>),
              Img(0, 2, <<2, 3, 4, 1, 3, 3, 1, 4, 3, 3>>),
              Img(4, 0, <<4, 4>>) }

\* A core of 32 bytes: sixteen half-words, half the erased sector.
mcLargeImages == { Img(0, 4, <<1, 2, 3, 4, 1, 2, 3, 4, 1, 2, 3, 4, 1, 2, 3, 4>>) }

mcAllImages == mcImages \cup mcLargeImages

mcLoopFromZero == {0}
mcLoopFromAnywhere == {0, 1, HeaderHalves}

=============================================================================
