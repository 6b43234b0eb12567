--------------------------- MODULE MCUpdateCycle ---------------------------
(***************************************************************************)
(* The flash of MCBootloader with twelve staged pages, so that "crc" does  *)
(* not read past its end: four half-words to a page, eight pages of        *)
(* current core, a header that fills one page, and four staged pages that  *)
(* the bootloader erases.  The PC sends chunks of one word.                *)
(***************************************************************************)
EXTENDS UpdateCycle

mcMagicHi == {6}

Img(lo, hi, body) ==
    [ver |-> 6, date |-> 0, lo |-> lo, hi |-> hi, body |-> body]

(***************************************************************************)
(* Two cores of eight half-words, which cover two staged pages, one with   *)
(* erased half-words in both and a zero one, the other all zero but its    *)
(* ends; and one of three half-words, whose last chunk is half a word.     *)
(***************************************************************************)
mcImages == { Img(0, 2, <<1, 7, 0, 2, 7, 1, 3, 2>>),
              Img(0, 2, <<3, 0, 0, 0, 0, 0, 0, 4>>),
              Img(6, 0, <<2, 3, 4>>) }

mcLoopFromZero == {0}
mcStale == {0, 1}
mcCrcWords == { <<4, 3>> }

=============================================================================
