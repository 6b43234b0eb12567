----------------------------- MODULE MCUpdater -----------------------------
(***************************************************************************)
(* A staging area of six pages of four half-words; the current core, which *)
(* the updater never touches, is one page.                                 *)
(***************************************************************************)
EXTENDS Updater

CONSTANT MaxMishaps     \* resets, and flash operations that time out

mcMagicHi == {6}

(***************************************************************************)
(* A header, a chunk of a header's length that is none, chunks of one word *)
(* and of one and a half.                                                  *)
(***************************************************************************)
mcData == { <<5, 6, 0, 1>>, <<1, 2, 3, 4>>, <<0, 1>>, <<3, 0, 7>> }

mcStale == {2}
mcCrcWords == { <<4, 3>> }

VARIABLE mishaps

mcInit == Init /\ mishaps = 0

Operation(st) == WriteNext(st) \/ EraseNext(st)

mcNext ==
    \/ /\ \/ Receive \/ Done \/ HardFault \/ Installed
          \/ Operation("COMPLETE") \/ Operation("ERROR")
       /\ UNCHANGED mishaps
    \/ /\ Operation("TIMEOUT") \/ Reset
       /\ mishaps < MaxMishaps
       /\ mishaps' = mishaps + 1

mcSpec == mcInit /\ [][mcNext]_<<vars, mishaps>>

=============================================================================
