---------------------------- MODULE MCLiveCheck ---------------------------
(***************************************************************************)
(* Two labs of two devices, at most two polls, all flag combinations that  *)
(* "labs check" can pass; and the snapshot modes of Run for their own.     *)
(***************************************************************************)
EXTENDS LiveCheck

Flags(checkFIB, snapshots, offline) ==
    [keepOnFailure : BOOLEAN, skipDestroy : BOOLEAN, continueOnError : BOOLEAN,
     checkFIB : checkFIB, snapshot : snapshots, offline : offline]

MCOptions ==
    Flags(BOOLEAN, {"none"}, {FALSE}) \cup Flags({FALSE}, {"same", "differs"}, BOOLEAN)

===========================================================================
