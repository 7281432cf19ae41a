-------------------------- MODULE MediaWrapperList --------------------------
(***************************************************************************)
(* The playlist container of the playback service, as operators on the     *)
(* value of mInternalList (vlc/media/MediaWrapperList.java).  Positions    *)
(* are the program's: they start at 0, -1 means "none".  The events that   *)
(* insert, move and remove signal are the caller's business: the service   *)
(* is the only listener (PlaybackService.tla).                             *)
(***************************************************************************)
EXTENDS Integers, Sequences, SequencesExt

(* isValid *)
Valid(list, position) == position \in 0 .. Len(list) - 1

(* getMedia, for a valid position *)
Item(list, position) == list[position + 1]

(* insert, for a position of 0 .. size *)
Insert(list, position, media) == InsertAt(list, position + 1, media)

(* remove(int), for a valid position *)
Delete(list, position) == RemoveAt(list, position + 1)

(* move: end counts positions before the item is taken out *)
Move(list, start, end) ==
    Insert(Delete(list, start), IF start >= end THEN end ELSE end - 1, Item(list, start))

(* remove(String) next takes out position i, when it has looked at those   *)
(* before "from" already.                                                  *)
NextHit(list, from, media, i) ==
    /\ i >= from /\ Valid(list, i) /\ Item(list, i) = media
    /\ \A j \in from .. i - 1 : Item(list, j) # media
=============================================================================
