-------------------------- MODULE MCPlaybackService --------------------------
(* Values of the constants of PlaybackService for model checking. *)
EXTENDS PlaybackService

CONSTANTS a, b, v, p

OneSong == {a}
TwoSongs == {a, b}
SongAndVideo == {a, v}
SongAndPlaylist == {a, p}
OnlyVideo == {v}
NoVideo == {}

(* p is a playlist file holding two songs, the rest has no sub-items. *)
Leaves == [m \in Media |-> <<>>]
TwoInside == [m \in Media |-> IF m = p THEN <<a, a>> ELSE <<>>]

SongVideoLists == {<<a, v>>, <<v, a>>}
ThreeSongs == {<<a, b, a>>}
WithEmpty == {<<>>, <<a, v>>}
FourTimes == {<<a, a, a, a>>}
FourSongs == {<<a, b, a, b>>}
PlaylistLists == {<<a>>, <<p>>, <<a, p>>, <<p, a>>}
=============================================================================
