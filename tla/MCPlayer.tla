------------------------------ MODULE MCPlayer ------------------------------
(***************************************************************************)
(* The music player: the internet radio, the sound output, and the lists   *)
(* of the music on the card.  The parts share no state here.  For TLC,     *)
(* each behaviour is one of one part.                                      *)
(***************************************************************************)
EXTENDS Radio, Audio, MusicList

\* What the card may hold: albums of one and of several files, of equal numbers and
\* not in order, and files that are no music.
Song(album, track) == [kind |-> "music", album |-> album, track |-> track]
Another(kind) == [kind |-> kind, album |-> 0, track |-> 0]
TwoAlbums == <<Song(1, 1), Another("radio"), Song(1, 1), Song(2, 1)>>
OneAlbum == <<Song(2, 3), Another("broken"), Song(2, 1), Song(2, 2)>>
MCCardContents == {TwoAlbums, OneAlbum}

VARIABLE part  \* the part that runs; the others stay as they begin

playerVars == <<part, radioVars, audioVars, musicListVars>>

PlayerInit ==
    /\ part \in {"radio", "audio", "list"}
    /\ RadioInit
    /\ AudioInit /\ (part # "audio" => parts = 1)
    /\ MusicListInit /\ (part # "list" => files = OneAlbum)

PlayerNext ==
    \/ part = "radio" /\ RadioUndropped /\ UNCHANGED <<part, audioVars, musicListVars>>
    \/ part = "audio" /\ AudioNext /\ UNCHANGED <<part, radioVars, musicListVars>>
    \/ part = "list" /\ MusicListNext /\ UNCHANGED <<part, radioVars, audioVars>>

PlayerSpec == PlayerInit /\ [][PlayerNext]_playerVars

\* The radio, the sound that is played, and the music that there is to play.
SoundInv == RadioInv /\ AudioInv /\ MusicListInv
=============================================================================
