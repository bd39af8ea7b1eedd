----------------------------- MODULE MusicList -----------------------------
(***************************************************************************)
(* The lists of the music player (apps/musicplay): what a search of the SD *)
(* card finds, the file that keeps it for the next start (filelist.c),     *)
(* where the player is in them (sdmusic.c, sdmusic_ctrl_view.c) and what   *)
(* its list view shows (list_view.c, settings_view.c).  The place is kept  *)
(* in another file, of another storage, with the CRC of the lists          *)
(* (musicplay.c, uilib/appsetting.c).                                      *)
(*                                                                         *)
(* An event is handled in one step, by the one task there is.  A file is   *)
(* a sequence of what was written, one piece for a structure, without its  *)
(* header, and the CRC of one is what it was taken of: 0 is <<>>.  All     *)
(* lists fit the screen, and memory does not run out.  What is read        *)
(* outside a list ends the story: astray tells where, up to the next       *)
(* start.                                                                  *)
(***************************************************************************)
EXTENDS Integers, Sequences, FiniteSets, SequencesExt

CONSTANTS
    CardContents,          \* what the card may hold: sequences of files
    INIT_ALBUM_MUSIC_NUM,
    MaxRadioCount,         \* bound: radios counted before a search
    MaxFailures            \* bound: files that are not written whole

\* A file has its number in the album (unsigned char track) and the name of the album.
ASSUME MusicListAssumption ==
    /\ CardContents \subseteq Seq([kind : STRING, album : Nat, track : Nat])
    /\ INIT_ALBUM_MUSIC_NUM \in Nat \ {0}
    /\ MaxRadioCount \in Nat /\ MaxFailures \in Nat

VARIABLES
    files,       \* of the card
    info,        \* musicinfo.dat, <<>> for none
    config,      \* musiplay.cfg
    failures,
    running,
    lists,
    minfo_crc, backup_crc,
    play,        \* play_album_num and play_track_num
    sdmusicplay_status,
    musicplay_mode, sd_disp_mode,
    view,        \* select_album_num, and the count and selected item of music_select
    last,        \* last_album_num and last_music_num
    song,        \* of the player: "none", "opened" or "ready"
    astray,      \* what was read outside the lists: "no" for nothing
    replaced,    \* history: a search found other lists than those before
    unbacked     \* history: the place was saved with a CRC that is not of its lists

cardVars == <<files, info>>
listVars == <<lists, minfo_crc, backup_crc>>
viewVars == <<view, last>>
musicListVars == <<files, info, config, failures, running, lists, minfo_crc, backup_crc, play,
                   sdmusicplay_status, musicplay_mode, sd_disp_mode, view, last, song, astray,
                   replaced, unbacked>>

Place(album, track) == [album |-> album, track |-> track]
Start == Place(0, 0)
NoLists == [items |-> <<>>, albums |-> <<>>, radios |-> 0, radio_count |-> 0]
NoView == [select |-> 0, count |-> 0, item |-> 0]
NoConfig == [there |-> FALSE, disp |-> "info", play |-> Start, mode |-> "sd", crc |-> <<>>,
             unbacked |-> FALSE]

MusicListInit ==
    /\ files \in CardContents /\ info = <<>> /\ config = NoConfig
    /\ failures = 0 /\ running = FALSE
    /\ lists = NoLists /\ minfo_crc = <<>> /\ backup_crc = <<>>
    /\ play = Start /\ sdmusicplay_status = "notready"
    /\ musicplay_mode = "sd" /\ sd_disp_mode = "info"
    /\ view = NoView /\ last = Start /\ song = "none"
    /\ astray = "no" /\ replaced = FALSE /\ unbacked = FALSE

-----------------------------------------------------------------------------
(* create_filelist(): the files in the order of the card. *)

Item(f, n) == [piece |-> "item", album |-> f.album, track |-> f.track, number |-> n]
Track(item) == [piece |-> "track", track |-> item.track, file_num |-> item.number]

\* Mistake: behind the tracks of a lower number only.
Later_NotHigher(tracks, item) == {i \in DOMAIN tracks : item.track <= tracks[i].track}

Later(tracks, item) == {i \in DOMAIN tracks : item.track < tracks[i].track}

\* add_item(), in a list that add_album() has made longer where it is full.
AddItem(album, item) ==
    LET count == Len(album.tracks)
        behind == Later(album.tracks, item)
        place == IF behind = {} THEN count + 1 ELSE Min(behind)
        max == album.max_track_count
    IN  [album EXCEPT
           !.max_track_count = IF count < max THEN max ELSE max + INIT_ALBUM_MUSIC_NUM,
           !.tracks = InsertAt(album.tracks, place, Track(item))]

NewAlbum(name) ==
    [name |-> name, max_track_count |-> INIT_ALBUM_MUSIC_NUM, tracks |-> <<>>]

AddAlbum(albums, item) ==
    IF \E i \in DOMAIN albums : albums[i].name = item.album
      THEN [i \in DOMAIN albums |->
              IF albums[i].name = item.album THEN AddItem(albums[i], item) ELSE albums[i]]
      ELSE Append(albums, AddItem(NewAlbum(item.album), item))

AddFile(found, f) ==
    CASE f.kind = "music" ->
           LET item == Item(f, Len(found.items))
           IN  [found EXCEPT !.items = Append(@, item), !.albums = AddAlbum(@, item)]
      [] f.kind = "radio" -> [found EXCEPT !.radios = @ + 1, !.radio_count = @ + 1]
      [] OTHER -> found

\* radio_count goes on from the search before.
CreateFilelist ==
    LET found[n \in 0..Len(files)] ==
          IF n = 0 THEN [NoLists EXCEPT !.radio_count = lists.radio_count]
          ELSE AddFile(found[n - 1], files[n])
    IN  found[Len(files)]

-----------------------------------------------------------------------------
(* The file of the lists. *)

Number(n) == [piece |-> "number", n |-> n]
AlbumPiece(album) ==
    [piece |-> "album", name |-> album.name, max |-> album.max_track_count,
     count |-> Len(album.tracks)]

\* Each album with its tracks behind it.
AlbumPieces(albums) ==
    LET written[n \in 0..Len(albums)] ==
          IF n = 0 THEN <<>>
          ELSE written[n - 1] \o <<AlbumPiece(albums[n])>> \o albums[n].tracks
    IN  written[Len(albums)]

Pieces(l) ==
    <<Number(Len(l.items)), Number(Len(l.albums)), Number(l.radio_count)>>
      \o l.items \o AlbumPieces(l.albums) \o [i \in 1..l.radios |-> [piece |-> "radio"]]

Whole(l) == Append(Pieces(l), [piece |-> "crc", of |-> Pieces(l)])

\* save_filelist(): the file and the CRC that it leaves.  The file may not be opened,
\* or end in its header, after its first piece or before its CRC; SavedListsLoad says
\* that it is the same wherever it ends.
SaveFilelist(l) ==
    {[info |-> Whole(l), crc |-> Pieces(l), failures |-> failures]} \cup
    (IF failures = MaxFailures THEN {}
     ELSE {[info |-> left, crc |-> <<>>, failures |-> failures + 1] : left \in {info, <<>>}} \cup
          {[info |-> SubSeq(Pieces(l), 1, n), crc |-> SubSeq(Pieces(l), 1, n),
            failures |-> failures + 1] : n \in {1, Len(Pieces(l))}})

AreAll(f, from, to, piece) == \A i \in from..to : i <= Len(f) /\ f[i].piece = piece

\* Mistake: the list is taken as it was allocated.
TracksEnd_Allocated(f, at) == at + f[at].max

TracksEnd(f, at) == at + f[at].count

ReadAlbum(f, r) ==
    IF r.ok /\ AreAll(f, r.at, r.at, "album") /\ AreAll(f, r.at + 1, TracksEnd(f, r.at), "track")
      THEN LET end == TracksEnd(f, r.at)
               album == [name |-> f[r.at].name, max_track_count |-> f[r.at].max,
                         tracks |-> SubSeq(f, r.at + 1, end)]
           IN  [r EXCEPT !.at = end + 1, !.albums = Append(@, album)]
      ELSE [r EXCEPT !.ok = FALSE]

\* The albums, behind so many items.
ReadAlbums(f, items, count) ==
    LET read[n \in 0..count] ==
          IF n = 0 THEN [ok |-> AreAll(f, 4, 3 + items, "item"), at |-> 4 + items, albums |-> <<>>]
          ELSE ReadAlbum(f, read[n - 1])
    IN  read[count]

\* load_filelist(): the lists, and nothing of them unless all was read and the CRC
\* is right.
LoadFilelist(f) ==
    IF Len(f) < 3 THEN [ok |-> FALSE, lists |-> NoLists]
    ELSE LET items == f[1].n
             radios == f[3].n
             read == ReadAlbums(f, items, f[2].n)
             end == read.at + radios
             ok == /\ read.ok /\ AreAll(f, read.at, end - 1, "radio") /\ AreAll(f, end, end, "crc")
                   /\ f[end].of = SubSeq(f, 1, end - 1)
         IN  [ok |-> ok,
              lists |-> IF ~ ok THEN NoLists
                        ELSE [items |-> SubSeq(f, 4, 3 + items), albums |-> read.albums,
                              radios |-> radios, radio_count |-> radios]]

-----------------------------------------------------------------------------
(* musiplay.cfg: a line for each value, the CRC in the last one. *)

\* What is kept of a file that ends after some of its lines.
Lines(whole, n) ==
    [whole EXCEPT !.disp = IF n >= 1 THEN @ ELSE NoConfig.disp,
                  !.play = IF n >= 2 THEN @ ELSE NoConfig.play,
                  !.mode = IF n >= 3 THEN @ ELSE NoConfig.mode,
                  !.crc = IF n >= 4 THEN @ ELSE NoConfig.crc,
                  !.unbacked = @ \/ n < 4]

\* save_config(), of the values that the step leaves; failures is set before.  The CRC
\* may be that of the lists before a search, or of a part of the lists, when they were
\* not saved whole; it does not matter to the first place of all.
SaveConfig(before) ==
    LET whole == [there |-> TRUE, disp |-> sd_disp_mode', play |-> play',
                  mode |-> musicplay_mode', crc |-> backup_crc',
                  unbacked |-> \/ unbacked'
                               \/ play' # Start /\ backup_crc' # Pieces(lists')]
    IN  \/ config' = whole /\ failures' = before
        \/ /\ before < MaxFailures /\ failures' = before + 1
           /\ \/ UNCHANGED config
              \/ \E n \in 0..3 : config' = Lines(whole, n)

-----------------------------------------------------------------------------
(* What is read of the lists, for the list view and to open a song. *)

FirstOf(reads) ==
    LET bad == {i \in DOMAIN reads : reads[i] # "no"}
    IN  IF bad = {} THEN "no" ELSE reads[Min(bad)]

IsAlbum(l, n) == n \in 0..(Len(l.albums) - 1)
IsPlace(l, p) == IsAlbum(l, p.album) /\ p.track \in 0..(Len(l.albums[p.album + 1].tracks) - 1)
TracksOf(l, n) == Len(l.albums[n + 1].tracks)

\* draw_album_item() or draw_music_item().
Drawable(l, disp, select, n) ==
    CASE disp = "album" -> IsAlbum(l, n)
      [] disp = "music" -> IsPlace(l, Place(select, n))
      [] OTHER -> TRUE

DrawItem(l, disp, select, n) == IF Drawable(l, disp, select, n) THEN "no" ELSE "draw"

DrawList(l, disp, v) ==
    IF \A n \in 0..(v.count - 1) : Drawable(l, disp, v.select, n) THEN "no" ELSE "draw"

\* set_play_album_music_num_list_view() draws the item that was played and the one
\* that is, by their numbers, whatever album is listed.
DrawPlaying(l, disp, select, p) ==
    LET number == IF disp = "album" THEN p.album ELSE p.track
    IN  IF Drawable(l, disp, select, number) THEN "no"
        ELSE IF disp = "music" /\ p.album # select THEN "other" ELSE "draw"

DrawPlayed(l, disp, select, from, to) ==
    FirstOf(<<DrawPlaying(l, disp, select, from), DrawPlaying(l, disp, select, to)>>)

\* open_now_sdmusic().
ReadFile(l, p) == IF l.items = <<>> \/ IsPlace(l, p) THEN "no" ELSE "play"

-----------------------------------------------------------------------------
(* musicplay_task(), up to its loop. *)

\* Mistake: the place is only forgotten when there is nothing to play.
Remembered_Any(l, crc) == l.items # <<>>

\* The place is that of these lists.
Remembered(l, crc) == config.crc = crc

\* init_list_view(); the second field is what it reads outside the lists.
ListView(l, p) ==
    CASE config.disp = "album" -> <<[select |-> p.album, count |-> Len(l.albums), item |-> p.album], "no">>
      [] config.disp = "music" ->
           IF IsAlbum(l, p.album)
             THEN <<[select |-> p.album, count |-> TracksOf(l, p.album), item |-> p.track], "no">>
             ELSE <<[select |-> p.album, count |-> 0, item |-> 0], "start">>
      [] OTHER -> <<[NoView EXCEPT !.select = p.album], "no">>

StartPlayer(l, failed) ==
    LET known == Remembered(l, minfo_crc')
        opens == config.mode = "sd" /\ l.items # <<>>
        v == ListView(l, play')
    IN  /\ running' = TRUE
        /\ lists' = l /\ backup_crc' = minfo_crc'
        /\ play' = IF known THEN config.play ELSE Start
        /\ musicplay_mode' = config.mode /\ sd_disp_mode' = config.disp
        /\ view' = v[1]
        /\ last' = IF opens THEN play' ELSE Start
        /\ song' = IF opens THEN "opened" ELSE "none"
        /\ astray' = FirstOf(<<v[2],
                       IF opens THEN DrawPlayed(l, config.disp, play'.album, Start, play') ELSE "no",
                       IF opens THEN ReadFile(l, play') ELSE "no",
                       IF config.mode = "sd" THEN DrawList(l, config.disp, v[1]) ELSE "no">>)
        /\ unbacked' = (known /\ config.unbacked)
        /\ IF known /\ config.there THEN failures' = failed /\ UNCHANGED config
                                    ELSE SaveConfig(failed)
        /\ UNCHANGED <<files, sdmusicplay_status, replaced>>

\* prepare_filelist().  A list that was not loaded is not made.
StartLoads ==
    LET read == LoadFilelist(info)
    IN  /\ ~ running
        /\ minfo_crc' = IF read.ok THEN Pieces(read.lists) ELSE <<>>
        /\ StartPlayer(read.lists, failures)
        /\ UNCHANGED info

\* A key is held down, and the lists are made.
StartCreates ==
    /\ ~ running
    /\ \E saved \in SaveFilelist(CreateFilelist) :
         /\ info' = saved.info /\ minfo_crc' = saved.crc
         /\ StartPlayer(CreateFilelist, saved.failures)

\* The next start finds the memory as the first did.
PowerOff ==
    /\ running /\ running' = FALSE
    /\ lists' = NoLists /\ minfo_crc' = <<>> /\ backup_crc' = <<>>
    /\ play' = Start /\ sdmusicplay_status' = "notready"
    /\ musicplay_mode' = "sd" /\ sd_disp_mode' = "info"
    /\ view' = NoView /\ last' = Start /\ song' = "none"
    /\ astray' = "no" /\ replaced' = FALSE /\ unbacked' = FALSE
    /\ UNCHANGED <<cardVars, config, failures>>

\* The card is taken elsewhere.
ChangeFiles ==
    /\ ~ running
    /\ files' \in CardContents \ {files}
    /\ UNCHANGED <<info, config, failures, running, listVars, play, sdmusicplay_status,
                   musicplay_mode, sd_disp_mode, viewVars, song, astray, replaced, unbacked>>

-----------------------------------------------------------------------------
(* musicplay_proc(): what the buttons, the list and the sound task tell. *)

Live == running /\ astray = "no"
OnCard == Live /\ musicplay_mode = "sd"
HasSongs == lists.items # <<>>

\* stop_sdmusic_play(), pause_sdmusic_play() and EVT_SOUND_START draw the place of the
\* player.
DrawStop == IF HasSongs THEN DrawPlayed(lists, sd_disp_mode, view.select, last, play) ELSE "no"

\* Where ff_sdmusic_play() goes from a place, and whether the music ends there.
NextAlbum(l, n) == (n + 1) % Len(l.albums)
FfInOrder(l, p) ==
    IF p.track + 1 < TracksOf(l, p.album) THEN Place(p.album, p.track + 1)
    ELSE Place(NextAlbum(l, p.album), 0)

\* Mistake: the album before it is played from its start.
Fr_FirstTrack(l, p) ==
    IF p.track > 0 THEN Place(p.album, p.track - 1)
    ELSE Place((p.album + Len(l.albums) - 1) % Len(l.albums), 0)

\* fr_sdmusic_play().
Fr(l, p) ==
    IF p.track > 0 THEN Place(p.album, p.track - 1)
    ELSE LET n == IF p.album = 0 THEN Len(l.albums) - 1 ELSE p.album - 1
         IN  Place(n, TracksOf(l, n) - 1)

Places(l) ==
    UNION {{Place(n, t) : t \in 0..(TracksOf(l, n) - 1)} : n \in 0..(Len(l.albums) - 1)}

\* By flg_repeat and flg_shuffle.
Ff(l, p) ==
    LET inOrder == FfInOrder(l, p)
        lastTrack == p.track + 1 >= TracksOf(l, p.album)
        lastAlbum == p.album + 1 >= Len(l.albums)
    IN  {[to |-> inOrder, ends |-> FALSE],                               \* REPERAT_ALL
         [to |-> inOrder, ends |-> lastTrack /\ lastAlbum],              \* REPERAT_OFF
         [to |-> p, ends |-> FALSE],                                     \* REPERAT_1MUSIC
         [to |-> IF lastTrack THEN Place(p.album, 0) ELSE inOrder, ends |-> FALSE]}
           \cup {[to |-> q, ends |-> FALSE] : q \in Places(l)}           \* flg_shuffle

\* set_play_file_num() and open_now_sdmusic() at a place, from the one drawn last,
\* after what was read to stop the song.
OpenAt(stopped, from, to) ==
    /\ play' = to /\ last' = to /\ song' = "opened"
    /\ astray' = FirstOf(<<stopped, DrawPlayed(lists, sd_disp_mode, view.select, from, to),
                           ReadFile(lists, to)>>)

Forward ==
    /\ OnCard /\ HasSongs
    /\ \E n \in Ff(lists, play) :
         /\ OpenAt(DrawStop, play, n.to)
         /\ sdmusicplay_status' = IF n.ends THEN "stop" ELSE sdmusicplay_status
    /\ UNCHANGED <<cardVars, config, failures, running, listVars, musicplay_mode, sd_disp_mode,
                   view, replaced, unbacked>>

Backward ==
    /\ OnCard /\ HasSongs
    /\ OpenAt(DrawStop, play, Fr(lists, play))
    /\ UNCHANGED <<cardVars, config, failures, running, listVars, sdmusicplay_status,
                   musicplay_mode, sd_disp_mode, view, replaced, unbacked>>

PlayPause ==
    /\ OnCard
    /\ IF sdmusicplay_status = "play"
         THEN /\ sdmusicplay_status' = "stop" /\ astray' = DrawStop
              /\ last' = IF HasSongs THEN play ELSE last
         ELSE /\ sdmusicplay_status' = IF sdmusicplay_status = "notready" THEN "notready" ELSE "play"
              /\ UNCHANGED <<last, astray>>
    /\ UNCHANGED <<cardVars, running, listVars, play, musicplay_mode, sd_disp_mode, view, song,
                   replaced, unbacked>>
    /\ SaveConfig(failures)

\* EVT_SOUND_PREPARED, EVT_SOUND_START, and EVT_SOUND_END of a song that is played.
SoundPrepared ==
    /\ OnCard /\ song = "opened"
    /\ song' = "ready"
    /\ sdmusicplay_status' = IF sdmusicplay_status = "play" THEN "play" ELSE "opened"
    /\ UNCHANGED <<cardVars, running, listVars, play, musicplay_mode, sd_disp_mode, viewVars,
                   astray, replaced, unbacked>>
    /\ SaveConfig(failures)

SoundStart ==
    /\ OnCard /\ song = "ready" /\ sdmusicplay_status = "play"
    /\ last' = play /\ astray' = DrawStop
    /\ UNCHANGED <<cardVars, config, failures, running, listVars, play, sdmusicplay_status,
                   musicplay_mode, sd_disp_mode, view, song, replaced, unbacked>>

SoundEnd ==
    /\ OnCard /\ song = "ready" /\ sdmusicplay_status = "play"
    /\ \E n \in Ff(lists, play) :
         /\ OpenAt("no", last, n.to)
         /\ sdmusicplay_status' = IF n.ends THEN "stop" ELSE "play"
    /\ UNCHANGED <<cardVars, config, failures, running, listVars, musicplay_mode, sd_disp_mode,
                   view, replaced, unbacked>>

-----------------------------------------------------------------------------
(* The list view. *)

\* prepare_album_view() and prepare_music_view(): without a list they leave what was
\* shown, and the second may read outside.
AlbumView ==
    IF lists.albums = <<>> THEN view
    ELSE [view EXCEPT !.count = Len(lists.albums), !.item = view.select]
MusicView ==
    IF ~ HasSongs \/ ~ IsAlbum(lists, view.select) THEN view
    ELSE [view EXCEPT !.count = TracksOf(lists, view.select), !.item = 0]

ListButton ==
    /\ OnCard
    /\ CASE sd_disp_mode = "info" ->
              /\ sd_disp_mode' = "album" /\ view' = AlbumView
              /\ astray' = DrawList(lists, "album", view')
         [] sd_disp_mode = "album" ->
              /\ sd_disp_mode' = "music" /\ view' = MusicView
              /\ astray' = IF HasSongs /\ ~ IsAlbum(lists, view.select) THEN "draw"
                           ELSE DrawList(lists, "music", view')
         [] OTHER -> sd_disp_mode' = "info" /\ UNCHANGED <<view, astray>>
    /\ UNCHANGED <<cardVars, running, listVars, play, sdmusicplay_status, musicplay_mode, last,
                   song, replaced, unbacked>>
    /\ SaveConfig(failures)

\* The keys move the selected item.
ListKey ==
    /\ OnCard /\ sd_disp_mode # "info"
    /\ \E n \in {view.item - 1, view.item + 1} :
         /\ n >= 0 /\ (n > view.item => n < view.count)
         /\ view' = [view EXCEPT !.item = n]
         /\ astray' = FirstOf(<<DrawItem(lists, sd_disp_mode, view.select, view.item),
                                DrawItem(lists, sd_disp_mode, view.select, n)>>)
    /\ UNCHANGED <<cardVars, config, failures, running, listVars, play, sdmusicplay_status,
                   musicplay_mode, sd_disp_mode, last, song, replaced, unbacked>>

\* list_view_proc(): an item is touched; an album is played when it is touched again.
ListItem ==
    /\ OnCard /\ sd_disp_mode # "info"
    /\ \E n \in 0..(view.count - 1) :
         LET plays == sd_disp_mode = "music" \/ view.select = n
             to == IF sd_disp_mode = "music" THEN Place(view.select, n) ELSE Place(n, 0)
         IN  /\ view' = [view EXCEPT !.item = n,
                                     !.select = IF sd_disp_mode = "music" THEN @ ELSE n]
             /\ astray' = FirstOf(<<DrawItem(lists, sd_disp_mode, view.select, view.item),
                                    DrawItem(lists, sd_disp_mode, view.select, n),
                                    IF plays THEN DrawPlayed(lists, sd_disp_mode, view.select, last, to)
                                             ELSE "no",
                                    IF plays THEN ReadFile(lists, to) ELSE "no">>)
             /\ play' = IF plays THEN to ELSE play
             /\ last' = IF plays THEN to ELSE last
             /\ song' = IF plays /\ HasSongs THEN "opened" ELSE song
    /\ UNCHANGED <<cardVars, running, listVars, sdmusicplay_status, musicplay_mode, sd_disp_mode,
                   replaced, unbacked>>
    /\ SaveConfig(failures)

-----------------------------------------------------------------------------
(* The settings, and the change to the radio and back. *)

\* reset_musicplay(), of the music of the card.
Reset ==
    /\ sdmusicplay_status' = IF musicplay_mode = "sd" THEN "stop" ELSE sdmusicplay_status
    /\ play' = Start

\* BTN_ID_SEARCHMUSIC.  The view, backup_crc and musiplay.cfg stay as they are.
SearchMusic ==
    /\ Live /\ lists.radio_count < MaxRadioCount
    /\ Reset
    /\ lists' = CreateFilelist
    /\ \E saved \in SaveFilelist(CreateFilelist) :
         info' = saved.info /\ minfo_crc' = saved.crc /\ failures' = saved.failures
    /\ replaced' = (replaced \/ lists'.albums # lists.albums)
    /\ song' = "none"
    /\ last' = IF musicplay_mode = "sd" /\ HasSongs THEN play ELSE last
    /\ astray' = IF musicplay_mode # "sd" THEN "no"
                 ELSE FirstOf(<<DrawStop, DrawList(lists', sd_disp_mode, view)>>)
    /\ UNCHANGED <<files, config, running, backup_crc, musicplay_mode, sd_disp_mode, view,
                   unbacked>>

\* BTN_ID_INITSET.
InitSettings ==
    /\ Live
    /\ Reset
    /\ sd_disp_mode' = "info" /\ musicplay_mode' = "sd"
    /\ song' = IF HasSongs THEN "opened" ELSE "none"
    /\ last' = IF musicplay_mode = "sd" /\ HasSongs THEN Start ELSE last
    /\ astray' = FirstOf(<<IF musicplay_mode = "sd" THEN DrawStop ELSE "no",
                           ReadFile(lists, Start)>>)
    /\ UNCHANGED <<cardVars, running, listVars, view, replaced, unbacked>>
    /\ SaveConfig(failures)

ToRadio ==
    /\ OnCard
    /\ musicplay_mode' = "radio" /\ song' = "none"
    /\ last' = IF HasSongs THEN play ELSE last
    /\ astray' = DrawStop
    /\ UNCHANGED <<cardVars, running, listVars, play, sdmusicplay_status, sd_disp_mode, view,
                   replaced, unbacked>>
    /\ SaveConfig(failures)

ToCard ==
    /\ Live /\ musicplay_mode = "radio"
    /\ musicplay_mode' = "sd"
    /\ song' = IF HasSongs THEN "opened" ELSE "none"
    /\ last' = IF HasSongs THEN play ELSE last
    /\ astray' = FirstOf(<<DrawStop, ReadFile(lists, play),
                           DrawList(lists, sd_disp_mode, view)>>)
    /\ UNCHANGED <<cardVars, running, listVars, play, sdmusicplay_status, sd_disp_mode, view,
                   replaced, unbacked>>
    /\ SaveConfig(failures)

MusicListNext ==
    \/ StartLoads \/ StartCreates \/ PowerOff \/ ChangeFiles
    \/ Forward \/ Backward \/ PlayPause \/ SoundPrepared \/ SoundStart \/ SoundEnd
    \/ ListButton \/ ListKey \/ ListItem
    \/ SearchMusic \/ InitSettings \/ ToRadio \/ ToCard

MusicListSpec == MusicListInit /\ [][MusicListNext]_musicListVars

-----------------------------------------------------------------------------
(* Properties. *)

MusicListTypeOK ==
    /\ files \in CardContents /\ failures \in 0..MaxFailures
    /\ sdmusicplay_status \in {"notready", "opened", "play", "stop"}
    /\ musicplay_mode \in {"sd", "radio"} /\ sd_disp_mode \in {"info", "album", "music"}
    /\ song \in {"none", "opened", "ready"}
    /\ astray \in {"no", "start", "draw", "other", "play"}

\* Found or loaded, each song is in one album, the one that it names, and an album is
\* in the order of its tracks, those of one number in the order of the card, within
\* the room it has (add_album(), add_item()).
AlbumsHoldTheFiles ==
    /\ \A i \in DOMAIN lists.items :
         Cardinality({p \in Places(lists) :
                        lists.albums[p.album + 1].tracks[p.track + 1].file_num = i - 1}) = 1
    /\ \A i \in DOMAIN lists.albums :
         LET tracks == lists.albums[i].tracks IN
         /\ Len(tracks) <= lists.albums[i].max_track_count
         /\ \A j \in DOMAIN tracks :
              lists.items[tracks[j].file_num + 1].album = lists.albums[i].name
         /\ \A j, k \in DOMAIN tracks :
              j < k => \/ tracks[j].track < tracks[k].track
                       \/ tracks[j].track = tracks[k].track /\ tracks[j].file_num < tracks[k].file_num

\* save_filelist() and load_filelist(): lists that are saved whole are loaded as they
\* were, unless a search before it in the same run has counted radios; what is not
\* whole is refused.
SavedListsLoad ==
    LET whole == Whole(lists)
        loaded == LoadFilelist(whole)
    IN  /\ loaded.ok <=> lists.radio_count = lists.radios
        /\ loaded.ok => loaded.lists = lists
        /\ \A n \in 0..(Len(whole) - 1) : ~ LoadFilelist(SubSeq(whole, 1, n)).ok

\* Forward in order and back is where the player was, so every song has its turn.
FrUndoesFf == \A p \in Places(lists) : Fr(lists, FfInOrder(lists, p)) = p

\* open_now_sdmusic() opens a song of the lists, though the place comes from a file of
\* another storage and the lists may have changed since, unless the place was saved
\* after a search.
PlaysAFileOfTheList == astray = "play" => unbacked

\* The list view reads inside the lists, unless a search has found others while it
\* ran; at the start, unless there are none.
DrawsWhatIsListed ==
    /\ astray = "draw" => replaced \/ unbacked
    /\ astray = "start" => lists.albums = <<>> \/ unbacked

\* The music that is found, saved, loaded, played and listed.
MusicListInv ==
    /\ MusicListTypeOK /\ AlbumsHoldTheFiles /\ SavedListsLoad /\ FrUndoesFf
    /\ PlaysAFileOfTheList /\ DrawsWhatIsListed

=============================================================================
