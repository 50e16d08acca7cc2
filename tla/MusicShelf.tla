------------------------------ MODULE MusicShelf ------------------------------
(* What the Music feature remembers: recent plays, favourites and playlists,  *)
(* changed in memory first and then written as one file, and the touch view's *)
(* cached list, which is made again only when the store's revision moved on.  *)
(* The view shows both this and the session that plays, MusicPlayer.          *)
EXTENDS MusicPlayer, FiniteSets, Lists

CONSTANTS Tune, Playlist, NoPlaylist, MaxRecent, MaxPlaylists, MaxTunes
ASSUME MusicShelfConstants ==
    /\ NoPlaylist \notin Playlist
    /\ {MaxRecent, MaxPlaylists, MaxTunes} \subseteq Nat \ {0}

VARIABLES shelf,     \* MusicStore: recent, favorites, playlists
          libraryFile, \* the same as last written, "malformed" when it cannot be read
          complaint, \* MusicStore.error, which the view shows
          shown      \* browse_mode, active_playlist and the cached list

shelfVars == <<shelf, libraryFile, complaint, shown>>

EmptyShelf == [recent |-> <<>>, favorites |-> {}, playlists |-> <<>>]
Malformed == [EmptyShelf EXCEPT !.recent = <<NoPlaylist>>]
ReadOnly == libraryFile = Malformed
PlaylistNames(s) == DOMAIN s.playlists

\* _browser
Listed(s, mode, active) ==
    CASE mode = "songs" -> <<>>
      [] mode = "recent" -> s.recent
      [] mode = "favorites" -> s.favorites
      [] mode = "playlists" -> PlaylistNames(s)
      [] mode = "playlist" -> IF active \in PlaylistNames(s) THEN s.playlists[active] ELSE <<>>

OpenedOn(s) == [mode |-> "songs", active |-> NoPlaylist, items |-> <<>>]

ShelfInit ==
    /\ libraryFile \in {EmptyShelf, Malformed}
    /\ shelf = EmptyShelf /\ complaint = ReadOnly /\ shown = OpenedOn(EmptyShelf)

\* refresh: the cached list stays while nothing it is filed under has changed
Refresh(mode, active, saved) ==
    shown' = [mode |-> mode, active |-> active,
              items |-> IF <<mode, active>> = <<shown.mode, shown.active>> /\ ~saved THEN shown.items
                        ELSE Listed(shelf', mode, active)]

\* _save, after the change in memory
Save(s, mode, active, otherwise) ==
    /\ shelf' = s
    /\ \/ libraryFile' = s /\ complaint' = FALSE /\ Refresh(mode, active, TRUE)
       \/ libraryFile' = libraryFile /\ complaint' = TRUE /\ Refresh(otherwise[1], otherwise[2], FALSE)

Here == <<shown.mode, shown.active>>
\* a refusal shows a message of its own and changes nothing
Refused == UNCHANGED shelfVars

Firsts(q) == IF Len(q) > MaxRecent THEN SubSeq(q, 1, MaxRecent) ELSE q
RecordPlay(t) ==
    IF ReadOnly THEN Refused
    ELSE Save([shelf EXCEPT !.recent = Firsts(<<t>> \o Excluding(@, {t}))], shown.mode, shown.active, Here)

ToggleFavorite(t) ==
    IF ReadOnly THEN Refused
    ELSE Save([shelf EXCEPT !.favorites = IF t \in @ THEN @ \ {t} ELSE @ \union {t}], shown.mode, shown.active, Here)

With(name, tunes) == [n \in PlaylistNames(shelf) \union {name} |-> IF n = name THEN tunes ELSE shelf.playlists[n]]

CreatePlaylist(name) ==
    IF ReadOnly \/ name \in PlaylistNames(shelf) \/ Cardinality(PlaylistNames(shelf)) >= MaxPlaylists THEN Refused
    ELSE Save([shelf EXCEPT !.playlists = With(name, <<>>)], "playlist", name, <<"playlist", name>>)

\* the playlist is gone from memory even when the view hears that it is not
DeletePlaylist ==
    /\ shown.active # NoPlaylist
    /\ IF ReadOnly \/ shown.active \notin PlaylistNames(shelf) THEN Refused
       ELSE Save([shelf EXCEPT !.playlists = [n \in PlaylistNames(shelf) \ {shown.active} |-> shelf.playlists[n]]],
                 "playlists", NoPlaylist, Here)

TogglePlaylistTune(t) ==
    /\ shown.active # NoPlaylist
    /\ IF ReadOnly \/ shown.active \notin PlaylistNames(shelf) THEN Refused
       ELSE LET tunes == shelf.playlists[shown.active]
                member == \E i \in DOMAIN tunes : tunes[i] = t
                after == IF member THEN Excluding(tunes, {t}) ELSE Append(tunes, t)
            IN IF ~member /\ Len(tunes) >= MaxTunes THEN Refused
               ELSE Save([shelf EXCEPT !.playlists = With(shown.active, after)], shown.mode, shown.active, Here)

Browse(mode) == UNCHANGED <<shelf, libraryFile, complaint>> /\ Refresh(mode, shown.active, FALSE)
OpenPlaylist(name) ==
    name \in PlaylistNames(shelf) /\ UNCHANGED <<shelf, libraryFile, complaint>> /\ Refresh("playlist", name, FALSE)

\* the view closes, or the kiosk stops, and Music opens again from its file
ReloadShelf ==
    /\ shelf' = IF ReadOnly THEN EmptyShelf ELSE libraryFile
    /\ complaint' = ReadOnly /\ shown' = OpenedOn(shelf') /\ UNCHANGED libraryFile

ShelfNext ==
    \/ \E t \in Tune : RecordPlay(t) \/ ToggleFavorite(t) \/ TogglePlaylistTune(t)
    \/ \E n \in Playlist : CreatePlaylist(n) \/ OpenPlaylist(n)
    \/ DeletePlaylist \/ ReloadShelf
    \/ \E mode \in {"songs", "recent", "favorites", "playlists"} : Browse(mode)

ShelfSpec == ShelfInit /\ [][ShelfNext]_shelfVars

-----------------------------------------------------------------------------
(* Properties *)

\* Unless an error is shown, what Music remembers is what its file holds, and
\* the list on the screen is the one the store would give now: a change that
\* could not be written is never shown as if it were, nor a cached list.
NothingUnsaidIsLost ==
    ~complaint => shelf = libraryFile /\ shown.items = Listed(shelf, shown.mode, shown.active)

\* Recent plays and playlists hold no song twice and stay within their limits.
ListsStayWithinLimits ==
    LET once(q) == Cardinality({q[i] : i \in DOMAIN q}) = Len(q) IN
    /\ once(shelf.recent) /\ Len(shelf.recent) <= MaxRecent
    /\ Cardinality(PlaylistNames(shelf)) <= MaxPlaylists
    /\ \A n \in PlaylistNames(shelf) : once(shelf.playlists[n]) /\ Len(shelf.playlists[n]) <= MaxTunes

\* The playlist the view holds open exists: what a deletion that could not be
\* written breaks, and a later write leaves so without an error.
OpenPlaylistExists == ~complaint => shown.active \in PlaylistNames(shelf) \union {NoPlaylist}

\* What the music page promises: it shows what is heard, and what it shows of
\* its lists is what it will remember.
MusicIsAsShown ==
    [](MusicTypeOK /\ SoundMatchesView /\ NothingUnsaidIsLost /\ ListsStayWithinLimits) /\ ShuffleMovesOn
=============================================================================
