---------------------------- MODULE VideoUploads ----------------------------
(***************************************************************************)
(* How a film comes into the store: POST /api/videos/upload and            *)
(* /upload-from-youtube (backend/api/videos.py), VideoStore                *)
(* (video/ingestion.py) and the download (video/youtube.py).  A film is    *)
(* three things written one after the other: the video file, its metadata  *)
(* file, by which it is listed, and its row in film_uploads.               *)
(*                                                                         *)
(* Abstractions.  Each request stores one film under an id of its own.  A  *)
(* film is so many chunks long; a file is the number of chunks it has.     *)
(* yt-dlp is external: any attempt may end in any of the ways download()   *)
(* tells apart and leave pieces of the film.  Names are not modelled: any  *)
(* file of a directory may come first in their order.                      *)
(***************************************************************************)
EXTENDS Naturals

CONSTANTS
  Direct,       \* uploads of a file
  Linked,       \* uploads from YouTube
  MaxLength,    \* bound: chunks of the longest film
  Limit,        \* MAX_UPLOAD_MB, in chunks
  Clients,      \* how many clients _player_clients() lists
  NoneYet       \* there is no such file

Upload == Direct \cup Linked

ASSUME UploadAssumption ==
  /\ Direct \cap Linked = {} /\ MaxLength \in Nat /\ Limit \in Nat
  /\ Clients \in Nat \ {0} /\ NoneYet \notin Nat

VARIABLES
  filmLength,  \* per upload: chunks of the film
  scratch,     \* per upload: the files in its temporary directory
  video,       \* per upload: the file in videos/
  metadata,    \* per upload: the file in metadata/: none, torn or written
  uploadRow,   \* per upload: its row is committed
  client,      \* per upload: clients tried
  todo         \* per upload: what its request does next

uploadVars == <<filmLength, scratch, video, metadata, uploadRow, client, todo>>

Length == 0 .. MaxLength

\* What a client has downloaded; allowed: its suffix is in ALLOWED_EXTENSIONS.
File == [by : 1 .. Clients, size : Length, allowed : BOOLEAN]

Todo == {"start", "try client", "find file", "adopt", "receive", "describe",
         "add row", "created", "refused", "error", "dead"}

UploadTypeOK ==
  /\ filmLength \in [Upload -> Length]
  /\ scratch \in [Upload -> SUBSET File]
  /\ video \in [Upload -> Length \cup {NoneYet}]
  /\ metadata \in [Upload -> {"none", "torn", "written"}]
  /\ uploadRow \in [Upload -> BOOLEAN]
  /\ client \in [Upload -> 0 .. Clients]
  /\ todo \in [Upload -> Todo]

UploadInit ==
  /\ filmLength \in [Upload -> Length]
  /\ scratch = [u \in Upload |-> {}]
  /\ video = [u \in Upload |-> NoneYet]
  /\ metadata = [u \in Upload |-> "none"]
  /\ uploadRow = [u \in Upload |-> FALSE]
  /\ client = [u \in Upload |-> 0]
  /\ todo = [u \in Upload |-> "start"]

-----------------------------------------------------------------------------
Then(u, next) == todo' = [todo EXCEPT ![u] = next]

\* save() looks at the suffix and opens the target file; download() looks
\* at the link.  Either may refuse.
BeginUpload(u) ==
  /\ todo[u] = "start"
  /\ \/ Then(u, "refused") /\ UNCHANGED video
     \/ /\ u \in Direct
        /\ video' = [video EXCEPT ![u] = 0]
        /\ Then(u, "receive")
     \/ u \in Linked /\ Then(u, "try client") /\ UNCHANGED video
  /\ UNCHANGED <<filmLength, scratch, metadata, uploadRow, client>>

-----------------------------------------------------------------------------
(* VideoStore.save().                                                      *)

\* The size is checked before the chunk is written; past the limit the file
\* is removed.
ReceiveWith(u, tooLarge) ==
  /\ todo[u] = "receive"
  /\ IF video[u] = filmLength[u] THEN Then(u, "describe") /\ UNCHANGED video
     ELSE IF tooLarge
       THEN video' = [video EXCEPT ![u] = NoneYet] /\ Then(u, "refused")
       ELSE video' = [video EXCEPT ![u] = @ + 1] /\ UNCHANGED todo
  /\ UNCHANGED <<filmLength, scratch, metadata, uploadRow, client>>

\* Faulty variant: the chunk that is being read is not counted yet.
ReceiveUncounted(u) == ReceiveWith(u, video[u] > Limit)

ReceiveChunk(u) == ReceiveWith(u, video[u] + 1 > Limit)

\* The disk is full: the file is removed and the exception raised again.
ReceiveFails(u) ==
  /\ todo[u] = "receive"
  /\ video' = [video EXCEPT ![u] = NoneYet]
  /\ Then(u, "error")
  /\ UNCHANGED <<filmLength, scratch, metadata, uploadRow, client>>

-----------------------------------------------------------------------------
(* youtube.download().                                                     *)

\* A stream of the film, or what there is of one.
Piece(u, n) ==
  [by : {n}, size : {m \in Length : m < filmLength[u]}, allowed : BOOLEAN]

\* After an attempt that succeeded: the whole film; or, because the video was
\* over max_filesize, its sound or no new file.  Pieces that were there may
\* have been used up.
Fetched(u, n) ==
  {old \cup new : old \in SUBSET scratch[u],
                  new \in {{}} \cup {{[by |-> n, size |-> filmLength[u], allowed |-> ok]} :
                                       ok \in BOOLEAN}
                          \cup {{sound} : sound \in {p \in Piece(u, n) : ~p.allowed}}}

\* After one that was broken off: pieces, if anything.
BrokenOff(u, n) == {scratch[u] \cup new : new \in SUBSET Piece(u, n)}

\* The next client is tried.  It succeeds, is told to prove it is no bot, or
\* meets a settled fact: the size, or that there is no such film.  Where
\* nobody is left to ask, or the fact is settled, the directory is removed.
Attempt(u, clients) ==
  /\ todo[u] = "try client"
  /\ client' = [client EXCEPT ![u] = @ + 1]
  /\ \/ /\ \E files \in Fetched(u, client[u] + 1) : scratch' = [scratch EXCEPT ![u] = files]
        /\ Then(u, "find file")
     \/ /\ client[u] + 1 < clients
        /\ \E files \in BrokenOff(u, client[u] + 1) : scratch' = [scratch EXCEPT ![u] = files]
        /\ Then(u, "try client")
     \/ scratch' = [scratch EXCEPT ![u] = {}] /\ Then(u, "refused")
  /\ UNCHANGED <<filmLength, video, metadata, uploadRow>>

\* Faulty variant: one more is tried than there are.
TryOneMore(u) == Attempt(u, Clients + 1)

TryClient(u) == Attempt(u, Clients)

\* Whatever comes first in the directory is taken for the film.
FindFile(u) ==
  /\ todo[u] = "find file"
  /\ Then(u, IF scratch[u] = {} THEN "refused" ELSE "adopt")
  /\ UNCHANGED <<filmLength, scratch, video, metadata, uploadRow, client>>

\* save_from_path(): the file is moved, if type and size are right; if not,
\* save_from_path() or its caller removes it.  The others stay where they are.
SaveUnlinking(u, unlink) ==
  /\ todo[u] = "adopt"
  /\ \E file \in scratch[u] :
       \/ /\ file.allowed /\ file.size <= Limit
          /\ video' = [video EXCEPT ![u] = file.size]
          /\ scratch' = [scratch EXCEPT ![u] = @ \ {file}]
          /\ Then(u, "describe")
       \/ /\ ~(file.allowed /\ file.size <= Limit)
          /\ scratch' = [scratch EXCEPT ![u] = IF unlink THEN @ \ {file} ELSE @]
          /\ Then(u, "refused")
          /\ UNCHANGED video
  /\ UNCHANGED <<filmLength, metadata, uploadRow, client>>

\* Faulty variant: a file that is refused is left where it is.
SaveOrLeave(u) == SaveUnlinking(u, FALSE)

SaveFromPath(u) == SaveUnlinking(u, TRUE)

\* The file cannot be moved: the caller removes it.
MoveFails(u) ==
  /\ todo[u] = "adopt"
  /\ \E file \in scratch[u] : scratch' = [scratch EXCEPT ![u] = @ \ {file}]
  /\ Then(u, "error")
  /\ UNCHANGED <<filmLength, video, metadata, uploadRow, client>>

-----------------------------------------------------------------------------
(* VideoStore._record() and _record_upload().                              *)

WriteMetadata(u) ==
  /\ todo[u] = "describe"
  /\ metadata' = [metadata EXCEPT ![u] = "written"]
  /\ Then(u, "add row")
  /\ UNCHANGED <<filmLength, scratch, video, uploadRow, client>>

\* No room for the metadata: the video stays, and of a link's film it is
\* the moved file that the caller does not find any more.
WriteMetadataFails(u) ==
  /\ todo[u] = "describe"
  /\ metadata' = [metadata EXCEPT ![u] = "torn"]
  /\ Then(u, "error")
  /\ UNCHANGED <<filmLength, scratch, video, uploadRow, client>>

CommitUpload(u, from) ==
  /\ todo[u] \in from
  /\ \/ uploadRow' = [uploadRow EXCEPT ![u] = TRUE] /\ Then(u, "created")
     \/ Then(u, "error") /\ UNCHANGED uploadRow
  /\ UNCHANGED <<filmLength, scratch, video, metadata, client>>

\* Faulty variant: the row may go in first.
RecordUploadFirst(u) == CommitUpload(u, {"describe", "add row"})

RecordUpload(u) == CommitUpload(u, {"add row"})

\* The web process dies; what is being written is cut short.
UploadDies(u) ==
  /\ todo[u] \notin {"start", "created", "refused", "error", "dead"}
  /\ \/ todo[u] = "describe" /\ metadata' = [metadata EXCEPT ![u] = "torn"]
     \/ UNCHANGED metadata
  /\ Then(u, "dead")
  /\ UNCHANGED <<filmLength, scratch, video, uploadRow, client>>

UploadNext ==
  \E u \in Upload :
    \/ BeginUpload(u) \/ ReceiveChunk(u) \/ ReceiveFails(u)
    \/ TryClient(u) \/ FindFile(u) \/ SaveFromPath(u) \/ MoveFails(u)
    \/ WriteMetadata(u) \/ WriteMetadataFails(u) \/ RecordUpload(u)
    \/ UploadDies(u)

UploadSpec == UploadInit /\ [][UploadNext]_uploadVars

-----------------------------------------------------------------------------
(* What GET /api/videos and /content answer.                               *)

\* list() parses every metadata file and fails if one of them is torn.
Listed == {u \in Upload : metadata[u] = "written"}

\* video_content(): 200 with the file, or 404.
Served(u) == IF u \in Listed THEN video[u] ELSE NoneYet

-----------------------------------------------------------------------------
(* Properties.                                                             *)

\* Whatever is listed, or has a row for the job queue to refer to, is the
\* whole film and within the limit, whichever way it came and wherever other
\* uploads broke off.  A film that a second client had to be asked for may
\* be a piece of it, within the limit.
StoredFilmIsWhole ==
  \A u \in Upload : u \in Listed \/ uploadRow[u] =>
    /\ Served(u) \in 0 .. Limit
    /\ Served(u) = filmLength[u] \/ client[u] > 1

\* An upload that was refused - its type, its size, YouTube - has left no
\* film in the store, no row and no entry in the list; nor, if it asked one
\* client, anything in its temporary directory.  Where several were asked,
\* what the others left there stays.  At no time does the store hold more of
\* a film than the limit.
RefusedStoresNothing ==
  \A u \in Upload :
    /\ todo[u] = "refused" => /\ video[u] = NoneYet /\ u \notin Listed /\ ~uploadRow[u]
                              /\ client[u] > 1 \/ scratch[u] = {}
    /\ video[u] # NoneYet => video[u] <= Limit
=============================================================================
