--------------------------- MODULE ServicesProofs ---------------------------
(***************************************************************************)
(* Proofs about the services beside the film pipeline: films uploaded, of  *)
(* any length and with any limit and list of YouTube clients; temporary    *)
(* files of any film requests and restarts; rows put and removed by any    *)
(* requests.  Last, that what is proved of a service holds where all are   *)
(* put together.                                                           *)
(***************************************************************************)
EXTENDS MCServices, AccountsProofs, JobAnswersProofs

-----------------------------------------------------------------------------
(* VideoUploads: what there is of a film, by what its request does next.   *)

\* A stored or downloaded file is the film, or a second client was asked.
OfFilm(u, size) == size \in Length /\ (size = filmLength[u] \/ client[u] > 1)

\* Until it is being received or moved, nothing of the film is in the store.
NothingStored(u) ==
  todo[u] \in {"start", "try client", "find file", "adopt", "refused"} =>
    video[u] = NoneYet

\* Nothing is in the directory before a client was asked, and one file at
\* most after one that fetched the film; pieces that might be taken for the
\* film are there only where a second was asked.
FilesOfClients(u) ==
  /\ todo[u] \in {"start", "receive"} => scratch[u] = {}
  /\ todo[u] = "try client" /\ client[u] = 0 => scratch[u] = {}
  /\ todo[u] \in {"find file", "adopt"} =>
       \A file \in scratch[u] : file.allowed => OfFilm(u, file.size)
  /\ todo[u] \in {"find file", "adopt"} /\ ~(client[u] > 1) =>
       \A file, other \in scratch[u] : file = other
  /\ todo[u] = "refused" => client[u] > 1 \/ scratch[u] = {}

\* Metadata and row come last, in this order.
NothingSaid(u) ==
  /\ todo[u] \in {"start", "try client", "find file", "adopt", "refused",
                  "receive", "describe"} => metadata[u] = "none" /\ ~uploadRow[u]
  /\ todo[u] = "add row" => metadata[u] = "written"
  /\ uploadRow[u] => metadata[u] = "written"

FilmInHand(u) ==
  /\ todo[u] = "receive" => video[u] \in 0 .. filmLength[u]
  /\ todo[u] \in {"describe", "add row"} \/ metadata[u] = "written" =>
       OfFilm(u, video[u])
  /\ video[u] # NoneYet => video[u] <= Limit

ClientsLeft(u) ==
  /\ todo[u] = "start" => client[u] = 0
  /\ todo[u] = "try client" => client[u] < Clients

Sound(u) == NothingStored(u) /\ NothingSaid(u) /\ FilmInHand(u) /\ ClientsLeft(u)

UploadInv == UploadTypeOK /\ \A u \in Upload : Sound(u) /\ FilesOfClients(u)

\* What a request does to its own film.
UploadStep(u) ==
  \/ BeginUpload(u) \/ ReceiveChunk(u) \/ ReceiveFails(u)
  \/ TryClient(u) \/ FindFile(u) \/ SaveFromPath(u) \/ MoveFails(u)
  \/ WriteMetadata(u) \/ WriteMetadataFails(u) \/ RecordUpload(u)
  \/ UploadDies(u)

-----------------------------------------------------------------------------
LEMMA Lengths ==
  /\ 0 \in Length
  /\ Length \subseteq Nat
  /\ \A m \in Nat : 0 \in 0 .. m
  /\ \A m \in Nat : \A n \in 0 .. m : n # m => n + 1 \in 0 .. m
  /\ \A m \in Length : 0 .. m \subseteq Length
  BY UploadAssumption DEF Length

LEMMA OneChunkMore ==
  ASSUME NEW m \in Nat, NEW n \in 0 .. m, n < m
  PROVE  n + 1 \in 0 .. m
  OBVIOUS

\* What an attempt may leave in the directory.
LEMMA FilesAreFiles ==
  ASSUME UploadTypeOK, NEW u \in Upload, TryClient(u), client[u] < Clients
  PROVE  \E files \in SUBSET File :
           /\ scratch' = [scratch EXCEPT ![u] = files]
           /\ \/ files = {} /\ todo'[u] = "refused"
              \/ files \in Fetched(u, client[u] + 1) /\ todo'[u] = "find file"
              \/ files \in BrokenOff(u, client[u] + 1) /\ todo'[u] = "try client"
<1>1. client[u] + 1 \in 1 .. Clients /\ filmLength[u] \in Length /\ scratch[u] \subseteq File
  BY UploadAssumption DEF UploadTypeOK
<1>2. \A ok \in BOOLEAN :
        [by |-> client[u] + 1, size |-> filmLength[u], allowed |-> ok] \in File
  BY <1>1 DEF File
<1>3. Piece(u, client[u] + 1) \subseteq File
  BY <1>1 DEF File, Piece
<1>4. ASSUME NEW files \in Fetched(u, client[u] + 1) PROVE files \subseteq File
  <2>1. PICK old \in SUBSET scratch[u], new \in SUBSET File : files = old \cup new
    BY <1>2, <1>3 DEF Fetched
  <2> QED
    BY <1>1, <2>1
<1>5. ASSUME NEW files \in BrokenOff(u, client[u] + 1) PROVE files \subseteq File
  BY <1>1, <1>3 DEF BrokenOff
<1>6. \/ scratch' = [scratch EXCEPT ![u] = {}] /\ todo'[u] = "refused"
      \/ /\ \E files \in Fetched(u, client[u] + 1) : scratch' = [scratch EXCEPT ![u] = files]
         /\ todo'[u] = "find file"
      \/ /\ \E files \in BrokenOff(u, client[u] + 1) : scratch' = [scratch EXCEPT ![u] = files]
         /\ todo'[u] = "try client"
  BY DEF TryClient, Attempt, Then, UploadTypeOK
<1> QED
  BY <1>4, <1>5, <1>6

LEMMA UploadTypes ==
  ASSUME UploadInv, NEW u \in Upload, UploadStep(u)
  PROVE  UploadTypeOK'
<1>1. UploadTypeOK /\ Sound(u)
  BY DEF UploadInv
<1>2. CASE BeginUpload(u)
  <2>1. \/ video' = video
        \/ video' = [video EXCEPT ![u] = 0]
    BY <1>2 DEF BeginUpload
  <2>2. video' \in [Upload -> Length \cup {NoneYet}]
    BY <1>1, <2>1, Lengths DEF UploadTypeOK
  <2>3. todo' \in [Upload -> Todo]
    BY <1>1, <1>2 DEF BeginUpload, Then, UploadTypeOK, Todo
  <2> QED
    BY <1>1, <1>2, <2>2, <2>3 DEF BeginUpload, UploadTypeOK
<1>3. CASE ReceiveChunk(u)
  <2>1. todo[u] = "receive" /\ filmLength[u] \in Length /\ video[u] \in 0 .. filmLength[u]
    BY <1>1, <1>3 DEF ReceiveChunk, ReceiveWith, Sound, FilmInHand, UploadTypeOK
  <2>2. video[u] # filmLength[u] => video[u] + 1 \in Length
    BY <2>1, Lengths
  <2> QED
    BY <1>1, <1>3, <2>2
    DEF ReceiveChunk, ReceiveWith, Then, UploadTypeOK, Todo
<1>4. CASE ReceiveFails(u)
  BY <1>1, <1>4 DEF ReceiveFails, Then, UploadTypeOK, Todo
<1>5. CASE TryClient(u)
  <2>1. todo[u] = "try client" /\ client[u] \in 0 .. Clients
    BY <1>1, <1>5 DEF TryClient, Attempt, UploadTypeOK
  <2>2. client[u] < Clients
    BY <1>1, <2>1 DEF Sound, ClientsLeft
  <2>3. \E files \in SUBSET File : scratch' = [scratch EXCEPT ![u] = files]
    BY <1>1, <1>5, <2>2, FilesAreFiles
  <2>4. scratch' \in [Upload -> SUBSET File]
    BY <1>1, <2>3 DEF UploadTypeOK
  <2>5. Clients \in Nat
    BY UploadAssumption
  <2>6. client[u] + 1 \in 0 .. Clients
    BY <2>1, <2>2, <2>5, OneChunkMore
  <2> QED
    BY <1>1, <1>5, <2>6, <2>4 DEF TryClient, Attempt, Then, UploadTypeOK, Todo
<1>6. CASE FindFile(u)
  BY <1>1, <1>6 DEF FindFile, Then, UploadTypeOK, Todo
<1>7. CASE SaveFromPath(u)
  <2>1. PICK file \in scratch[u] :
          \/ /\ video' = [video EXCEPT ![u] = file.size]
             /\ scratch' = [scratch EXCEPT ![u] = @ \ {file}]
             /\ todo' = [todo EXCEPT ![u] = "describe"]
          \/ /\ scratch' = [scratch EXCEPT ![u] = @ \ {file}]
             /\ todo' = [todo EXCEPT ![u] = "refused"] /\ video' = video
    BY <1>7 DEF SaveFromPath, SaveUnlinking, Then
  <2>2. file.size \in Length
    BY <1>1 DEF UploadTypeOK, File
  <2>3. scratch' \in [Upload -> SUBSET File]
    BY <1>1, <2>1 DEF UploadTypeOK
  <2> QED
    BY <1>1, <1>7, <2>1, <2>2, <2>3 DEF SaveFromPath, SaveUnlinking, UploadTypeOK, Todo
<1>8. CASE MoveFails(u)
  <2>1. scratch' \in [Upload -> SUBSET File]
    BY <1>1, <1>8 DEF UploadTypeOK, MoveFails
  <2> QED
    BY <1>1, <1>8, <2>1 DEF MoveFails, Then, UploadTypeOK, Todo
<1>9. CASE WriteMetadata(u)
  BY <1>1, <1>9 DEF WriteMetadata, Then, UploadTypeOK, Todo
<1>10. CASE WriteMetadataFails(u)
  BY <1>1, <1>10 DEF WriteMetadataFails, Then, UploadTypeOK, Todo
<1>11. CASE RecordUpload(u)
  BY <1>1, <1>11 DEF RecordUpload, CommitUpload, Then, UploadTypeOK, Todo
<1>12. CASE UploadDies(u)
  BY <1>1, <1>12 DEF UploadDies, Then, UploadTypeOK, Todo
<1> QED
  BY <1>2, <1>3, <1>4, <1>5, <1>6, <1>7, <1>8, <1>9, <1>10, <1>11, <1>12 DEF UploadStep

\* Another request's film is not touched.
LEMMA OtherUploadsRest ==
  ASSUME UploadInv, NEW u \in Upload, UploadStep(u), NEW o \in Upload, o # u
  PROVE  Sound(o)' /\ FilesOfClients(o)'
<1>1. /\ filmLength'[o] = filmLength[o] /\ scratch'[o] = scratch[o]
      /\ video'[o] = video[o] /\ metadata'[o] = metadata[o]
      /\ uploadRow'[o] = uploadRow[o] /\ client'[o] = client[o] /\ todo'[o] = todo[o]
  <2> USE DEF UploadInv, UploadTypeOK, Then
  <2>1. CASE BeginUpload(u)
    BY <2>1 DEF BeginUpload
  <2>2. CASE ReceiveChunk(u)
    BY <2>2 DEF ReceiveChunk, ReceiveWith
  <2>3. CASE ReceiveFails(u) \/ TryClient(u) \/ FindFile(u)
    BY <2>3 DEF ReceiveFails, TryClient, Attempt, FindFile
  <2>4. CASE SaveFromPath(u) \/ MoveFails(u)
    BY <2>4 DEF SaveFromPath, SaveUnlinking, MoveFails
  <2>5. CASE WriteMetadata(u) \/ WriteMetadataFails(u)
    BY <2>5 DEF WriteMetadata, WriteMetadataFails
  <2>6. CASE RecordUpload(u) \/ UploadDies(u)
    BY <2>6 DEF RecordUpload, CommitUpload, UploadDies
  <2> QED
    BY <2>1, <2>2, <2>3, <2>4, <2>5, <2>6 DEF UploadStep
<1>2. Sound(o)'
  BY <1>1 DEF UploadInv, Sound, NothingStored, NothingSaid, FilmInHand, OfFilm, ClientsLeft
<1>3. FilesOfClients(o)'
  BY <1>1 DEF UploadInv, FilesOfClients, OfFilm
<1> QED
  BY <1>2, <1>3

\* What each step does to the film it is about, value by value.
LEMMA BeginValues ==
  ASSUME UploadTypeOK, NEW u \in Upload, BeginUpload(u)
  PROVE  /\ todo[u] = "start"
         /\ \/ todo'[u] = "receive" /\ video'[u] = 0
            \/ todo'[u] \in {"refused", "try client"} /\ video'[u] = video[u]
         /\ UNCHANGED <<filmLength, scratch, metadata, uploadRow, client>>
  BY DEF UploadTypeOK, BeginUpload, Then

LEMMA ReceiveValues ==
  ASSUME UploadTypeOK, NEW u \in Upload, ReceiveChunk(u)
  PROVE  /\ todo[u] = "receive"
         /\ \/ /\ video[u] = filmLength[u]
               /\ todo'[u] = "describe" /\ video'[u] = video[u]
            \/ /\ video[u] # filmLength[u] /\ ~(video[u] + 1 > Limit)
               /\ todo'[u] = "receive" /\ video'[u] = video[u] + 1
            \/ todo'[u] = "refused" /\ video'[u] = NoneYet
         /\ UNCHANGED <<filmLength, scratch, metadata, uploadRow, client>>
  BY DEF UploadTypeOK, ReceiveChunk, ReceiveWith, Then

LEMMA ClientValues ==
  ASSUME UploadTypeOK, NEW u \in Upload, TryClient(u)
  PROVE  /\ todo[u] = "try client" /\ client'[u] = client[u] + 1
         /\ \/ todo'[u] \in {"find file", "refused"}
            \/ todo'[u] = "try client" /\ client[u] + 1 < Clients
         /\ UNCHANGED <<filmLength, video, metadata, uploadRow>>
  BY DEF UploadTypeOK, TryClient, Attempt, Then

\* Numbers that a sound film's values are.
LEMMA FilmNumbers ==
  ASSUME UploadTypeOK, NEW u \in Upload
  PROVE  /\ filmLength[u] \in Nat /\ client[u] \in Nat
         /\ Limit \in Nat /\ Clients \in Nat /\ 0 < Clients /\ NoneYet \notin Nat
         /\ video[u] = NoneYet \/ video[u] \in Nat
  BY UploadAssumption DEF UploadTypeOK, Length

LEMMA BeginIsSound ==
  ASSUME UploadTypeOK, NEW u \in Upload, Sound(u), BeginUpload(u)
  PROVE  Sound(u)'
<1>1. 0 \in 0 .. filmLength[u] /\ 0 <= Limit
  BY FilmNumbers
<1> USE DEF Sound, NothingStored, NothingSaid, FilmInHand, ClientsLeft
<1>2. CASE todo'[u] = "receive" /\ video'[u] = 0
  BY <1>1, <1>2, BeginValues
<1>3. CASE todo'[u] \in {"refused", "try client"} /\ video'[u] = video[u]
  <2>1. client'[u] = 0
    BY BeginValues
  <2>2. 0 < Clients
    BY FilmNumbers
  <2>3. /\ todo[u] = "start" /\ video'[u] = NoneYet
        /\ metadata'[u] = "none" /\ ~uploadRow'[u]
    BY <1>3, BeginValues
  <2> QED
    BY <1>3, <2>1, <2>2, <2>3
<1> QED
  BY <1>2, <1>3, BeginValues

LEMMA ReceiveIsSound ==
  ASSUME UploadTypeOK, NEW u \in Upload, Sound(u), ReceiveChunk(u)
  PROVE  Sound(u)'
<1>1. todo[u] = "receive" /\ video[u] \in 0 .. filmLength[u] /\ video[u] \in Length
  <2>1. todo[u] = "receive" /\ video[u] \in 0 .. filmLength[u]
    BY ReceiveValues DEF Sound, FilmInHand
  <2>2. filmLength[u] \in Length
    BY DEF UploadTypeOK
  <2> QED
    BY <2>1, <2>2, Lengths
<1>2. /\ metadata[u] = "none" /\ ~uploadRow[u]
      /\ video[u] # NoneYet => video[u] <= Limit
  BY <1>1 DEF Sound, NothingSaid, FilmInHand
<1> USE DEF Sound, NothingStored, NothingSaid, FilmInHand, ClientsLeft,
         OfFilm
<1>3. CASE todo'[u] = "describe" /\ video'[u] = video[u] /\ video[u] = filmLength[u]
  BY <1>1, <1>2, <1>3, ReceiveValues
<1>4. CASE /\ video[u] # filmLength[u] /\ ~(video[u] + 1 > Limit)
           /\ todo'[u] = "receive" /\ video'[u] = video[u] + 1
  <2>1. video[u] + 1 \in 0 .. filmLength[u] /\ video[u] + 1 <= Limit
    BY <1>1, <1>4, FilmNumbers
  <2> QED
    BY <1>2, <1>4, <2>1, ReceiveValues
<1>5. CASE todo'[u] = "refused" /\ video'[u] = NoneYet
  <2>1. metadata'[u] = "none" /\ ~uploadRow'[u]
    BY <1>1, <1>2, ReceiveValues
  <2> QED
    BY <1>5, <2>1
<1> QED
  BY <1>3, <1>4, <1>5, ReceiveValues

LEMMA OwnIsSound ==
  ASSUME UploadInv, NEW u \in Upload, UploadStep(u)
  PROVE  Sound(u)'
<1>1. UploadTypeOK /\ UploadTypeOK' /\ Sound(u)
  BY UploadTypes DEF UploadInv
<1>2. filmLength[u] \in Length /\ 0 \in Length /\ 0 .. filmLength[u] \subseteq Length
  BY <1>1, Lengths DEF UploadTypeOK
<1> USE DEF Sound, NothingStored, NothingSaid, FilmInHand, ClientsLeft,
         OfFilm
<1>3. CASE BeginUpload(u)
  BY <1>1, <1>3, BeginIsSound
<1>4. CASE ReceiveChunk(u)
  BY <1>1, <1>4, ReceiveIsSound
<1>5. CASE ReceiveFails(u)
  BY <1>1, <1>5 DEF ReceiveFails, UploadTypeOK, Then
<1>6. CASE TryClient(u)
  BY <1>1, <1>6, ClientValues, FilmNumbers
<1>7. CASE FindFile(u)
  BY <1>1, <1>7 DEF FindFile, UploadTypeOK, Then
<1>8. CASE SaveFromPath(u)
  <2>1. PICK file \in scratch[u] :
          \/ /\ file.allowed /\ file.size <= Limit /\ video' = [video EXCEPT ![u] = file.size]
             /\ todo' = [todo EXCEPT ![u] = "describe"]
          \/ todo' = [todo EXCEPT ![u] = "refused"] /\ video' = video
    BY <1>8 DEF SaveFromPath, SaveUnlinking, Then
  <2>2. (file.allowed => OfFilm(u, file.size)) /\ todo[u] = "adopt"
    BY <1>8 DEF UploadInv, FilesOfClients, SaveFromPath, SaveUnlinking
  <2> QED
    BY <1>1, <1>8, <2>1, <2>2 DEF SaveFromPath, SaveUnlinking, UploadTypeOK
<1>9. CASE MoveFails(u)
  BY <1>1, <1>9 DEF MoveFails, UploadTypeOK, Then
<1>10. CASE WriteMetadata(u)
  BY <1>1, <1>10 DEF WriteMetadata, UploadTypeOK, Then
<1>11. CASE WriteMetadataFails(u)
  BY <1>1, <1>11 DEF WriteMetadataFails, UploadTypeOK, Then
<1>12. CASE RecordUpload(u)
  BY <1>1, <1>12 DEF RecordUpload, CommitUpload, UploadTypeOK, Then
<1>13. CASE UploadDies(u)
  BY <1>1, <1>13 DEF UploadDies, UploadTypeOK, Then
<1> QED
  BY <1>3, <1>4, <1>5, <1>6, <1>7, <1>8, <1>9, <1>10, <1>11, <1>12, <1>13 DEF UploadStep

\* What is there after a client fetched the film.
LEMMA FetchedFiles ==
  ASSUME NEW u \in Upload, NEW n, NEW files \in Fetched(u, n)
  PROVE  /\ \A file \in files :
              file \in scratch[u] \/ (file.allowed => file.size = filmLength[u])
         /\ scratch[u] = {} => \A file, other \in files : file = other
<1>1. PICK old \in SUBSET scratch[u],
           new \in {{}} \cup {{[by |-> n, size |-> filmLength[u], allowed |-> ok]} :
                                ok \in BOOLEAN}
                   \cup {{sound} : sound \in {p \in Piece(u, n) : ~p.allowed}} :
        files = old \cup new
  BY DEF Fetched
<1>2. CASE new = {}
  BY <1>1, <1>2
<1>3. CASE \E ok \in BOOLEAN : new = {[by |-> n, size |-> filmLength[u], allowed |-> ok]}
  BY <1>1, <1>3
<1>4. CASE \E sound \in Piece(u, n) : ~sound.allowed /\ new = {sound}
  BY <1>1, <1>4
<1> QED
  BY <1>1, <1>2, <1>3, <1>4

\* The directory as an attempt leaves it.
LEMMA ClientFiles ==
  ASSUME UploadInv, NEW u \in Upload, TryClient(u)
  PROVE  FilesOfClients(u)'
<1>1. UploadTypeOK /\ client[u] \in Nat /\ scratch[u] \in SUBSET File /\ filmLength[u] \in Length
  BY FilmNumbers DEF UploadInv, UploadTypeOK
<1>2. todo[u] = "try client" /\ client'[u] = client[u] + 1 /\ filmLength' = filmLength
  BY <1>1, ClientValues
<1>3. client[u] < Clients /\ (client[u] = 0 => scratch[u] = {})
  BY <1>2 DEF UploadInv, Sound, ClientsLeft, FilesOfClients
<1>4. PICK files \in SUBSET File :
        /\ scratch' = [scratch EXCEPT ![u] = files]
        /\ \/ files = {} /\ todo'[u] = "refused"
           \/ files \in Fetched(u, client[u] + 1) /\ todo'[u] = "find file"
           \/ files \in BrokenOff(u, client[u] + 1) /\ todo'[u] = "try client"
  BY <1>1, <1>3, FilesAreFiles
<1>5. scratch'[u] = files
  BY <1>1, <1>4 DEF UploadTypeOK
<1>6. client'[u] # 0 /\ (client[u] = 0 \/ client'[u] > 1)
  <2>1. \A c \in Nat : c + 1 # 0 /\ (c = 0 \/ c + 1 > 1)
    OBVIOUS
  <2> QED
    BY <1>1, <1>2, <2>1
<1>7. CASE files = {} /\ todo'[u] = "refused"
  BY <1>5, <1>7 DEF FilesOfClients
<1>8. CASE files \in Fetched(u, client[u] + 1) /\ todo'[u] = "find file"
  <2>1. /\ \A file \in files :
             file \in scratch[u] \/ (file.allowed => file.size = filmLength[u])
        /\ scratch[u] = {} => \A file, other \in files : file = other
    BY <1>8, FetchedFiles
  <2>2. \A file \in files : file.size \in Length
    BY DEF File
  <2>3. \A file \in files : file.allowed => OfFilm(u, file.size)'
    BY <1>2, <1>3, <1>6, <2>1, <2>2 DEF OfFilm
  <2> QED
    BY <1>3, <1>5, <1>6, <1>8, <2>1, <2>3 DEF FilesOfClients
<1>9. CASE files \in BrokenOff(u, client[u] + 1) /\ todo'[u] = "try client"
  BY <1>6, <1>9 DEF FilesOfClients
<1> QED
  BY <1>4, <1>7, <1>8, <1>9

\* The file that is taken: with one client, there is no other.
LEMMA TakenFiles ==
  ASSUME UploadInv, NEW u \in Upload, NEW file \in scratch[u], todo[u] = "adopt",
         scratch' = [scratch EXCEPT ![u] = @ \ {file}], UNCHANGED <<client, filmLength>>,
         todo'[u] \in {"describe", "refused", "error"}
  PROVE  FilesOfClients(u)'
<1>1. scratch'[u] = scratch[u] \ {file}
  BY DEF UploadInv, UploadTypeOK
<1>2. ~(client[u] > 1) => \A other \in scratch[u] : file = other
  BY DEF UploadInv, FilesOfClients
<1> QED
  BY <1>1, <1>2 DEF FilesOfClients

LEMMA OwnFiles ==
  ASSUME UploadInv, NEW u \in Upload, UploadStep(u)
  PROVE  FilesOfClients(u)'
<1>1. UploadTypeOK /\ FilesOfClients(u)
  BY DEF UploadInv
<1>2. CASE TryClient(u)
  BY <1>2, ClientFiles
<1>3. CASE SaveFromPath(u) \/ MoveFails(u)
  <2>1. /\ todo[u] = "adopt"
        /\ \E file \in scratch[u] : scratch' = [scratch EXCEPT ![u] = @ \ {file}]
    BY <1>3 DEF SaveFromPath, SaveUnlinking, MoveFails
  <2>2. UNCHANGED <<client, filmLength>> /\ todo'[u] \in {"describe", "refused", "error"}
    BY <1>1, <1>3 DEF SaveFromPath, SaveUnlinking, MoveFails, Then, UploadTypeOK
  <2> QED
    BY <2>1, <2>2, TakenFiles
<1>4. ASSUME UNCHANGED <<scratch, client, filmLength>>,
             \/ todo'[u] = todo[u]
             \/ todo'[u] \in {"describe", "error", "add row", "created", "dead"}
             \/ todo[u] \in {"start", "receive"}
             \/ todo[u] = "find file" /\ todo'[u] = "adopt"
             \/ todo[u] = "find file" /\ scratch[u] = {}
      PROVE  FilesOfClients(u)'
  BY <1>1, <1>4 DEF FilesOfClients, OfFilm
<1>5. CASE BeginUpload(u) \/ ReceiveChunk(u) \/ ReceiveFails(u)
  BY <1>4, <1>5 DEF BeginUpload, ReceiveChunk, ReceiveWith, ReceiveFails
<1>6. CASE FindFile(u)
  BY <1>1, <1>4, <1>6 DEF FindFile, Then, UploadTypeOK
<1>7. CASE WriteMetadata(u) \/ WriteMetadataFails(u) \/ RecordUpload(u) \/ UploadDies(u)
  <2>1. UNCHANGED <<scratch, client, filmLength>>
    BY <1>7 DEF WriteMetadata, WriteMetadataFails, RecordUpload, CommitUpload, UploadDies
  <2>2. todo'[u] \in {"error", "add row", "created", "dead"}
    BY <1>1, <1>7 DEF WriteMetadata, WriteMetadataFails, RecordUpload, CommitUpload, UploadDies,
       Then, UploadTypeOK
  <2> QED
    BY <1>4, <2>1, <2>2
<1> QED
  BY <1>2, <1>3, <1>5, <1>6, <1>7 DEF UploadStep

-----------------------------------------------------------------------------
LEMMA UploadInvariant == UploadSpec => []UploadInv
<1>1. UploadInit => UploadInv
  BY UploadAssumption DEF UploadInit, UploadInv, UploadTypeOK, Todo, Sound, NothingStored,
     NothingSaid, FilmInHand, OfFilm, ClientsLeft, Length, FilesOfClients
<1>2. UploadInv /\ [UploadNext]_uploadVars => UploadInv'
  <2> SUFFICES ASSUME UploadInv, [UploadNext]_uploadVars PROVE UploadInv'
    OBVIOUS
  <2>1. CASE UploadNext
    <3>1. PICK u \in Upload : UploadStep(u)
      BY <2>1 DEF UploadNext, UploadStep
    <3> QED
      BY <3>1, UploadTypes, OtherUploadsRest, OwnIsSound, OwnFiles DEF UploadInv
  <2>2. CASE UNCHANGED uploadVars
    <3>1. UploadTypeOK' /\ \A u \in Upload : Sound(u)'
      BY <2>2 DEF uploadVars, UploadInv, UploadTypeOK, Sound, NothingStored,
         NothingSaid, FilmInHand, OfFilm, ClientsLeft
    <3>2. \A u \in Upload : FilesOfClients(u)'
      BY <2>2 DEF uploadVars, UploadInv, FilesOfClients, OfFilm
    <3> QED
      BY <3>1, <3>2 DEF UploadInv
  <2> QED
    BY <2>1, <2>2
<1> QED
  BY <1>1, <1>2, PTL DEF UploadSpec

\* A listed film, or one with a row, is the whole film within the limit,
\* but for what a second client may have been given (VideoStore,
\* ingestion.py; youtube.download()), wherever other uploads broke off.
THEOREM ListedFilmsAreWhole == UploadSpec => []StoredFilmIsWhole
<1>1. ASSUME UploadInv PROVE StoredFilmIsWhole
  <2> SUFFICES ASSUME NEW u \in Upload, u \in Listed \/ uploadRow[u]
               PROVE  /\ Served(u) \in 0 .. Limit
                      /\ Served(u) = filmLength[u] \/ client[u] > 1
    BY DEF StoredFilmIsWhole
  <2>1. metadata[u] = "written" /\ Served(u) = video[u]
    BY <1>1 DEF UploadInv, Sound, NothingSaid, Listed, Served
  <2>2. OfFilm(u, video[u]) /\ (video[u] # NoneYet => video[u] <= Limit)
    BY <1>1, <2>1 DEF UploadInv, Sound, FilmInHand
  <2>3. video[u] \in Nat /\ video[u] # NoneYet /\ Limit \in Nat
    BY <2>2, Lengths, UploadAssumption DEF OfFilm
  <2> QED
    BY <2>1, <2>2, <2>3 DEF OfFilm
<1> QED
  BY <1>1, UploadInvariant, PTL

\* A refused upload has stored nothing, has no row and is not listed, and if
\* it asked one client nothing of what that downloaded is left (youtube.py,
\* save_from_path and its caller); the store never holds more of a film than
\* MAX_UPLOAD_MB.
THEOREM RefusalsStoreNothing == UploadSpec => []RefusedStoresNothing
<1>1. UploadInv => RefusedStoresNothing
  BY DEF UploadInv, Sound, NothingStored, NothingSaid, FilmInHand, FilesOfClients,
     RefusedStoresNothing, Listed
<1> QED
  BY <1>1, UploadInvariant, PTL

-----------------------------------------------------------------------------
(* FilmJobs: which files there are follows from where the requests are.    *)

\* Gemini fetches it; there is no file around it.
IsLink(q) == film[q] = q /\ gemini[q] = "none"

BeforeFilm(q) ==
  /\ at[q] \in {"new", "receiving", "send"} => film[q] = NoFile
  /\ at[q] = "queued" => q \in Job
  /\ at[q] \in {"wait", "grade", "save"} => q \in Waiting \/ film[q] = q
  /\ at[q] = "wait" => gemini[q] # "none"

\* A job meets no film but its own, and takes it with it.
OwnFile(j) ==
  /\ film[j] \in {NoFile, j} /\ temp[j] \in {NoFile, j}
  /\ at[j] = "answered" => film[j] = j
  /\ IsLink(j) \/ at[j] \in {"new", "save", "answered", "failed"} => temp[j] = NoFile

\* Who is to clear the shared path, or was lost before it could.
Keeps(o) ==
  \/ at[o] \in {"send", "wait", "lost"}
  \/ at[o] = "grade" /\ ~IsLink(o)

SharedIsKept == temp[SharedName] # NoFile => \E o \in Waiting : Keeps(o)

FilmInv ==
  /\ FilmJobTypeOK
  /\ \A q \in FilmRequest : BeforeFilm(q)
  /\ \A j \in Job : OwnFile(j)
  /\ SharedIsKept

-----------------------------------------------------------------------------
(* A request moves alone, and touches no file but the one at its path.     *)

FilmStep(q) ==
  \/ GiveLink(q) \/ Receive(q) \/ FilmJobStep(q) \/ GeminiDecides(q) \/ TimeIsUp(q)

LEMMA Paths ==
  ASSUME NEW q \in FilmRequest
  PROVE  /\ PathOf(q) \in TempPath
         /\ q \in Job => PathOf(q) = q
         /\ q \notin Job => PathOf(q) = SharedName /\ q \in Waiting
         /\ q \in FilmRequest \cup {NoFile} /\ NoFile \in FilmRequest \cup {NoFile}
  BY DEF PathOf, TempPath, FilmRequest

LEMMA FilmTypes ==
  ASSUME FilmJobTypeOK, NEW q \in FilmRequest, FilmStep(q)
  PROVE  FilmJobTypeOK'
<1>1. /\ temp' = temp \/ \E f \in {q, NoFile} : temp' = [temp EXCEPT ![PathOf(q)] = f]
      /\ isReport' = isReport /\ restarts' = restarts
      /\ film' = film \/ \E f \in {q, temp[PathOf(q)]} : film' = [film EXCEPT ![q] = f]
  BY DEF FilmStep, GiveLink, Receive, FilmJobStep, RefuseFilm, AcceptFilm, BeginJob, Send,
         WaitForGeminiFile, AwaitGemini, RunFilmAnalysis, PersistEvaluation,
         GeminiDecides, TimeIsUp, Store, Conclude, CleanUp
<1>2. /\ at' = at \/ \E p \in Place : at' = [at EXCEPT ![q] = p]
      /\ gemini' = gemini \/ \E g \in {"PROCESSING", "ACTIVE", "FAILED"} :
                               gemini' = [gemini EXCEPT ![q] = g]
      /\ overdue' = overdue \/ \E b \in BOOLEAN : overdue' = [overdue EXCEPT ![q] = b]
  BY DEF FilmStep, GiveLink, Receive, FilmJobStep, RefuseFilm, AcceptFilm, BeginJob, Send,
         WaitForGeminiFile, AwaitGemini, RunFilmAnalysis, PersistEvaluation,
         GeminiDecides, TimeIsUp, Move, Conclude, Place
<1>3. \/ filmJobs' = filmJobs
      \/ \E n \in {"unknown", "queued", "processing", "complete", "failed"} :
           filmJobs' = IF q \in Job THEN [filmJobs EXCEPT ![q] = n] ELSE filmJobs
  BY DEF FilmStep, GiveLink, Receive, FilmJobStep, RefuseFilm, AcceptFilm, BeginJob, Send,
         WaitForGeminiFile, AwaitGemini, RunFilmAnalysis, PersistEvaluation,
         GeminiDecides, TimeIsUp, Note, Conclude
<1>4. temp' \in [TempPath -> FilmRequest \cup {NoFile}]
  BY <1>1, Paths DEF FilmJobTypeOK
<1>5. film' \in [FilmRequest -> FilmRequest \cup {NoFile}]
  BY <1>1, Paths DEF FilmJobTypeOK
<1>6. filmJobs' \in [Job -> {"unknown", "queued", "processing", "complete", "failed"}]
  BY <1>3 DEF FilmJobTypeOK
<1>7. at' \in [FilmRequest -> Place] /\ overdue' \in [FilmRequest -> BOOLEAN]
  BY <1>2 DEF FilmJobTypeOK
<1>8. gemini' \in [FilmRequest -> {"none", "PROCESSING", "ACTIVE", "FAILED"}]
  BY <1>2 DEF FilmJobTypeOK
<1> QED
  BY <1>1, <1>4, <1>5, <1>6, <1>7, <1>8 DEF FilmJobTypeOK

LEMMA FilesOf ==
  ASSUME FilmJobTypeOK, NEW q \in FilmRequest, FilmStep(q), q \in Job
  PROVE  temp'[SharedName] = temp[SharedName]
<1>1. temp' = temp \/ \E f \in {q, NoFile} : temp' = [temp EXCEPT ![PathOf(q)] = f]
  BY DEF FilmStep, GiveLink, Receive, FilmJobStep, RefuseFilm, AcceptFilm, BeginJob, Send,
         WaitForGeminiFile, AwaitGemini, RunFilmAnalysis, PersistEvaluation,
         GeminiDecides, TimeIsUp, Store, Conclude, CleanUp
<1>2. PathOf(q) # SharedName
  BY Paths, FilmJobAssumption
<1> QED
  BY <1>1, <1>2 DEF FilmJobTypeOK, TempPath

\* What another request sees of a step.
LEMMA OtherFilmsRest ==
  ASSUME FilmJobTypeOK, NEW q \in FilmRequest, FilmStep(q), NEW o \in FilmRequest, o # q
  PROVE  /\ at'[o] = at[o] /\ film'[o] = film[o] /\ gemini'[o] = gemini[o]
         /\ o \in Job => temp'[o] = temp[o]
<1>1. /\ at' = [at EXCEPT ![q] = at'[q]] /\ film' = [film EXCEPT ![q] = film'[q]]
      /\ gemini' = [gemini EXCEPT ![q] = gemini'[q]]
  BY DEF FilmJobTypeOK, FilmStep, GiveLink, Receive, FilmJobStep, RefuseFilm, AcceptFilm,
         BeginJob, Send, WaitForGeminiFile, AwaitGemini, RunFilmAnalysis,
         PersistEvaluation, GeminiDecides, TimeIsUp, Move, Conclude
<1>2. temp' = temp \/ \E f \in {q, NoFile} : temp' = [temp EXCEPT ![PathOf(q)] = f]
  BY DEF FilmStep, GiveLink, Receive, FilmJobStep, RefuseFilm, AcceptFilm, BeginJob, Send,
         WaitForGeminiFile, AwaitGemini, RunFilmAnalysis, PersistEvaluation,
         GeminiDecides, TimeIsUp, Store, Conclude, CleanUp
<1>3. o \in Job => PathOf(q) # o
  BY Paths, FilmJobAssumption
<1> QED
  BY <1>1, <1>2, <1>3 DEF FilmJobTypeOK, TempPath

\* What a step does to the request that takes it.
LEMMA FilmMoves ==
  ASSUME FilmInv, NEW q \in FilmRequest, FilmStep(q)
  PROVE  /\ BeforeFilm(q)'
         /\ q \in Job => OwnFile(q)'
         /\ Keeps(q) => Keeps(q)' \/ temp'[PathOf(q)] = NoFile
         /\ temp'[PathOf(q)] \in {NoFile, temp[PathOf(q)]} \/ q \in Job \/ Keeps(q)'
<1> USE DEF BeforeFilm, OwnFile, Keeps, IsLink, Move
<1>1. /\ FilmJobTypeOK /\ BeforeFilm(q) /\ (q \in Job => OwnFile(q))
      /\ q # NoFile /\ (q \in Job => q \notin Waiting)
  BY FilmJobAssumption DEF FilmInv
<1>2. /\ PathOf(q) \in TempPath /\ (q \in Job => PathOf(q) = q)
      /\ q \notin Job => q \in Waiting
  BY Paths
<1>3. CASE GiveLink(q)
  BY <1>1, <1>2, <1>3 DEF GiveLink, FilmJobTypeOK
<1>4. CASE Receive(q)
  BY <1>1, <1>2, <1>4 DEF Receive, Store, FilmJobTypeOK
<1>5. CASE RefuseFilm(q)
  BY <1>1, <1>2, <1>5 DEF RefuseFilm, Store, FilmJobTypeOK
<1>6. CASE AcceptFilm(q)
  BY <1>1, <1>2, <1>6 DEF AcceptFilm, Store, FilmJobTypeOK
<1>7. CASE BeginJob(q)
  BY <1>1, <1>2, <1>7 DEF BeginJob, FilmJobTypeOK
<1>8. CASE Send(q)
  BY <1>1, <1>2, <1>8 DEF Send, Conclude, CleanUp, Store, FilmJobTypeOK
<1>9. CASE WaitForGeminiFile(q)
  BY <1>1, <1>2, <1>9
  DEF WaitForGeminiFile, AwaitGemini, Conclude, CleanUp, Store, FilmJobTypeOK
<1>10. CASE RunFilmAnalysis(q)
  BY <1>1, <1>2, <1>10 DEF RunFilmAnalysis, Conclude, CleanUp, Store, FilmJobTypeOK
<1>11. CASE PersistEvaluation(q)
  BY <1>1, <1>2, <1>11 DEF PersistEvaluation, FilmJobTypeOK
<1>12. CASE GeminiDecides(q)
  BY <1>1, <1>2, <1>12 DEF GeminiDecides, FilmJobTypeOK
<1>13. CASE TimeIsUp(q)
  BY <1>1, <1>2, <1>13 DEF TimeIsUp, FilmJobTypeOK
<1> QED
  BY <1>3, <1>4, <1>5, <1>6, <1>7, <1>8, <1>9, <1>10, <1>11, <1>12, <1>13
  DEF FilmStep, FilmJobStep

LEMMA StepKeeps ==
  ASSUME FilmInv, NEW q \in FilmRequest, FilmStep(q)
  PROVE  FilmInv'
<1>1. FilmJobTypeOK /\ FilmJobTypeOK'
  BY FilmTypes DEF FilmInv
<1>2. ASSUME NEW o \in FilmRequest PROVE BeforeFilm(o)' /\ (o \in Job => OwnFile(o)')
  <2>1. CASE o = q
    BY <2>1, FilmMoves
  <2>2. CASE o # q
    BY <1>1, <2>2, OtherFilmsRest DEF FilmInv, BeforeFilm, OwnFile, IsLink
  <2> QED
    BY <2>1, <2>2
<1>3. SharedIsKept'
  <2> SUFFICES ASSUME temp'[SharedName] # NoFile PROVE \E o \in Waiting : Keeps(o)'
    BY DEF SharedIsKept
  <2>1. CASE q \in Job
    <3>1. temp'[SharedName] = temp[SharedName]
      BY <2>1, FilesOf, <1>1
    <3>2. PICK o \in Waiting : Keeps(o)
      BY <3>1 DEF FilmInv, SharedIsKept
    <3>3. o # q /\ o \in FilmRequest
      BY <2>1, FilmJobAssumption DEF FilmRequest
    <3>4. Keeps(o)'
      BY <1>1, <3>2, <3>3, OtherFilmsRest DEF Keeps, IsLink
    <3> QED
      BY <3>4
  <2>2. CASE q \notin Job
    <3>1. PathOf(q) = SharedName /\ q \in Waiting
      BY <2>2, Paths
    <3>2. CASE Keeps(q)'
      BY <3>1, <3>2
    <3>3. CASE ~Keeps(q)'
      <4>1. temp[SharedName] # NoFile /\ ~Keeps(q)
        BY <2>2, <3>1, <3>3, FilmMoves
      <4>2. PICK o \in Waiting : Keeps(o)
        BY <4>1 DEF FilmInv, SharedIsKept
      <4>3. o # q /\ o \in FilmRequest
        BY <4>1, <4>2 DEF FilmRequest
      <4>4. Keeps(o)'
        BY <1>1, <4>2, <4>3, OtherFilmsRest DEF Keeps, IsLink
      <4> QED
        BY <4>4
    <3> QED
      BY <3>2, <3>3
  <2> QED
    BY <2>1, <2>2
<1> QED
  BY <1>1, <1>2, <1>3 DEF FilmInv, FilmRequest

LEMMA RestartKeeps ==
  ASSUME FilmInv, RestartWeb
  PROVE  FilmInv'
<1>1. FilmJobTypeOK
  BY DEF FilmInv
<1>2. /\ \A q \in FilmRequest :
           \/ at'[q] = at[q] /\ at[q] \in Ended \cup {"new"}
           \/ at'[q] = "lost" /\ at[q] \notin {"answered", "failed"}
      /\ UNCHANGED <<temp, isReport, film, gemini, overdue>>
  BY DEF RestartWeb, Ended
<1>3. FilmJobTypeOK'
  <2>1. restarts' \in 0 .. MaxRestarts
    BY <1>1, FilmJobAssumption DEF RestartWeb, FilmJobTypeOK
  <2>2. at' \in [FilmRequest -> Place]
    BY <1>1 DEF RestartWeb, FilmJobTypeOK, Place
  <2>3. filmJobs' \in [Job -> {"unknown", "queued", "processing", "complete", "failed"}]
    BY DEF RestartWeb
  <2> QED
    BY <1>1, <1>2, <2>1, <2>2, <2>3 DEF FilmJobTypeOK
<1>4. \A q \in FilmRequest : BeforeFilm(q)'
  BY <1>2 DEF FilmInv, BeforeFilm
<1>5. \A j \in Job : OwnFile(j)'
  BY <1>2 DEF FilmInv, OwnFile, IsLink, FilmRequest
<1>6. \A o \in Waiting : Keeps(o) => Keeps(o)'
  BY <1>2 DEF Keeps, FilmRequest, Ended
<1>7. SharedIsKept'
  BY <1>2, <1>6 DEF FilmInv, SharedIsKept
<1> QED
  BY <1>3, <1>4, <1>5, <1>7 DEF FilmInv

LEMMA FilmSafety == FilmJobInit /\ [][FilmJobNext]_filmJobVars => []FilmInv
<1>1. FilmJobInit => FilmInv
  <2> SUFFICES ASSUME FilmJobInit PROVE FilmInv
    OBVIOUS
  <2>1. FilmJobTypeOK
    BY FilmJobAssumption DEF FilmJobInit, FilmJobTypeOK, Place
  <2> QED
    BY <2>1, FilmJobAssumption
    DEF FilmJobInit, FilmInv, BeforeFilm, OwnFile, SharedIsKept, TempPath, FilmRequest
<1>2. FilmInv /\ [FilmJobNext]_filmJobVars => FilmInv'
  <2> SUFFICES ASSUME FilmInv, [FilmJobNext]_filmJobVars PROVE FilmInv'
    OBVIOUS
  <2>1. CASE \E q \in FilmRequest : FilmStep(q)
    BY <2>1, StepKeeps
  <2>2. CASE RestartWeb
    BY <2>2, RestartKeeps
  <2>3. CASE UNCHANGED filmJobVars
    BY <2>3 DEF filmJobVars, FilmInv, FilmJobTypeOK, BeforeFilm, OwnFile, IsLink,
                SharedIsKept, Keeps
  <2> QED
    BY <2>1, <2>2, <2>3 DEF FilmJobNext, FilmStep
<1> QED
  BY <1>1, <1>2, PTL

\* The files there are follow from where the requests are (main.py,
\* create_film_job, _process_film_job, _run_film_analysis), at any time.
THEOREM FilmInvariant == FilmJobSpec => []FilmInv
  BY FilmSafety, PTL DEF FilmJobSpec

\* A film job is graded on its own film and leaves no file, and the path
\* waiting requests share is empty once they have ended (main.py,
\* create_film_job, _process_film_job, _run_film_analysis), for any number of
\* requests at once; only a restart leaves some.
THEOREM JobsKeepToTheirFilms == FilmJobSpec => []FilmsAreKeptApart
<1>1. ASSUME FilmInv PROVE FilmsAreKeptApart
  <2>1. JobsGradeTheirOwnFilm
    BY <1>1 DEF FilmInv, OwnFile, JobsGradeTheirOwnFilm
  <2>2. (\A o \in Waiting : at[o] \in {"new", "answered", "failed"}) =>
          temp[SharedName] = NoFile
    BY <1>1 DEF FilmInv, SharedIsKept, Keeps
  <2>3. \A j \in Job : at[j] \in {"answered", "failed"} => temp[j] = NoFile
    BY <1>1 DEF FilmInv, OwnFile
  <2> QED
    BY <2>1, <2>2, <2>3 DEF FilmsAreKeptApart, NothingLeftBehind
<1> QED
  BY <1>1, FilmInvariant, PTL

-----------------------------------------------------------------------------
(* RosterRows: what others have done since a request read its row stands.  *)

\* A request puts or removes its row in one of these.
RosterStep(c) ==
  \/ c \in Put /\ (FindToPut(c) \/ InsertOrUpdate(c) \/ Refresh(c))
  \/ c \in Removal /\ (FindToRemove(c) \/ Remove(c))
  \/ CallFails(c)

LEMMA FreshIsRecord ==
  ASSUME RosterTypeOK, NEW p \in Put, loaded[p] = NoRecord
  PROVE  Fresh(p) \in Record(table)
  BY DEF RosterTypeOK, IdOf, Fresh, Record

LEMMA ChangedIsRecord ==
  ASSUME RosterTypeOK, NEW p \in Put, record # NoRecord, loaded[p] # NoRecord,
         NEW new, new = [record EXCEPT !.values = Merge(loaded[p].values, Changed(p), @)]
  PROVE  /\ new \in Record(table)
         /\ \A c \in Columns[table] \ asked[p] : new.values[c] = record.values[c]
<1>1. record \in Record(table) /\ loaded[p] \in Record(table)
  BY DEF RosterTypeOK, Caller
<1>2. DOMAIN Changed(p) = Columns[table]
  BY DEF Changed
<1>3. new = [id |-> record.id, values |-> Merge(loaded[p].values, Changed(p), record.values)]
  BY <1>1 DEF Record
<1>4. new.values = [c \in Columns[table] |->
         IF Changed(p)[c] # loaded[p].values[c] THEN Changed(p)[c] ELSE record.values[c]]
  BY <1>2, <1>3 DEF Merge
<1>5. \A c \in Columns[table] : Changed(p)[c] \in Put \cup {Null}
  BY <1>1 DEF Changed, Record
<1>6. new.values \in [Columns[table] -> Put \cup {Null}]
  BY <1>1, <1>4, <1>5 DEF Record
<1> QED
  BY <1>1, <1>3, <1>4, <1>6 DEF Record, Changed

LEMMA RosterStepTypes ==
  ASSUME RosterTypeOK, NEW c \in Caller, RosterStep(c)
  PROVE  RosterTypeOK'
<1> USE DEF Become
<1>1. CASE c \in Put /\ FindToPut(c)
  BY <1>1 DEF FindToPut, Find, RosterTypeOK
<1>2. CASE c \in Put /\ InsertOrUpdate(c)
  <2>1. record' \in {NoRecord} \cup Record(table)
    BY <1>2, FreshIsRecord, ChangedIsRecord DEF InsertOrUpdate, StillThere, RosterTypeOK
  <2> QED
    BY <1>2, <2>1 DEF InsertOrUpdate, RosterTypeOK
<1>3. CASE c \in Put /\ Refresh(c)
  BY <1>3 DEF Refresh, AnswerWith, RosterTypeOK
<1>4. CASE c \in Removal /\ FindToRemove(c)
  BY <1>4 DEF FindToRemove, Find, RosterTypeOK
<1>5. CASE c \in Removal /\ Remove(c)
  BY <1>5 DEF Remove, RosterTypeOK
<1>6. CASE CallFails(c)
  BY <1>6 DEF CallFails, RosterTypeOK
<1> QED
  BY <1>1, <1>2, <1>3, <1>4, <1>5, <1>6 DEF RosterStep

LEMMA RosterNextSplits ==
  ASSUME RosterNext
  PROVE  \E c \in Caller : RosterStep(c)
  BY DEF RosterNext, RosterStep, Caller

LEMMA RosterTypes == RosterSpec => []RosterTypeOK
<1>1. RosterInit => RosterTypeOK
  BY DEF RosterInit, RosterTypeOK, Record, Columns
<1>2. RosterTypeOK /\ [RosterNext]_rosterVars => RosterTypeOK'
  BY RosterNextSplits, RosterStepTypes DEF rosterVars, RosterTypeOK
<1> QED
  BY <1>1, <1>2, PTL DEF RosterSpec

\* What a request does to the row.
LEMMA RowMoves ==
  ASSUME RosterTypeOK, NEW c \in Caller, RosterStep(c)
  PROVE  /\ \A d \in Caller \ {c} : phase'[d] = phase[d]
         /\ phase[c] = "read" /\ phase'[c] = "committed" =>
              c \in Put /\ InsertOrUpdate(c)
         /\ phase[c] = "committed" /\ phase'[c] = "answered" =>
              c \in Put /\ Refresh(c)
         /\ record = NoRecord /\ record' # NoRecord =>
              c \in Put /\ InsertOrUpdate(c)
  BY DEF RosterStep, FindToPut, FindToRemove, Find, InsertOrUpdate, Refresh,
         AnswerWith, Remove, CallFails, Become, RosterTypeOK

LEMMA RowsComeAnew ==
  ASSUME RosterTypeOK, NEW c \in Caller, RosterStep(c),
         record = NoRecord, record' # NoRecord
  PROVE  \E p \in Put : /\ phase[p] = "read" /\ phase'[p] = "committed"
                        /\ loaded[p] = NoRecord
<1>1. c \in Put /\ InsertOrUpdate(c)
  BY RowMoves
<1> QED
  BY <1>1 DEF InsertOrUpdate, StillThere, Become, RosterTypeOK

LEMMA OtherColumns ==
  ASSUME RosterTypeOK, NEW c \in Caller, RosterStep(c), NEW p \in Put,
         phase[p] = "read", phase'[p] = "committed", record # NoRecord
  PROVE  \A col \in Columns[table] \ asked[p] : record'.values[col] = record.values[col]
<1>1. p = c
  BY RowMoves DEF Caller
<1>2. InsertOrUpdate(p)
  BY <1>1, RowMoves
<1>3. phase' = [phase EXCEPT ![p] = "refused"] => phase'[p] # "committed"
  BY DEF RosterTypeOK, Caller
<1> QED
  BY <1>2, <1>3, ChangedIsRecord DEF InsertOrUpdate, Become

\* A row that was removed while it was being changed stays removed, and a
\* put leaves the columns alone its body does not set, whatever another
\* request wrote since it read the row (regenerate_share_link,
\* delete_share_link, board.py), for any number of requests.
THEOREM WorkOfOthersStands == RosterSpec => OthersWorkStands
<1>1. ASSUME RosterTypeOK, [RosterNext]_rosterVars, record = NoRecord, record' # NoRecord
      PROVE  \E p \in Put : /\ phase[p] = "read" /\ phase'[p] = "committed"
                            /\ loaded[p] = NoRecord
  BY <1>1, RosterNextSplits, RowsComeAnew DEF rosterVars
<1>2. ASSUME RosterTypeOK, [RosterNext]_rosterVars
      PROVE  \A p \in Put : phase[p] = "read" /\ phase'[p] = "committed" /\ record # NoRecord =>
               \A c \in Columns[table] \ asked[p] : record'.values[c] = record.values[c]
  BY <1>2, RosterNextSplits, OtherColumns DEF rosterVars
<1> QED
  BY <1>1, <1>2, RosterTypes, PTL
     DEF RosterSpec, OthersWorkStands, RemovedStaysRemoved, OthersColumnsKept

\* A share link works at the moment it is handed out, though another request
\* may have made it anew or revoked it since it was committed
\* (regenerate_share_link, athletes.py).
THEOREM LinksWorkWhenAnswered == RosterSpec => AnsweredLinkResolves
<1>1. ASSUME RosterTypeOK, [RosterNext]_rosterVars
      PROVE  \A p \in Put : table = "link" /\ phase[p] = "committed" /\ phase'[p] = "answered" =>
               Resolves(answer'[p].values["token"])
  <2> SUFFICES ASSUME NEW p \in Put, table = "link",
                      phase[p] = "committed", phase'[p] = "answered"
               PROVE  Resolves(answer'[p].values["token"])
    OBVIOUS
  <2>1. PICK c \in Caller : RosterStep(c)
    BY <1>1, RosterNextSplits DEF rosterVars
  <2>2. c = p
    BY <2>1, RowMoves, <1>1 DEF Caller
  <2>3. Refresh(p)
    BY <1>1, <2>1, <2>2, RowMoves
  <2>4. StillThere(p) /\ answer'[p] = record
    BY <2>3, <1>1 DEF Refresh, AnswerWith, Become, RosterTypeOK, Caller
  <2> QED
    BY <2>4 DEF Resolves, StillThere
<1> QED
  BY <1>1, RosterTypes, PTL DEF RosterSpec, AnsweredLinkResolves

-----------------------------------------------------------------------------
(* All services.                                                           *)

\* Each service runs as it does by itself.
LEMMA ServicesByThemselves ==
  MCSpec => /\ AccountSpec /\ RosterSpec /\ UploadSpec
            /\ FilmJobInit /\ [][FilmJobNext]_filmJobVars
            /\ AnswerInit /\ [][AnswerNext]_answerVars
<1>1. MCInit => AccountInit /\ RosterInit /\ UploadInit /\ FilmJobInit /\ AnswerInit
  BY DEF MCInit
<1>2. [MCNext]_mcVars => /\ [AccountNext]_accountVars /\ [RosterNext]_rosterVars
                         /\ [UploadNext]_uploadVars /\ [FilmJobNext]_filmJobVars
                         /\ [AnswerNext]_answerVars
  BY DEF MCNext, mcVars
<1> QED
  BY <1>1, <1>2, PTL DEF MCSpec, AccountSpec, RosterSpec, UploadSpec

\* The variables of every service keep their types whatever the requests,
\* also beside the other services.
THEOREM ServiceTypes == MCSpec => []ServicesTypeOK
<1>1. AccountInv => AccountTypeOK
  BY DEF AccountInv
<1>2. UploadInv => UploadTypeOK
  BY DEF UploadInv
<1>3. FilmInv => FilmJobTypeOK
  BY DEF FilmInv
<1>4. AnswerInv => AnswerTypeOK
  BY DEF AnswerInv
<1> QED
  BY <1>1, <1>2, <1>3, <1>4, ServicesByThemselves, AccountInvariant, RosterTypes,
     UploadInvariant, FilmSafety, AnswerSafety, PTL DEF ServicesTypeOK
=============================================================================
