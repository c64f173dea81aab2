--------------------------- MODULE PlayerTracking ---------------------------
(***************************************************************************)
(* ByteTrackTracker (backend/vision/tracker.py): detections of one frame   *)
(* after the other are associated to tracks, the confident ones first.     *)
(* One action is a frame that begins or one turn of _associate()'s loop.   *)
(*                                                                         *)
(* Abstractions.  Players move along a line, and how much two boxes        *)
(* overlap depends on how far they are apart.  Frames are counted from a   *)
(* track's last one, up to the bound the code compares with.  Velocity and *)
(* direction are left out; detections below low_threshold are none.        *)
(***************************************************************************)
EXTENDS Integers, Sequences, FiniteSetsExt

CONSTANTS
  Place,        \* where a player can be, on a line
  Overlap,      \* _iou() by distance, 0 from its length on
  MatchIoU,     \* match_iou
  MaxLost,      \* max_lost_frames
  MaxDetected,  \* bound: players detected in a frame
  MaxTracks     \* bound: tracks

ASSUME TrackingAssumption ==
  /\ Place \subseteq Nat /\ Overlap \in Seq(Nat) /\ MatchIoU \in Nat \ {0}
  /\ MaxLost \in Nat /\ MaxDetected \in Nat /\ MaxTracks \in Nat

VARIABLES
  tracks,   \* per track, in order of its id: its place and frames since
  high,     \* detections of this frame with a score over high_threshold
  low,      \* those with one between the thresholds
  output    \* what this frame's detections were associated to

trackingVars == <<tracks, high, low, output>>

Detection == [at : Place, sure : BOOLEAN]

\* An association: which detection, to which track, where that was, how
\* many frames before; lost is 0 for a track that begins.
Association == [of : Detection, id : 1 .. MaxTracks, was : Place, lost : 0 .. MaxLost + 1]

TrackingTypeOK ==
  /\ tracks \in Seq([at : Place, lost : 0 .. MaxLost + 1]) /\ Len(tracks) <= MaxTracks
  /\ high \in Seq([at : Place, sure : {TRUE}])
  /\ low \in Seq([at : Place, sure : {FALSE}])
  /\ output \in Seq(Association)

TrackingInit == tracks = <<>> /\ high = <<>> /\ low = <<>> /\ output = <<>>

-----------------------------------------------------------------------------
IoU(a, b) ==
  LET d == IF a < b THEN b - a ELSE a - b IN
  IF d < Len(Overlap) THEN Overlap[d + 1] ELSE 0

\* Faulty variant: the second pass knows nothing of the first.
ClaimedInPass == {output[i].id : i \in {k \in DOMAIN output : output[k].of.sure = (high # <<>>)}}

Claimed == {output[i].id : i \in DOMAIN output}

\* Tracks a detection may continue.
Candidates == {id \in DOMAIN tracks \ Claimed : tracks[id].lost <= MaxLost}

\* max(): the best, and of equals the first.
BestOf(ids, at) ==
  Min({id \in ids : \A k \in ids : IoU(tracks[k].at, at) <= IoU(tracks[id].at, at)})

Older(tr) == [tr EXCEPT !.lost = IF @ > MaxLost THEN @ ELSE @ + 1]

\* update(): the next frame, its detections in the detector's order.
BeginFrame ==
  /\ high = <<>> /\ low = <<>>
  /\ \E n \in 0 .. MaxDetected : \E m \in 0 .. MaxDetected - n :
       /\ high' \in [1 .. n -> [at : Place, sure : {TRUE}]]
       /\ low' \in [1 .. m -> [at : Place, sure : {FALSE}]]
       /\ Len(tracks) + n + m <= MaxTracks
  /\ tracks' = [id \in DOMAIN tracks |-> Older(tracks[id])]
  /\ output' = <<>>

\* One turn of _associate(): the detection goes to the best candidate, or
\* begins a track of its own.
AssociateOne(det) ==
  LET best == IF Candidates = {} THEN 0 ELSE BestOf(Candidates, det.at)
      matches == best # 0 /\ IoU(tracks[best].at, det.at) >= MatchIoU
      here == [at |-> det.at, lost |-> 0]
  IN \/ /\ matches
        /\ tracks' = [tracks EXCEPT ![best] = here]
        /\ output' = Append(output, [of |-> det, id |-> best,
                                     was |-> tracks[best].at, lost |-> tracks[best].lost])
     \/ /\ ~matches
        /\ tracks' = Append(tracks, here)
        /\ output' = Append(output, [of |-> det, id |-> Len(tracks) + 1,
                                     was |-> det.at, lost |-> 0])

Associate ==
  \/ /\ high # <<>> /\ AssociateOne(Head(high))
     /\ high' = Tail(high) /\ UNCHANGED low
  \/ /\ high = <<>> /\ low # <<>> /\ AssociateOne(Head(low))
     /\ low' = Tail(low) /\ UNCHANGED high

TrackingNext == BeginFrame \/ Associate

TrackingSpec == TrackingInit /\ [][TrackingNext]_trackingVars

-----------------------------------------------------------------------------
(* Properties.                                                             *)

\* Two players are never one: in a frame each detection has a track to
\* itself, also where a low score follows a high one to the same place.
OneTrackEach ==
  \A i, k \in DOMAIN output : i # k => output[i].id # output[k].id

\* A track goes on: it is picked up again only where its last box overlaps
\* enough and not after it was lost for longer than max_lost_frames, so that
\* another player who comes there later is a new one.
TracksAreContinuous ==
  \A i \in DOMAIN output : output[i].lost # 0 =>
    /\ IoU(output[i].was, output[i].of.at) >= MatchIoU
    /\ output[i].lost <= MaxLost

\* "Associates high-confidence detections first, then recovers with low
\* scores" (tracker.py:24): no low score takes a track that a high one, for
\* which a new track had to be begun, would have matched.
LowScoresOnlyRecover ==
  \A i, k \in DOMAIN output :
    output[i].of.sure /\ output[i].lost = 0 /\ ~output[k].of.sure /\ output[k].lost # 0 =>
      IoU(output[k].was, output[i].of.at) < MatchIoU

\* What a tracked player's identity, evidence and grade rest on: a track is
\* one player, from frame to frame and against the others of a frame.
TracksAreSound == OneTrackEach /\ TracksAreContinuous /\ LowScoresOnlyRecover
=============================================================================
