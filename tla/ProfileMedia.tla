---------------------------- MODULE ProfileMedia ----------------------------
(***************************************************************************)
(* Profile videos of one user: PUT /users/updateProfile and                *)
(* ProfileMediaProcessorService.                                           *)
(*                                                                         *)
(* Multer writes the files of a request to disk before the handler runs;   *)
(* the handler checks the plan, saves the profile with mediaProcessing set *)
(* and answers.  A job then transcodes the files one after another and     *)
(* writes the video list as a whole, from the copy of the list that its    *)
(* request carried.  A request without files saves the profile only.       *)
(*                                                                         *)
(* A clip is the pair of its request and its place in it.  The plan of the *)
(* user does not change, and profile images are left out.                  *)
(***************************************************************************)
EXTENDS Naturals, SequencesExt

CONSTANTS
    Request,    \* bound: profile updates in all, each used once
    Name,       \* names of uploaded files; the path on disk is made of it
    Limit,      \* limits.maxProfileVideos of the user's plan
    MaxGallery  \* bound: gallery videos of a request (6 in the code)

ASSUME LimitAssumption == Limit \in Nat
ASSUME MaxGalleryAssumption == MaxGallery \in Nat

VARIABLES
    videos,             \* user.videos
    profileVideo,       \* user.profileVideo
    mediaProcessing,    \* user.mediaProcessing
    disk,               \* [n]: the clip in the upload file named n
    req,                \* the local state of each request and its job
    \* History, read by the properties only:
    wanted,             \* the gallery and profile video last asked for
    listed,             \* a body carried a `videos` list of its own
    overlapped,         \* a request was sent with another still at work
    uploadsOverlapped,  \* an upload was saved with the job of another at work
    failed,             \* a request or a job failed
    restarted           \* the process restarted

doc == <<videos, profileVideo, mediaProcessing>>
flags == <<listed, overlapped, uploadsOverlapped, failed, restarted>>
history == <<wanted, flags>>
vars == <<doc, disk, req, history>>

NoFile == <<>>
NoVideo == <<>>
\* A video that is hosted elsewhere, which only a `videos` list can name.
Hosted == <<"hosted">>

\* What a request may carry: at most one profile video, then gallery videos.
Slots == {p \o g : p \in {<<>>, <<"profile">>}, g \in SeqOf({"gallery"}, MaxGallery)}

Idle == [pc |-> "idle"]
Finished == [pc |-> "done"]
Done(r) == [req EXCEPT ![r] = Finished]
Goto(r, label) == [req EXCEPT ![r].pc = label]

Transcoding == {"open", "encode", "publish"}
Working == {r \in Request : req[r].pc \in Transcoding}
Jobs == {r \in Request : req[r].pc \in Transcoding \cup {"flagOff"}}
Active == {r \in Request : req[r].pc \notin {"idle", "done"}}

Init ==
    /\ videos = <<>>
    /\ profileVideo = NoVideo
    /\ mediaProcessing = FALSE
    /\ disk = [n \in Name |-> NoFile]
    /\ req = [r \in Request |-> Idle]
    /\ wanted = [gallery |-> <<>>, profile |-> NoVideo]
    /\ listed = FALSE
    /\ overlapped = FALSE
    /\ uploadsOverlapped = FALSE
    /\ failed = FALSE
    /\ restarted = FALSE

-----------------------------------------------------------------------------
(* The request.                                                            *)

\* Multer stores <user>_<original name>: a later file of the same name, of
\* this request or of another, replaces an earlier one.
LastPlace(names, n) ==
    CHOOSE i \in DOMAIN names :
        names[i] = n /\ \A j \in DOMAIN names : names[j] = n => j <= i

Stored(r, names) ==
    [n \in Name |-> IF n \in Range(names) THEN <<r, LastPlace(names, n)>> ELSE disk[n]]

\* How a client names the gallery it wants: the videos to keep as
\* previousVideos (or nothing), emptyVideos, or a `videos` list.  The field of
\* a multipart body is a string, and 'true' is not the `true` that is asked
\* for: emptyVideos never comes with files.
Sublists(s) ==
    UNION {{[k \in 1..n |-> s[place[k]]] :
               place \in {p \in [1..n -> DOMAIN s] : \A i, j \in 1..n : i < j => p[i] < p[j]}} :
           n \in 0..Len(s)}

Bodies ==
    {[previous |-> p, empty |-> FALSE, list |-> <<>>] : p \in Sublists(videos)}
        \cup {[previous |-> <<>>, empty |-> TRUE, list |-> <<>>],
              [previous |-> <<>>, empty |-> FALSE, list |-> Append(videos, Hosted)]}

Receive(r) ==
    /\ req[r].pc = "idle"
    /\ \E slots \in Slots, body \in Bodies :
          \E names \in [DOMAIN slots -> Name] :
             /\ body.empty => slots = <<>>
             /\ req' = [req EXCEPT ![r] =
                   [pc |-> "limits", slots |-> slots, names |-> names,
                    previous |-> body.previous, empty |-> body.empty,
                    list |-> body.list, made |-> <<>>, input |-> NoFile]]
             /\ disk' = Stored(r, names)
             /\ listed' = (listed \/ body.list # <<>>)
    /\ overlapped' = (overlapped \/ Active # {})
    /\ UNCHANGED <<doc, wanted, uploadsOverlapped, failed, restarted>>

\* Mutant: the videos that are kept are not counted.
WithinPlanIncoming(q) == Len(q.slots) <= Limit

WithinPlan(q) == Len(q.previous) + Len(q.slots) <= Limit

\* 'Your current plan allows up to ... videos': the files stay on disk.
Refuse(r) ==
    /\ req[r].pc = "limits"
    /\ ~WithinPlan(req[r])
    /\ req' = Done(r)
    /\ UNCHANGED <<doc, disk, history>>

Accept(r) ==
    /\ req[r].pc = "limits"
    /\ WithinPlan(req[r])
    /\ req' = Goto(r, "save")
    /\ UNCHANGED <<doc, disk, history>>

\* The clips of an upload, and of a list of clips or of what was made of them
\* the one for the profile and those for the gallery.
Clips(r) == [k \in DOMAIN req[r].slots |-> <<r, k>>]
ProfileOf(q, seq) == IF q.slots[1] = "profile" THEN <<seq[1]>> ELSE <<>>
GalleryOf(q, seq) == IF q.slots[1] = "profile" THEN Tail(seq) ELSE seq

\* With files: the profile is saved and the job scheduled.  body.videos stands
\* when neither emptyVideos nor previousVideos replaces it.
SaveUpload(r) ==
    LET q == req[r]
        gallery == GalleryOf(q, Clips(r))
        profile == ProfileOf(q, Clips(r))
        kept == IF q.empty THEN <<>> ELSE q.previous
    IN  /\ q.pc = "save" /\ q.slots # <<>>
        /\ videos' = IF q.empty THEN <<>>
                     ELSE IF q.previous # <<>> THEN q.previous
                     ELSE IF q.list # <<>> THEN q.list ELSE videos
        /\ mediaProcessing' = TRUE
        /\ req' = Goto(r, "open")
        /\ wanted' = [gallery |-> IF gallery # <<>> \/ q.empty \/ kept # <<>>
                                  THEN kept \o gallery ELSE wanted.gallery,
                      profile |-> IF profile # <<>> THEN profile[1] ELSE wanted.profile]
        /\ uploadsOverlapped' = (uploadsOverlapped \/ Jobs # {})
        /\ UNCHANGED <<profileVideo, disk, listed, overlapped, failed, restarted>>

\* Mutant: the flag is written with the rest of the profile.
SaveUpdateFlag(r) ==
    LET q == req[r]
    IN  /\ q.pc = "save" /\ q.slots = <<>>
        /\ videos' = IF q.empty THEN <<>>
                     ELSE IF q.previous # <<>> THEN q.previous
                     ELSE IF q.list # <<>> THEN q.list ELSE videos
        /\ mediaProcessing' = FALSE
        /\ req' = Done(r)
        /\ wanted' = [wanted EXCEPT !.gallery = videos']
        /\ UNCHANGED <<profileVideo, disk, flags>>

\* Without files: mediaProcessing is dropped from the body.
SaveUpdate(r) ==
    LET q == req[r]
    IN  /\ q.pc = "save" /\ q.slots = <<>>
        /\ videos' = IF q.empty THEN <<>>
                     ELSE IF q.previous # <<>> THEN q.previous
                     ELSE IF q.list # <<>> THEN q.list ELSE videos
        /\ req' = Done(r)
        /\ wanted' = [wanted EXCEPT !.gallery = videos']
        /\ UNCHANGED <<profileVideo, mediaProcessing, disk, flags>>

\* The plan cannot be read, the image not processed or the profile not saved.
RequestFails(r) ==
    /\ req[r].pc \in {"limits", "save"}
    /\ req' = Done(r)
    /\ failed' = TRUE
    /\ UNCHANGED <<doc, disk, wanted, listed, overlapped, uploadsOverlapped, restarted>>

-----------------------------------------------------------------------------
(* The job.                                                                *)

NextName(q) == q.names[Len(q.made) + 1]

\* processUploadedVideo: the upload file is there and ffmpeg opens it.
OpenClip(r) ==
    LET q == req[r]
    IN  /\ q.pc = "open"
        /\ disk[NextName(q)] # NoFile
        /\ req' = [req EXCEPT ![r].pc = "encode", ![r].input = disk[NextName(q)]]
        /\ UNCHANGED <<doc, disk, history>>

\* 'Uploaded file missing on disk'
ClipMissing(r) ==
    /\ req[r].pc = "open"
    /\ disk[NextName(req[r])] = NoFile
    /\ req' = Goto(r, "flagOff")
    /\ failed' = TRUE
    /\ UNCHANGED <<doc, disk, wanted, listed, overlapped, uploadsOverlapped, restarted>>

\* The clip is transcoded and published, and the upload file unlinked.
EncodeClip(r) ==
    LET q == req[r]
        made == Append(q.made, q.input)
    IN  /\ q.pc = "encode"
        /\ disk' = [disk EXCEPT ![NextName(q)] = NoFile]
        /\ req' = [req EXCEPT ![r].made = made,
                              ![r].pc = IF Len(made) < Len(q.slots)
                                        THEN "open" ELSE "publish"]
        /\ UNCHANGED <<doc, history>>

\* Mutant: the new clips go after the list that the document holds by now.
PublishAppends(r) ==
    LET q == req[r]
    IN  /\ q.pc = "publish"
        /\ videos' = videos \o GalleryOf(q, q.made)
        /\ profileVideo' = IF ProfileOf(q, q.made) # <<>> THEN q.made[1] ELSE profileVideo
        /\ mediaProcessing' = FALSE
        /\ req' = Done(r)
        /\ UNCHANGED <<disk, history>>

\* findByIdAndUpdate: the flag goes down and the list is the one the request
\* carried with the new clips after it, whatever the document holds by now.
Publish(r) ==
    LET q == req[r]
        kept == IF q.empty THEN <<>> ELSE q.previous
        gallery == GalleryOf(q, q.made)
        profile == ProfileOf(q, q.made)
    IN  /\ q.pc = "publish"
        /\ videos' = IF gallery # <<>> \/ q.empty \/ kept # <<>>
                     THEN kept \o gallery ELSE videos
        /\ profileVideo' = IF profile # <<>> THEN profile[1] ELSE profileVideo
        /\ mediaProcessing' = FALSE
        /\ req' = Done(r)
        /\ UNCHANGED <<disk, history>>

\* Mutant: a failed job leaves the flag alone.
JobFailsSilently(r) ==
    LET q == req[r]
    IN  /\ q.pc \in {"encode", "publish"}
        /\ disk' = IF q.pc = "encode" THEN [disk EXCEPT ![NextName(q)] = NoFile]
                   ELSE disk
        /\ req' = Done(r)
        /\ failed' = TRUE
        /\ UNCHANGED <<doc, wanted, listed, overlapped, uploadsOverlapped, restarted>>

\* Transcoding, the upload to ImageKit or the last update throws.
JobFails(r) ==
    LET q == req[r]
    IN  /\ q.pc \in {"encode", "publish"}
        /\ disk' = IF q.pc = "encode" THEN [disk EXCEPT ![NextName(q)] = NoFile]
                   ELSE disk
        /\ req' = Goto(r, "flagOff")
        /\ failed' = TRUE
        /\ UNCHANGED <<doc, wanted, listed, overlapped, uploadsOverlapped, restarted>>

\* The `finally` of a failed job.  If this update throws too, it rejects the job,
\* which nobody awaits: with no handler that ends the process, which is Restart.
FlagOff(r) ==
    /\ req[r].pc = "flagOff"
    /\ mediaProcessing' = FALSE
    /\ req' = Done(r)
    /\ UNCHANGED <<videos, profileVideo, disk, history>>

\* The process restarts: requests and jobs are gone, the files stay.
Restart ==
    /\ Active # {}
    /\ req' = [r \in Request |-> IF r \in Active THEN Finished ELSE req[r]]
    /\ failed' = TRUE
    /\ restarted' = TRUE
    /\ UNCHANGED <<doc, disk, wanted, listed, overlapped, uploadsOverlapped>>

JobStep(r) ==
    \/ OpenClip(r) \/ ClipMissing(r) \/ EncodeClip(r) \/ Publish(r)
    \/ JobFails(r) \/ FlagOff(r)

Next ==
    \/ \E r \in Request :
          \/ Receive(r) \/ Refuse(r) \/ Accept(r) \/ SaveUpload(r) \/ SaveUpdate(r)
          \/ RequestFails(r) \/ JobStep(r)
    \/ Restart

\* Every await of a job settles: ffmpeg and the uploads end or throw.  Nothing
\* obliges a client to send, and a request that stalls before its save holds
\* no flag.
Fairness == \A r \in Request : WF_vars(JobStep(r))

Spec == Init /\ [][Next]_vars /\ Fairness

-----------------------------------------------------------------------------
(* Properties.                                                             *)

\* What the comment in updateProfile asks for: profile updates without files
\* 'must not clear in-flight video processing'.  While uploads do not overlap,
\* mediaProcessing is up for as long as a job transcodes, whatever other
\* updates do meanwhile.
FlagCoversUpload == ~uploadsOverlapped /\ Working # {} => mediaProcessing

\* One request at a time, with nothing failed, the profile ends up with the
\* videos its client asked for, in order, from the right files, also when a
\* refused upload has left files of the same names on disk.
VideosAsRequested ==
    Active = {} /\ ~overlapped /\ ~failed /\ ~listed =>
        videos = wanted.gallery /\ profileVideo = wanted.profile

\* As long as clients send no `videos` list, the gallery stays within the
\* plan, however uploads, updates and failures interleave: lists are replaced
\* as a whole, so that two accepted requests never add up.
GalleryWithinPlan == ~listed => Len(videos) <= Limit

\* A job that is not lost in a restart takes the flag down, failed or not.
ProcessingEnds == mediaProcessing ~> (~mediaProcessing \/ restarted)

\* What the comment on the schema says of mediaProcessing: 'True while
\* gallery/profile videos are transcoding after upload.'
FlagWhileTranscoding == Working # {} => mediaProcessing
=============================================================================
