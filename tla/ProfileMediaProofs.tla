------------------------- MODULE ProfileMediaProofs -------------------------
(***************************************************************************)
(* Proofs about the profile videos, for every plan, any number of updates  *)
(* and any files:                                                          *)
(*   - what a request at work holds: as many names as files, no more made  *)
(*     than files, all of them when its job publishes (JobsInv);           *)
(*   - the gallery within the plan, which every list that a request still  *)
(*     has to write keeps (PlanInv);                                       *)
(*   - one request at a time, the videos as asked for (AskedInv): it       *)
(*     follows the upload files on disk, whose last write of each name is  *)
(*     the one of the request at work, whatever a refused upload left;     *)
(*   - mediaProcessing (FlagInv), for which only the program counters of   *)
(*     the requests matter and the jobs they put at work.                  *)
(***************************************************************************)
EXTENDS ProfileMedia, Integers, SequenceTheorems, WellFoundedInduction, TLAPS

Clip == Request \X Nat
Video == Clip \cup {Hosted}
Labels == {"limits", "save", "open", "encode", "publish", "flagOff"}

\* A request at work, with what it carried and what its job has made so far.
AtWork ==
    [pc : Labels, slots : Seq({"profile", "gallery"}), names : Seq(Name),
     previous : Seq(Video), empty : BOOLEAN, list : Seq(Video),
     made : Seq(Clip), input : Clip \cup {NoFile}]

TypeOK ==
    /\ videos \in Seq(Video)
    /\ profileVideo \in Clip \cup {NoVideo}
    /\ mediaProcessing \in BOOLEAN
    /\ disk \in [Name -> Clip \cup {NoFile}]
    /\ req \in [Request -> {Idle, Finished} \cup AtWork]
    /\ wanted \in [gallery : Seq(Video), profile : Clip \cup {NoVideo}]
    /\ listed \in BOOLEAN /\ overlapped \in BOOLEAN /\ uploadsOverlapped \in BOOLEAN
    /\ failed \in BOOLEAN /\ restarted \in BOOLEAN

\* Files and names of a request go together, and a job has made some of them:
\* not all while it is at work on one, all before it publishes.
Progress(r) ==
    LET q == req[r]
    IN  r \in Active =>
        /\ q \in AtWork
        /\ Len(q.names) = Len(q.slots)
        /\ q.empty => q.slots = <<>>
        /\ q.pc \in Transcoding => q.slots # <<>>
        /\ q.pc \in {"limits", "save"} => q.made = <<>>
        /\ q.pc \in {"open", "encode"} => Len(q.made) < Len(q.slots)
        /\ q.pc = "publish" => Len(q.made) = Len(q.slots)
        /\ q.pc = "encode" => q.input # NoFile

JobsInv == TypeOK /\ \A r \in Request : Progress(r)

\* What was accepted keeps the plan, and so does the gallery.
PlanInv ==
    /\ \A r \in Active : req[r].pc \in {"save"} \cup Transcoding => WithinPlan(req[r])
    /\ ~listed => /\ \A r \in Active : req[r].list = <<>>
                  /\ Len(videos) <= Limit

\* The upload files of a request that is alone: a name that was read is gone, the
\* others hold the last file of their name; what was made came from these.
Used(q) == {q.names[k] : k \in 1..Len(q.made)}

FilesFit(r, q, d) ==
    /\ \A i \in DOMAIN q.names :
          d[q.names[i]] = IF q.names[i] \in Used(q) THEN NoFile
                          ELSE <<r, LastPlace(q.names, q.names[i])>>
    /\ \A k \in 1..Len(q.made) : q.made[k] = <<r, LastPlace(q.names, q.names[k])>>
    /\ \A i, k \in 1..Len(q.made) : q.names[i] = q.names[k] => i = k
    /\ q.pc = "encode" => q.input = d[NextName(q)]

\* What the profile will hold once the job of r has published the clips of r.
Expected(r) ==
    LET q == req[r]
        gallery == GalleryOf(q, Clips(r))
    IN  /\ wanted.gallery = IF gallery # <<>> \/ q.previous # <<>>
                            THEN q.previous \o gallery ELSE videos
        /\ wanted.profile = IF q.slots[1] = "profile" THEN <<r, 1>> ELSE profileVideo

Shown == videos = wanted.gallery /\ profileVideo = wanted.profile

AskedInv ==
    ~overlapped /\ ~failed /\ ~listed =>
        /\ \A r, s \in Active : r = s
        /\ \A r \in Active : req[r].list = <<>> /\ req[r].pc # "flagOff"
                             /\ FilesFit(r, req[r], disk)
        /\ \A r \in Working : Expected(r)
        /\ Working = {} => Shown

\* A set of naturals that is not empty has a least one.
LEMMA LeastNatural ==
    ASSUME NEW T, T \subseteq Nat, T # {}
    PROVE  \E m \in T : \A k \in T : m <= k
<1> DEFINE Below == OpToRel(<, Nat)
<1>1. \A m, n \in Nat : m < n => <<m, n>> \in Below
  BY DEF OpToRel
<1>2. IsWellFoundedOn(Below, Nat)
  BY NatLessThanWellFounded
<1> HIDE DEF Below
<1>3. PICK m \in T : \A y \in T : <<y, m>> \notin Below
  BY <1>2, WFMin, Zenon
<1>4. ASSUME NEW k \in T PROVE m <= k
  <2>1. m \in Nat /\ k \in Nat
    OBVIOUS
  <2>2. ~(k < m)
    BY <1>1, <1>3, <2>1, Zenon
  <2> QED BY <2>1, <2>2, SMT
<1> QED BY <1>4

-----------------------------------------------------------------------------
(* What a request carries.                                                 *)

\* A client keeps some of the videos it sees, in their order.
LEMMA SublistsType == ASSUME NEW S, NEW s \in Seq(S) PROVE Sublists(s) \subseteq Seq(S)
<1> SUFFICES ASSUME NEW t \in Sublists(s) PROVE t \in Seq(S)
  OBVIOUS
<1>1. PICK n \in 0..Len(s) : \E p \in [1..n -> DOMAIN s] : t = [k \in 1..n |-> s[p[k]]]
  BY DEF Sublists
<1>2. PICK p \in [1..n -> DOMAIN s] : t = [k \in 1..n |-> s[p[k]]]
  BY <1>1
<1>3. n \in Nat /\ \A k \in 1..n : s[p[k]] \in S
  OBVIOUS
<1> QED BY <1>2, <1>3

\* The places of an upload are a sequence.
LEMMA SlotsType == Slots \subseteq Seq({"profile", "gallery"})
<1> SUFFICES ASSUME NEW t \in Slots PROVE t \in Seq({"profile", "gallery"})
  OBVIOUS
<1>1. PICK p \in {<<>>, <<"profile">>}, g \in SeqOf({"gallery"}, MaxGallery) : t = p \o g
  BY DEF Slots
<1>2. PICK m \in 0..MaxGallery : g \in [1..m -> {"gallery"}]
  BY DEF SeqOf
<1>3. m \in Nat
  BY MaxGalleryAssumption
<1>4. g \in Seq({"profile", "gallery"})
  BY <1>2, <1>3
<1>5. p \in Seq({"profile", "gallery"})
  <2>1. <<>> \in Seq({"profile", "gallery"})
    OBVIOUS
  <2>2. <<"profile">> \in Seq({"profile", "gallery"})
    OBVIOUS
  <2> QED BY <2>1, <2>2
<1> QED BY <1>1, <1>4, <1>5

\* What a body names are sequences of videos.
LEMMA BodiesType ==
    ASSUME NEW S, videos \in Seq(S), NEW body \in Bodies
    PROVE  /\ body.previous \in Seq(S) /\ body.empty \in BOOLEAN
           /\ body.list \in Seq(S \cup {Hosted})
<1>1. Sublists(videos) \subseteq Seq(S)
  BY SublistsType
<1>2. <<>> \in Seq(S) /\ <<>> \in Seq(S \cup {Hosted}) /\ Append(videos, Hosted) \in Seq(S \cup {Hosted})
  OBVIOUS
<1>3. CASE \E p \in Sublists(videos) : body = [previous |-> p, empty |-> FALSE, list |-> <<>>]
  BY <1>1, <1>2, <1>3
<1>4. CASE body \in {[previous |-> <<>>, empty |-> TRUE, list |-> <<>>],
                     [previous |-> <<>>, empty |-> FALSE, list |-> Append(videos, Hosted)]}
  <2>1. CASE body = [previous |-> <<>>, empty |-> TRUE, list |-> <<>>]
    BY <1>2, <2>1
  <2>2. CASE body = [previous |-> <<>>, empty |-> FALSE, list |-> Append(videos, Hosted)]
    BY <1>2, <2>2
  <2> QED BY <1>4, <2>1, <2>2
<1> QED BY <1>3, <1>4 DEF Bodies

\* The last place of a name is a place that has it.
LEMMA LastPlaceIs ==
    ASSUME NEW names \in Seq(Name), NEW i \in DOMAIN names
    PROVE  LastPlace(names, names[i]) \in DOMAIN names
           /\ names[LastPlace(names, names[i])] = names[i]
<1> DEFINE n == names[i]
           T == {m \in Nat : \A j \in DOMAIN names : names[j] = n => j <= m}
<1>1. DOMAIN names = 1..Len(names) /\ Len(names) \in Nat
  OBVIOUS
<1>2. Len(names) \in T
  BY <1>1
<1>3. PICK m \in T : \A k \in T : m <= k
  BY <1>2, LeastNatural
<1>4. m \in DOMAIN names /\ names[m] = n
  <2> SUFFICES ASSUME ~(m \in DOMAIN names /\ names[m] = n) PROVE FALSE
    OBVIOUS
  <2>1. i <= m /\ m \in Nat /\ 1 <= i
    BY <1>1, <1>3
  <2>2. m - 1 \in Nat
    BY <1>1, <2>1
  <2>3. \A j \in DOMAIN names : names[j] = n => j <= m - 1
    BY <1>1, <1>3, <2>1
  <2>4. m - 1 \in T
    BY <2>2, <2>3
  <2> QED BY <1>3, <2>1, <2>4
<1>5. \E j \in DOMAIN names : names[j] = n /\ \A k \in DOMAIN names : names[k] = n => k <= j
  BY <1>3, <1>4
<1> HIDE DEF T
<1> QED BY <1>5, Zenon DEF LastPlace

\* After an upload each of its names holds the last file of that name.
LEMMA StoredIs ==
    ASSUME NEW r \in Request, NEW names \in Seq(Name), disk \in [Name -> Clip \cup {NoFile}]
    PROVE  /\ Stored(r, names) \in [Name -> Clip \cup {NoFile}]
           /\ \A i \in DOMAIN names : Stored(r, names)[names[i]] = <<r, LastPlace(names, names[i])>>
<1>1. \A i \in DOMAIN names : names[i] \in Name /\ names[i] \in Range(names)
  BY DEF Range
<1>2. \A n \in Range(names) : LastPlace(names, n) \in Nat
  <2> SUFFICES ASSUME NEW n \in Range(names) PROVE LastPlace(names, n) \in Nat
    OBVIOUS
  <2>1. PICK i \in DOMAIN names : n = names[i]
    BY DEF Range
  <2> QED BY <2>1, LastPlaceIs
<1>3. \A n \in Range(names) : <<r, LastPlace(names, n)>> \in Clip
  BY <1>2 DEF Clip
<1>4. \A n \in Name : (IF n \in Range(names) THEN <<r, LastPlace(names, n)>> ELSE disk[n]) \in Clip \cup {NoFile}
  BY <1>3
<1> QED BY <1>1, <1>4 DEF Stored


-----------------------------------------------------------------------------
(* Types, and how far a job is.                                            *)

\* At first no request is at work.
LEMMA JobsStart == Init => JobsInv
<1> SUFFICES ASSUME Init PROVE JobsInv
  OBVIOUS
<1>1. req = [r \in Request |-> Idle] /\ Idle.pc = "idle"
  BY DEF Init, Idle
<1>2. \A r \in Request : Progress(r)
  BY <1>1 DEF Progress, Active
<1>3. videos \in Seq(Video) /\ wanted \in [gallery : Seq(Video), profile : Clip \cup {NoVideo}]
  <2>1. <<>> \in Seq(Video)
    OBVIOUS
  <2> QED BY <2>1 DEF Init
<1>4. req \in [Request -> {Idle, Finished} \cup AtWork] /\ disk \in [Name -> Clip \cup {NoFile}]
  BY <1>1 DEF Init
<1>5. profileVideo \in Clip \cup {NoVideo} /\ mediaProcessing \in BOOLEAN
  BY DEF Init
<1>6. listed \in BOOLEAN /\ overlapped \in BOOLEAN /\ uploadsOverlapped \in BOOLEAN
      /\ failed \in BOOLEAN /\ restarted \in BOOLEAN
  BY DEF Init
<1> QED BY <1>2, <1>3, <1>4, <1>5, <1>6 DEF JobsInv, TypeOK

\* What is known of a request that has started.
LEMMA AtWorkIs ==
    ASSUME JobsInv, NEW r \in Request, req[r].pc \notin {"idle", "done"}
    PROVE  /\ req[r] \in AtWork /\ r \in Active
           /\ req[r].slots \in Seq({"profile", "gallery"}) /\ req[r].names \in Seq(Name)
           /\ req[r].previous \in Seq(Video) /\ req[r].list \in Seq(Video) /\ req[r].empty \in BOOLEAN
           /\ req[r].made \in Seq(Clip) /\ Len(req[r].names) = Len(req[r].slots)
           /\ req[r].empty => req[r].slots = <<>>
           /\ req[r].pc \in Transcoding => req[r].slots # <<>>
           /\ req[r].pc \in {"limits", "save"} => req[r].made = <<>>
           /\ req[r].pc \in {"open", "encode"} => Len(req[r].made) < Len(req[r].slots)
           /\ req[r].pc = "publish" => Len(req[r].made) = Len(req[r].slots)
           /\ req[r].pc = "encode" => req[r].input \in Clip
<1>1. r \in Active
  BY DEF Active
<1>2. req[r] \in AtWork /\ Progress(r)
  BY <1>1 DEF JobsInv, Progress
<1> QED BY <1>1, <1>2 DEF Progress, AtWork

\* The name whose file a job is at is one of those it was given.
LEMMA NextNameIs ==
    ASSUME JobsInv, NEW r \in Request, req[r].pc \in {"open", "encode"}
    PROVE  /\ Len(req[r].made) + 1 \in DOMAIN req[r].names
           /\ NextName(req[r]) = req[r].names[Len(req[r].made) + 1]
           /\ NextName(req[r]) \in Name
<1>1. /\ req[r].names \in Seq(Name) /\ req[r].made \in Seq(Clip)
      /\ req[r].slots \in Seq({"profile", "gallery"})
      /\ Len(req[r].names) = Len(req[r].slots) /\ Len(req[r].made) < Len(req[r].slots)
  BY AtWorkIs
<1>2. Len(req[r].made) + 1 \in DOMAIN req[r].names
  BY <1>1
<1> QED BY <1>1, <1>2 DEF NextName

\* Moving one request keeps the types and the progress of the requests.
LEMMA OneMoves ==
    ASSUME JobsInv, NEW r \in Request, NEW q, req' = [req EXCEPT ![r] = q],
           \/ q = Finished
           \/ /\ q \in AtWork /\ Len(q.names) = Len(q.slots)
              /\ q.empty => q.slots = <<>>
              /\ q.pc \in Transcoding => q.slots # <<>>
              /\ q.pc \in {"limits", "save"} => q.made = <<>>
              /\ q.pc \in {"open", "encode"} => Len(q.made) < Len(q.slots)
              /\ q.pc = "publish" => Len(q.made) = Len(q.slots)
              /\ q.pc = "encode" => q.input # NoFile
    PROVE  /\ req' \in [Request -> {Idle, Finished} \cup AtWork]
           /\ req'[r] = q /\ \A s \in Request : s # r => req'[s] = req[s]
           /\ \A s \in Request : Progress(s)'
<1>1. req \in [Request -> {Idle, Finished} \cup AtWork]
  BY DEF JobsInv, TypeOK
<1>2. /\ req' \in [Request -> {Idle, Finished} \cup AtWork]
      /\ req'[r] = q /\ \A s \in Request : s # r => req'[s] = req[s]
  BY <1>1
<1>3. Finished.pc = "done"
  BY DEF Finished
<1>4. Progress(r)'
  BY <1>2, <1>3 DEF Progress, Active
<1>5. ASSUME NEW s \in Request, s # r PROVE Progress(s)'
  BY <1>2, <1>5 DEF JobsInv, Progress, Active
<1> QED BY <1>2, <1>4, <1>5

\* Going to a label that asks for nothing new.
LEMMA OneGoes ==
    ASSUME JobsInv, NEW r \in Request, req[r].pc \notin {"idle", "done"},
           NEW label \in {"save", "open", "flagOff"}, req' = Goto(r, label),
           label = "save" => req[r].pc = "limits",
           label = "open" => req[r].pc = "save" /\ req[r].slots # <<>>
    PROVE  /\ req' \in [Request -> {Idle, Finished} \cup AtWork]
           /\ req'[r] = [req[r] EXCEPT !.pc = label] /\ \A s \in Request : s # r => req'[s] = req[s]
           /\ \A s \in Request : Progress(s)'
<1> DEFINE q == [req[r] EXCEPT !.pc = label]
<1>1. req[r] \in AtWork
  BY AtWorkIs
<1>2. /\ q \in AtWork /\ q.pc = label /\ q.slots = req[r].slots /\ q.names = req[r].names
      /\ q.empty = req[r].empty /\ q.made = req[r].made /\ q.input = req[r].input
  BY <1>1 DEF AtWork, Labels
<1>3. req' = [req EXCEPT ![r] = q]
  BY DEF Goto
<1> HIDE DEF q
<1>4. /\ Len(q.names) = Len(q.slots)
      /\ q.empty => q.slots = <<>>
      /\ q.pc \in Transcoding => q.slots # <<>>
      /\ q.pc \in {"limits", "save"} => q.made = <<>>
      /\ q.pc \notin {"encode", "publish"}
  BY <1>2, AtWorkIs DEF Transcoding
<1>5. q.pc \in {"open", "encode"} => Len(q.made) < Len(q.slots)
  <2> SUFFICES ASSUME label = "open" PROVE Len(q.made) < Len(q.slots)
    BY <1>2
  <2>1. q.made = <<>> /\ q.slots # <<>> /\ q.slots \in Seq({"profile", "gallery"})
    BY <1>2, AtWorkIs
  <2> QED BY <2>1, EmptySeq
<1>6. /\ req' \in [Request -> {Idle, Finished} \cup AtWork]
      /\ req'[r] = q /\ \A s \in Request : s # r => req'[s] = req[s]
      /\ \A s \in Request : Progress(s)'
  BY <1>2, <1>3, <1>4, <1>5, OneMoves
<1> QED BY <1>6 DEF q

\* A step that ends one request.
LEMMA OneEnds ==
    ASSUME JobsInv, NEW r \in Request, req' = Done(r)
    PROVE  /\ req' \in [Request -> {Idle, Finished} \cup AtWork]
           /\ req'[r] = Finished /\ \A s \in Request : s # r => req'[s] = req[s]
           /\ \A s \in Request : Progress(s)'
BY OneMoves DEF Done


\* What a new request carries.
LEMMA ReceiveIs ==
    ASSUME JobsInv, NEW r \in Request, Receive(r)
    PROVE  \E q \in AtWork :
              /\ req' = [req EXCEPT ![r] = q] /\ q.pc = "limits" /\ q.made = <<>>
              /\ Len(q.names) = Len(q.slots)
              /\ q.empty => q.slots = <<>>
              /\ disk' = Stored(r, q.names)
              /\ listed' = (listed \/ q.list # <<>>)
<1>1. PICK slots \in Slots, body \in Bodies :
          \E names \in [DOMAIN slots -> Name] :
             /\ body.empty => slots = <<>>
             /\ req' = [req EXCEPT ![r] =
                   [pc |-> "limits", slots |-> slots, names |-> names,
                    previous |-> body.previous, empty |-> body.empty,
                    list |-> body.list, made |-> <<>>, input |-> NoFile]]
             /\ disk' = Stored(r, names)
             /\ listed' = (listed \/ body.list # <<>>)
  BY DEF Receive
<1>2. PICK names \in [DOMAIN slots -> Name] :
             /\ body.empty => slots = <<>>
             /\ req' = [req EXCEPT ![r] =
                   [pc |-> "limits", slots |-> slots, names |-> names,
                    previous |-> body.previous, empty |-> body.empty,
                    list |-> body.list, made |-> <<>>, input |-> NoFile]]
             /\ disk' = Stored(r, names)
             /\ listed' = (listed \/ body.list # <<>>)
  BY <1>1
<1> DEFINE q == [pc |-> "limits", slots |-> slots, names |-> names,
                 previous |-> body.previous, empty |-> body.empty,
                 list |-> body.list, made |-> <<>>, input |-> NoFile]
<1>3. slots \in Seq({"profile", "gallery"})
  BY SlotsType
<1>4. names \in Seq(Name) /\ Len(names) = Len(slots)
  <2>1. DOMAIN slots = 1..Len(slots) /\ Len(slots) \in Nat
    BY <1>3
  <2> QED BY <2>1
<1>5. body.previous \in Seq(Video) /\ body.empty \in BOOLEAN /\ body.list \in Seq(Video)
  <2>1. videos \in Seq(Video) /\ Video \cup {Hosted} = Video
    BY DEF JobsInv, TypeOK, Video
  <2> QED BY <2>1, BodiesType
<1>6. <<>> \in Seq(Clip) /\ NoFile \in Clip \cup {NoFile} /\ "limits" \in Labels
  BY DEF Labels
<1>7. q \in AtWork
  BY <1>3, <1>4, <1>5, <1>6 DEF AtWork
<1>8. /\ q.pc = "limits" /\ q.made = <<>> /\ q.slots = slots /\ q.names = names
      /\ q.empty = body.empty /\ q.list = body.list
  OBVIOUS
<1> HIDE DEF q
<1>9. req' = [req EXCEPT ![r] = q]
  BY <1>2 DEF q
<1> QED BY <1>2, <1>4, <1>7, <1>8, <1>9

\* What a job that opened a clip, and one that made it, have become.
LEMMA OpenIs ==
    ASSUME JobsInv, NEW r \in Request, OpenClip(r)
    PROVE  \E q \in AtWork :
              /\ req' = [req EXCEPT ![r] = q] /\ q.pc = "encode"
              /\ q.slots = req[r].slots /\ q.names = req[r].names /\ q.made = req[r].made
              /\ q.previous = req[r].previous /\ q.empty = req[r].empty /\ q.list = req[r].list
              /\ q.input = disk[NextName(req[r])] /\ q.input \in Clip /\ q.input # NoFile
<1> DEFINE q == [req[r] EXCEPT !.pc = "encode", !.input = disk[NextName(req[r])]]
<1>1. req[r] \in AtWork /\ NextName(req[r]) \in Name
  BY AtWorkIs, NextNameIs DEF OpenClip
<1>2. disk[NextName(req[r])] \in Clip \cup {NoFile} /\ disk[NextName(req[r])] # NoFile
  BY <1>1 DEF OpenClip, JobsInv, TypeOK
<1>3. /\ q \in AtWork /\ q.pc = "encode" /\ q.input = disk[NextName(req[r])]
      /\ q.slots = req[r].slots /\ q.names = req[r].names /\ q.made = req[r].made
      /\ q.previous = req[r].previous /\ q.empty = req[r].empty /\ q.list = req[r].list
  BY <1>1, <1>2 DEF AtWork, Labels
<1>4. req' = [req EXCEPT ![r] = q]
  BY DEF OpenClip
<1> HIDE DEF q
<1> QED BY <1>2, <1>3, <1>4

\* A job that has made a clip goes on to the next, or publishes.
LEMMA EncodeIs ==
    ASSUME JobsInv, NEW r \in Request, EncodeClip(r)
    PROVE  \E q \in AtWork :
              /\ req' = [req EXCEPT ![r] = q]
              /\ q.pc = IF Len(q.made) < Len(q.slots) THEN "open" ELSE "publish"
              /\ q.made = Append(req[r].made, req[r].input) /\ Len(q.made) <= Len(q.slots)
              /\ q.slots = req[r].slots /\ q.names = req[r].names
              /\ q.previous = req[r].previous /\ q.empty = req[r].empty /\ q.list = req[r].list
<1> DEFINE made == Append(req[r].made, req[r].input)
           q == [req[r] EXCEPT !.made = made,
                               !.pc = IF Len(made) < Len(req[r].slots) THEN "open" ELSE "publish"]
<1>1. /\ req[r] \in AtWork /\ req[r].made \in Seq(Clip) /\ req[r].input \in Clip
      /\ Len(req[r].made) < Len(req[r].slots) /\ req[r].slots \in Seq({"profile", "gallery"})
  BY AtWorkIs DEF EncodeClip
<1>2. made \in Seq(Clip) /\ Len(made) <= Len(req[r].slots)
  BY <1>1
<1>3. req' = [req EXCEPT ![r] = q]
  BY DEF EncodeClip
<1> HIDE DEF made
<1>4. /\ q \in AtWork /\ q.made = made
      /\ q.pc = IF Len(made) < Len(req[r].slots) THEN "open" ELSE "publish"
      /\ q.slots = req[r].slots /\ q.names = req[r].names
      /\ q.previous = req[r].previous /\ q.empty = req[r].empty /\ q.list = req[r].list
  BY <1>1, <1>2 DEF AtWork, Labels
<1> HIDE DEF q
<1> QED BY <1>2, <1>3, <1>4 DEF made

\* What is in the gallery and on the profile of an upload has the right type.
LEMMA PartsType ==
    ASSUME JobsInv, NEW r \in Request, req[r].pc \notin {"idle", "done"}, req[r].slots # <<>>,
           NEW seq \in Seq(Clip), seq # <<>>
    PROVE  /\ GalleryOf(req[r], seq) \in Seq(Clip) /\ Len(GalleryOf(req[r], seq)) <= Len(seq)
           /\ seq[1] \in Clip
           /\ req[r].slots[1] = "profile" => ProfileOf(req[r], seq) # <<>> /\ ProfileOf(req[r], seq)[1] = seq[1]
           /\ req[r].slots[1] # "profile" => ProfileOf(req[r], seq) = <<>>
           /\ req[r].previous \o GalleryOf(req[r], seq) \in Seq(Video)
           /\ Len(req[r].previous \o GalleryOf(req[r], seq))
                = Len(req[r].previous) + Len(GalleryOf(req[r], seq))
<1>1. Tail(seq) \in Seq(Clip) /\ Len(Tail(seq)) <= Len(seq) /\ seq[1] \in Clip /\ Len(seq) \in Nat
  BY EmptySeq
<1>2. GalleryOf(req[r], seq) \in Seq(Clip) /\ Len(GalleryOf(req[r], seq)) <= Len(seq)
  BY <1>1 DEF GalleryOf
<1>3. req[r].previous \in Seq(Video)
  BY AtWorkIs
<1>4. GalleryOf(req[r], seq) \in Seq(Video)
  BY <1>2 DEF Video
<1>5. <<seq[1]>> # <<>> /\ <<seq[1]>>[1] = seq[1]
  OBVIOUS
<1>6. /\ req[r].slots[1] = "profile" => ProfileOf(req[r], seq) = <<seq[1]>>
      /\ req[r].slots[1] # "profile" => ProfileOf(req[r], seq) = <<>>
  BY DEF ProfileOf
<1>7. /\ req[r].previous \o GalleryOf(req[r], seq) \in Seq(Video)
      /\ Len(req[r].previous \o GalleryOf(req[r], seq)) = Len(req[r].previous) + Len(GalleryOf(req[r], seq))
  BY <1>3, <1>4
<1> QED BY <1>1, <1>2, <1>5, <1>6, <1>7

\* The clips of an upload, one for each place.
LEMMA ClipsType ==
    ASSUME JobsInv, NEW r \in Request, req[r].pc \notin {"idle", "done"}, req[r].slots # <<>>
    PROVE  Clips(r) \in Seq(Clip) /\ Clips(r) # <<>> /\ Len(Clips(r)) = Len(req[r].slots)
           /\ \A k \in 1..Len(req[r].slots) : Clips(r)[k] = <<r, k>>
<1>1. /\ req[r].slots \in Seq({"profile", "gallery"})
      /\ DOMAIN req[r].slots = 1..Len(req[r].slots) /\ Len(req[r].slots) \in Nat /\ Len(req[r].slots) # 0
  BY AtWorkIs, EmptySeq
<1>2. \A k \in 1..Len(req[r].slots) : <<r, k>> \in Clip
  BY DEF Clip
<1> QED BY <1>1, <1>2 DEF Clips


\* The parts of TypeOK but for the requests.
DocType ==
    /\ videos \in Seq(Video)
    /\ profileVideo \in Clip \cup {NoVideo}
    /\ mediaProcessing \in BOOLEAN
    /\ disk \in [Name -> Clip \cup {NoFile}]
    /\ wanted \in [gallery : Seq(Video), profile : Clip \cup {NoVideo}]

FlagsType ==
    /\ listed \in BOOLEAN /\ overlapped \in BOOLEAN /\ uploadsOverlapped \in BOOLEAN
    /\ failed \in BOOLEAN /\ restarted \in BOOLEAN

\* The flags of the history keep their types.
LEMMA FlagsStep == JobsInv /\ [Next]_vars => FlagsType'
<1> SUFFICES ASSUME JobsInv, [Next]_vars PROVE FlagsType'
  OBVIOUS
<1>1. FlagsType
  BY DEF JobsInv, TypeOK, FlagsType
<1>2. CASE UNCHANGED vars
  BY <1>1, <1>2 DEF FlagsType, vars, history, flags
<1>3. CASE Restart
  BY <1>1, <1>3 DEF FlagsType, Restart
<1>4. CASE \E r \in Request : Receive(r) \/ SaveUpload(r)
  <2>1. PICK r \in Request : Receive(r) \/ SaveUpload(r)
    BY <1>4
  <2>2. CASE Receive(r)
    <3>1. listed' \in BOOLEAN
      BY <2>2, ReceiveIs
    <3> QED BY <1>1, <2>2, <3>1 DEF FlagsType, Receive
  <2>3. CASE SaveUpload(r)
    BY <1>1, <2>3 DEF FlagsType, SaveUpload
  <2> QED BY <2>1, <2>2, <2>3
<1>5. CASE \E r \in Request : \/ Refuse(r) \/ Accept(r) \/ SaveUpdate(r) \/ RequestFails(r) \/ JobStep(r)
  BY <1>1, <1>5 DEF FlagsType, Refuse, Accept, SaveUpdate, RequestFails, JobStep, OpenClip,
                    ClipMissing, EncodeClip, Publish, JobFails, FlagOff, history, flags
<1> QED BY <1>2, <1>3, <1>4, <1>5 DEF Next

\* The gallery a request saves.
SavedGallery(q) ==
    IF q.empty THEN <<>>
    ELSE IF q.previous # <<>> THEN q.previous
    ELSE IF q.list # <<>> THEN q.list ELSE videos

\* What a request saves is a gallery.
LEMMA SavedType ==
    ASSUME JobsInv, NEW r \in Request, req[r].pc \notin {"idle", "done"}
    PROVE  SavedGallery(req[r]) \in Seq(Video)
<1>1. videos \in Seq(Video) /\ <<>> \in Seq(Video)
  BY DEF JobsInv, TypeOK
<1> QED BY <1>1, AtWorkIs DEF SavedGallery

\* Every step keeps the types of the profile and of what was asked for.
LEMMA DocStep == JobsInv /\ [Next]_vars => DocType'
<1> SUFFICES ASSUME JobsInv, [Next]_vars PROVE DocType'
  OBVIOUS
<1>1. DocType
  BY DEF JobsInv, TypeOK, DocType
<1>2. CASE UNCHANGED vars
  BY <1>1, <1>2 DEF DocType, vars, doc, history, flags
<1>3. CASE Restart
  BY <1>1, <1>3 DEF DocType, Restart, doc
<1>4. ASSUME NEW r \in Request, Receive(r) PROVE DocType'
  <2>1. PICK q \in AtWork : disk' = Stored(r, q.names)
    BY <1>4, ReceiveIs
  <2>2. disk' \in [Name -> Clip \cup {NoFile}]
    BY <1>1, <2>1, StoredIs DEF DocType, AtWork
  <2> QED BY <1>1, <1>4, <2>2 DEF DocType, Receive, doc
<1>5. ASSUME NEW r \in Request, Refuse(r) \/ Accept(r) \/ RequestFails(r) \/ OpenClip(r) \/ ClipMissing(r)
      PROVE  DocType'
  BY <1>1, <1>5 DEF DocType, Refuse, Accept, RequestFails, OpenClip, ClipMissing, doc, history, flags
<1>6. ASSUME NEW r \in Request, SaveUpload(r) PROVE DocType'
  <2>1. req[r].pc \notin {"idle", "done"} /\ req[r].slots # <<>>
    BY <1>6 DEF SaveUpload
  <2>2. videos' = SavedGallery(req[r])
    BY <1>6 DEF SaveUpload, SavedGallery
  <2>3. Clips(r) \in Seq(Clip) /\ Clips(r) # <<>>
    BY <2>1, ClipsType
  <2> DEFINE gallery == GalleryOf(req[r], Clips(r))
             profile == ProfileOf(req[r], Clips(r))
             kept == IF req[r].empty THEN <<>> ELSE req[r].previous
  <2>4. req[r].previous \o gallery \in Seq(Video)
    BY <2>1, <2>3, PartsType
  <2>5. ~req[r].empty
    BY <2>1, AtWorkIs
  <2>6. wanted' = [gallery |-> IF gallery # <<>> \/ req[r].empty \/ kept # <<>>
                               THEN kept \o gallery ELSE wanted.gallery,
                   profile |-> IF profile # <<>> THEN profile[1] ELSE wanted.profile]
    BY <1>6 DEF SaveUpload
  <2>7. kept = req[r].previous
    BY <2>5
  <2>8. profile = <<>> \/ profile[1] \in Clip
    BY <2>1, <2>3, PartsType
  <2> HIDE DEF gallery, profile, kept
  <2>10. wanted' \in [gallery : Seq(Video), profile : Clip \cup {NoVideo}]
    BY <1>1, <2>4, <2>6, <2>7, <2>8 DEF DocType
  <2>11. videos' \in Seq(Video)
    BY <2>1, <2>2, SavedType
  <2> QED BY <1>1, <1>6, <2>10, <2>11 DEF DocType, SaveUpload
<1>7. ASSUME NEW r \in Request, SaveUpdate(r) PROVE DocType'
  <2>1. req[r].pc \notin {"idle", "done"} /\ videos' = SavedGallery(req[r])
    BY <1>7 DEF SaveUpdate, SavedGallery
  <2>2. videos' \in Seq(Video)
    BY <2>1, SavedType
  <2>3. wanted' = [wanted EXCEPT !.gallery = videos']
    BY <1>7 DEF SaveUpdate
  <2>4. wanted' \in [gallery : Seq(Video), profile : Clip \cup {NoVideo}]
    BY <1>1, <2>2, <2>3 DEF DocType
  <2> QED BY <1>1, <1>7, <2>2, <2>4 DEF DocType, SaveUpdate
<1>8. ASSUME NEW r \in Request, EncodeClip(r) \/ JobFails(r) PROVE DocType'
  <2>1. disk' = disk \/ disk' = [disk EXCEPT ![NextName(req[r])] = NoFile]
    BY <1>8 DEF EncodeClip, JobFails
  <2>2. disk' \in [Name -> Clip \cup {NoFile}]
    BY <1>1, <2>1 DEF DocType
  <2> QED BY <1>1, <1>8, <2>2 DEF DocType, EncodeClip, JobFails, doc, history
<1>9. ASSUME NEW r \in Request, Publish(r) PROVE DocType'
  <2>1. /\ req[r].pc = "publish" /\ req[r].slots # <<>> /\ req[r].made \in Seq(Clip)
        /\ Len(req[r].made) = Len(req[r].slots) /\ req[r].slots \in Seq({"profile", "gallery"})
        /\ ~req[r].empty
    BY <1>9, AtWorkIs DEF Publish, Transcoding
  <2>2. req[r].made # <<>>
    BY <2>1, EmptySeq
  <2> DEFINE gallery == GalleryOf(req[r], req[r].made)
             profile == ProfileOf(req[r], req[r].made)
  <2>3. req[r].previous \o gallery \in Seq(Video)
    BY <2>1, <2>2, PartsType
  <2>4. profile = <<>> \/ profile[1] \in Clip
    BY <2>1, <2>2, PartsType
  <2>5. videos' = req[r].previous \o gallery \/ videos' = videos
    BY <1>9, <2>1 DEF Publish
  <2>6. profileVideo' = IF profile # <<>> THEN profile[1] ELSE profileVideo
    BY <1>9 DEF Publish
  <2> HIDE DEF gallery, profile
  <2>7. videos' \in Seq(Video) /\ profileVideo' \in Clip \cup {NoVideo}
    BY <1>1, <2>3, <2>4, <2>5, <2>6 DEF DocType
  <2> QED BY <1>1, <1>9, <2>7 DEF DocType, Publish, history
<1>10. ASSUME NEW r \in Request, FlagOff(r) PROVE DocType'
  BY <1>1, <1>10 DEF DocType, FlagOff, history
<1> QED BY <1>2, <1>3, <1>4, <1>5, <1>6, <1>7, <1>8, <1>9, <1>10 DEF Next, JobStep

\* Every step keeps the types and the progress of the requests.
LEMMA JobsStep == JobsInv /\ [Next]_vars => JobsInv'
<1> SUFFICES ASSUME JobsInv, [Next]_vars PROVE JobsInv'
  OBVIOUS
<1> DEFINE Reqs == /\ req' \in [Request -> {Idle, Finished} \cup AtWork]
                   /\ \A s \in Request : Progress(s)'
<1>1. ASSUME UNCHANGED vars PROVE Reqs
  <2>1. req' = req
    BY <1>1 DEF vars
  <2> QED BY <2>1 DEF JobsInv, TypeOK, Progress, Active
<1>2. ASSUME Restart PROVE Reqs
  <2>1. req' = [r \in Request |-> IF r \in Active THEN Finished ELSE req[r]]
    BY <1>2 DEF Restart
  <2>2. req' \in [Request -> {Idle, Finished} \cup AtWork]
    BY <2>1 DEF JobsInv, TypeOK
  <2>3. \A s \in Request : req'[s].pc \in {"idle", "done"}
    BY <2>1 DEF Active, Finished
  <2> QED BY <2>2, <2>3 DEF Progress, Active
<1>3. ASSUME NEW r \in Request, Receive(r) PROVE Reqs
  <2>1. PICK q \in AtWork : /\ req' = [req EXCEPT ![r] = q] /\ q.pc = "limits" /\ q.made = <<>>
                            /\ Len(q.names) = Len(q.slots)
                            /\ q.empty => q.slots = <<>>
    BY <1>3, ReceiveIs
  <2> QED BY <2>1, OneMoves DEF Transcoding
<1>4. ASSUME NEW r \in Request, Refuse(r) \/ SaveUpdate(r) \/ RequestFails(r) \/ Publish(r) \/ FlagOff(r)
      PROVE  Reqs
  BY <1>4, OneEnds DEF Refuse, SaveUpdate, RequestFails, Publish, FlagOff
<1>5. ASSUME NEW r \in Request, Accept(r) PROVE Reqs
  BY <1>5, OneGoes DEF Accept
<1>6. ASSUME NEW r \in Request, SaveUpload(r) PROVE Reqs
  BY <1>6, OneGoes DEF SaveUpload
<1>7. ASSUME NEW r \in Request, ClipMissing(r) \/ JobFails(r) PROVE Reqs
  BY <1>7, OneGoes DEF ClipMissing, JobFails
<1>8. ASSUME NEW r \in Request, OpenClip(r) PROVE Reqs
  <2>1. PICK q \in AtWork :
              /\ req' = [req EXCEPT ![r] = q] /\ q.pc = "encode"
              /\ q.slots = req[r].slots /\ q.names = req[r].names /\ q.made = req[r].made
              /\ q.previous = req[r].previous /\ q.empty = req[r].empty /\ q.list = req[r].list
              /\ q.input = disk[NextName(req[r])] /\ q.input \in Clip /\ q.input # NoFile
    BY <1>8, OpenIs
  <2>2. /\ Len(req[r].names) = Len(req[r].slots) /\ req[r].slots # <<>>
        /\ Len(req[r].made) < Len(req[r].slots) /\ ~req[r].empty
    BY <1>8, AtWorkIs DEF OpenClip, Transcoding
  <2> QED BY <2>1, <2>2, OneMoves
<1>9. ASSUME NEW r \in Request, EncodeClip(r) PROVE Reqs
  <2>1. PICK q \in AtWork :
              /\ req' = [req EXCEPT ![r] = q]
              /\ q.pc = IF Len(q.made) < Len(q.slots) THEN "open" ELSE "publish"
              /\ q.made = Append(req[r].made, req[r].input) /\ Len(q.made) <= Len(q.slots)
              /\ q.slots = req[r].slots /\ q.names = req[r].names
              /\ q.previous = req[r].previous /\ q.empty = req[r].empty /\ q.list = req[r].list
    BY <1>9, EncodeIs
  <2>2. Len(req[r].names) = Len(req[r].slots) /\ req[r].slots # <<>> /\ ~req[r].empty
    BY <1>9, AtWorkIs DEF EncodeClip, Transcoding
  <2>3. Len(q.made) \in Nat /\ Len(q.slots) \in Nat
    BY DEF AtWork
  <2>4. q.pc \in {"open", "publish"}
    BY <2>1
  <2>5. q.pc = "open" => Len(q.made) < Len(q.slots)
    BY <2>1
  <2>6. q.pc = "publish" => Len(q.made) = Len(q.slots)
    BY <2>1, <2>3
  <2> QED BY <2>1, <2>2, <2>4, <2>5, <2>6, OneMoves
<1>10. Reqs
  BY <1>1, <1>2, <1>3, <1>4, <1>5, <1>6, <1>7, <1>8, <1>9 DEF Next, JobStep
<1>11. DocType' /\ FlagsType'
  BY DocStep, FlagsStep
<1> QED BY <1>10, <1>11 DEF JobsInv, TypeOK, DocType, FlagsType

\* So they always hold.
LEMMA JobsHold == Spec => []JobsInv
<1>1. JobsInv /\ [Next]_vars => JobsInv'
  BY JobsStep
<1> QED BY <1>1, JobsStart, PTL DEF Spec

\* Types: the profile, the upload directory, the requests and their jobs are well
\* formed for any files, names and plan.
THEOREM TypeCorrect == Spec => []TypeOK
<1>1. JobsInv => TypeOK
  BY DEF JobsInv
<1> QED BY <1>1, JobsHold, PTL


-----------------------------------------------------------------------------
(* The gallery stays within the plan.                                      *)

\* A request that goes on carries what it carried, and one that ends carries nothing.
SameLoad(r) ==
    \/ req'[r] = Finished
    \/ /\ req[r].pc \notin {"idle", "done"}
       /\ req'[r].slots = req[r].slots /\ req'[r].previous = req[r].previous
       /\ req'[r].list = req[r].list
       /\ req'[r].pc \in {"save"} \cup Transcoding =>
              \/ req[r].pc \in {"save"} \cup Transcoding
              \/ WithinPlan(req[r])

\* What a request carries stays as it came.
LEMMA LoadsKept ==
    ASSUME JobsInv, NEW r \in Request,
           \/ Refuse(r) \/ Accept(r) \/ SaveUpload(r) \/ SaveUpdate(r) \/ RequestFails(r) \/ JobStep(r)
    PROVE  SameLoad(r) /\ \A s \in Request : s # r => req'[s] = req[s]
<1>1. CASE Refuse(r) \/ SaveUpdate(r) \/ RequestFails(r) \/ Publish(r) \/ FlagOff(r)
  BY <1>1, OneEnds DEF Refuse, SaveUpdate, RequestFails, Publish, FlagOff, SameLoad
<1>2. CASE Accept(r) \/ SaveUpload(r) \/ ClipMissing(r) \/ JobFails(r)
  <2>1. req[r].pc \notin {"idle", "done"} /\ req[r] \in AtWork
    BY <1>2, AtWorkIs DEF Accept, SaveUpload, ClipMissing, JobFails
  <2>2. PICK label \in {"save", "open", "flagOff"} :
            /\ req'[r] = [req[r] EXCEPT !.pc = label] /\ \A s \in Request : s # r => req'[s] = req[s]
            /\ label # "flagOff" => req[r].pc = "save" \/ WithinPlan(req[r])
    BY <1>2, OneGoes DEF Accept, SaveUpload, ClipMissing, JobFails
  <2>3. /\ req'[r].pc = label /\ req'[r].slots = req[r].slots /\ req'[r].previous = req[r].previous
        /\ req'[r].list = req[r].list
    BY <2>1, <2>2 DEF AtWork
  <2> QED BY <2>1, <2>2, <2>3 DEF SameLoad, Transcoding
<1>3. CASE OpenClip(r) \/ EncodeClip(r)
  <2>1. PICK q \in AtWork :
              /\ req' = [req EXCEPT ![r] = q]
              /\ q.slots = req[r].slots /\ q.previous = req[r].previous /\ q.list = req[r].list
    BY <1>3, OpenIs, EncodeIs
  <2>2. req'[r] = q /\ \A s \in Request : s # r => req'[s] = req[s]
    BY <2>1 DEF JobsInv, TypeOK
  <2>3. req[r].pc \in Transcoding
    BY <1>3 DEF OpenClip, EncodeClip, Transcoding
  <2> QED BY <2>1, <2>2, <2>3 DEF SameLoad, Transcoding
<1> QED BY <1>1, <1>2, <1>3 DEF JobStep

\* The plan holds for less than what it was checked for.
LEMMA FewerFit ==
    /\ \A a, b, n \in Nat : a + b <= n => a <= n
    /\ \A a, b, c, n \in Nat : a + b <= n /\ c <= b => a + c <= n
OBVIOUS

\* A request that passed the check saves a gallery within the plan.
LEMMA SavedLength ==
    ASSUME JobsInv, PlanInv, NEW r \in Request, req[r].pc = "save", ~listed
    PROVE  Len(SavedGallery(req[r])) <= Limit
<1>1. r \in Active
  BY DEF Active
<1>2. req[r].list = <<>> /\ Len(videos) <= Limit /\ Len(req[r].previous) + Len(req[r].slots) <= Limit
  BY <1>1 DEF PlanInv, WithinPlan
<1>3. req[r].previous \in Seq(Video) /\ req[r].slots \in Seq({"profile", "gallery"})
  BY AtWorkIs
<1>4. Len(req[r].previous) <= Limit
  <2>1. Len(req[r].previous) \in Nat /\ Len(req[r].slots) \in Nat
    BY <1>3
  <2> QED BY <1>2, <2>1, FewerFit, LimitAssumption, Zenon
<1>5. Len(<<>>) <= Limit
  BY LimitAssumption
<1> QED BY <1>2, <1>4, <1>5 DEF SavedGallery

\* Every step keeps the plan.
LEMMA PlanStep == JobsInv /\ PlanInv /\ [Next]_vars => PlanInv'
<1> SUFFICES ASSUME JobsInv, PlanInv, [Next]_vars PROVE PlanInv'
  OBVIOUS
<1>1. CASE UNCHANGED vars
  BY <1>1 DEF PlanInv, Active, vars, doc, history, flags
<1>2. CASE Restart
  <2>1. \A s \in Request : req'[s].pc \in {"idle", "done"}
    BY <1>2 DEF Restart, Active, Finished
  <2> QED BY <1>2, <2>1 DEF PlanInv, Active, Restart, doc
<1>3. ASSUME NEW r \in Request, Receive(r) PROVE PlanInv'
  <2>1. PICK q \in AtWork : /\ req' = [req EXCEPT ![r] = q] /\ q.pc = "limits"
                            /\ listed' = (listed \/ q.list # <<>>)
    BY <1>3, ReceiveIs
  <2>2. req'[r] = q /\ \A s \in Request : s # r => req'[s] = req[s]
    BY <2>1 DEF JobsInv, TypeOK
  <2>3. \A s \in Active' : s # r => s \in Active
    BY <2>2 DEF Active
  <2>4. \A s \in Active' : req'[s].pc \in {"save"} \cup Transcoding => WithinPlan(req'[s])
    BY <2>1, <2>2, <2>3 DEF PlanInv, Transcoding
  <2>5. ASSUME ~listed' PROVE (\A s \in Active' : req'[s].list = <<>>) /\ Len(videos') <= Limit
    <3>1. ~listed /\ q.list = <<>>
      BY <2>1, <2>5
    <3> QED BY <1>3, <2>2, <2>3, <3>1 DEF PlanInv, Receive, doc
  <2> QED BY <2>4, <2>5 DEF PlanInv
<1>4. ASSUME NEW r \in Request,
             \/ Refuse(r) \/ Accept(r) \/ SaveUpload(r) \/ SaveUpdate(r) \/ RequestFails(r) \/ JobStep(r)
      PROVE  PlanInv'
  <2>1. SameLoad(r) /\ \A s \in Request : s # r => req'[s] = req[s]
    BY <1>4, LoadsKept
  <2>2. \A s \in Active' : s \in Active /\ s \in Request
    BY <2>1 DEF Active, SameLoad, Finished
  <2>3. r \in Active' => req'[r] # Finished
    BY DEF Active, Finished
  <2>4. \A s \in Active' : req'[s].pc \in {"save"} \cup Transcoding => WithinPlan(req'[s])
    <3>1. ASSUME r \in Active', req'[r].pc \in {"save"} \cup Transcoding PROVE WithinPlan(req'[r])
      BY <2>1, <2>2, <2>3, <3>1 DEF PlanInv, SameLoad, WithinPlan
    <3> QED BY <2>1, <2>2, <3>1 DEF PlanInv
  <2>5. listed' = listed
    BY <1>4 DEF Refuse, Accept, SaveUpload, SaveUpdate, RequestFails, JobStep, OpenClip, ClipMissing,
                EncodeClip, Publish, JobFails, FlagOff, history, flags
  <2>6. ~listed => \A s \in Active' : req'[s].list = <<>>
    BY <2>1, <2>2, <2>3 DEF PlanInv, SameLoad
  <2>7. ASSUME ~listed PROVE Len(videos') <= Limit
    <3>1. Len(videos) <= Limit
      BY <2>7 DEF PlanInv
    <3>2. CASE SaveUpload(r) \/ SaveUpdate(r)
      <4>1. req[r].pc = "save" /\ videos' = SavedGallery(req[r])
        BY <3>2 DEF SaveUpload, SaveUpdate, SavedGallery
      <4> QED BY <2>7, <4>1, SavedLength
    <3>3. CASE Publish(r)
      <4>1. /\ req[r].pc = "publish" /\ req[r].slots # <<>> /\ req[r].made \in Seq(Clip)
            /\ Len(req[r].made) = Len(req[r].slots) /\ req[r].slots \in Seq({"profile", "gallery"})
            /\ ~req[r].empty /\ r \in Active /\ req[r].previous \in Seq(Video)
        BY <3>3, AtWorkIs DEF Publish, Transcoding
      <4>2. req[r].made # <<>>
        BY <4>1, EmptySeq
      <4> DEFINE gallery == GalleryOf(req[r], req[r].made)
      <4>3. /\ gallery \in Seq(Clip) /\ Len(gallery) <= Len(req[r].made)
            /\ Len(req[r].previous \o gallery) = Len(req[r].previous) + Len(gallery)
        BY <4>1, <4>2, PartsType
      <4>4. videos' = req[r].previous \o gallery \/ videos' = videos
        BY <3>3, <4>1 DEF Publish
      <4>5. Len(req[r].previous) + Len(req[r].slots) <= Limit
        BY <4>1 DEF PlanInv, Transcoding, WithinPlan
      <4> HIDE DEF gallery
      <4>6. Len(req[r].previous \o gallery) <= Limit
        <5>1. /\ Len(req[r].previous) \in Nat /\ Len(req[r].slots) \in Nat
              /\ Len(req[r].made) \in Nat /\ Len(gallery) \in Nat
          BY <4>1, <4>3
        <5>2. Len(gallery) <= Len(req[r].slots)
          BY <4>1, <4>3
        <5>3. Len(req[r].previous) + Len(gallery) <= Limit
          BY <4>5, <5>1, <5>2, FewerFit, LimitAssumption, Zenon
        <5> QED BY <4>3, <5>3
      <4> QED BY <3>1, <4>4, <4>6
    <3>4. CASE videos' = videos
      BY <3>1, <3>4
    <3> QED BY <1>4, <3>2, <3>3, <3>4 DEF Refuse, Accept, RequestFails, JobStep, OpenClip, ClipMissing,
                                        EncodeClip, JobFails, FlagOff, doc
  <2> QED BY <2>4, <2>5, <2>6, <2>7 DEF PlanInv
<1> QED BY <1>1, <1>2, <1>3, <1>4 DEF Next

\* The empty gallery is within it.
LEMMA PlanStart == Init => PlanInv
BY LimitAssumption, EmptySeq DEF Init, PlanInv, Active, Idle

\* So it is always kept.
LEMMA PlanHolds == Spec => [](JobsInv /\ PlanInv)
<1>1. JobsInv /\ PlanInv /\ [Next]_vars => PlanInv'
  BY PlanStep
<1> QED BY <1>1, PlanStart, JobsHold, PTL DEF Spec

\* The gallery never outgrows the plan: for any number of updates and uploads,
\* accepted one by one against what each carries, their lists are written as a
\* whole and never add up, whatever fails or restarts in between.
THEOREM GalleryBounded == Spec => []GalleryWithinPlan
<1>1. PlanInv => GalleryWithinPlan
  BY DEF PlanInv, GalleryWithinPlan
<1> QED BY <1>1, PlanHolds, PTL


-----------------------------------------------------------------------------
(* One request at a time, the client gets the videos it asked for.         *)

\* AskedInv while nothing overlaps, fails or lists videos of its own.
Asked ==
    /\ \A r, s \in Active : r = s
    /\ \A r \in Active : req[r].list = <<>> /\ req[r].pc # "flagOff"
                         /\ FilesFit(r, req[r], disk)
    /\ \A r \in Working : Expected(r)
    /\ Working = {} => Shown

\* The invariant, without its precondition.
LEMMA AskedIs == AskedInv <=> (~overlapped /\ ~failed /\ ~listed => Asked)
BY DEF AskedInv, Asked

\* The same after a step.
LEMMA AskedSoon == (AskedInv <=> (~overlapped /\ ~failed /\ ~listed => Asked))'
BY AskedIs, PTL

\* With one request at work, only that one can be so after a step.
LEMMA AskedFrom ==
    ASSUME NEW r \in Request, \A s \in Request : s # r => req'[s].pc \in {"idle", "done"},
           r \in Active' => /\ req'[r].list = <<>> /\ req'[r].pc # "flagOff"
                            /\ FilesFit(r, req'[r], disk'),
           r \in Working' => Expected(r)',
           r \notin Working' => Shown'
    PROVE  Asked'
<1>1. \A s \in Active' : s = r
  BY DEF Active
<1>2. \A s \in Working' : s = r
  BY DEF Working, Transcoding
<1> QED BY <1>1, <1>2 DEF Asked

\* A job that made a clip of every file made each from its own.
LEMMA AllMade ==
    ASSUME JobsInv, NEW r \in Request, req[r].pc = "publish", FilesFit(r, req[r], disk)
    PROVE  req[r].made = Clips(r)
<1> DEFINE names == req[r].names
<1>1. /\ names \in Seq(Name) /\ req[r].made \in Seq(Clip) /\ Len(names) = Len(req[r].slots)
      /\ Len(req[r].made) = Len(req[r].slots) /\ req[r].slots # <<>>
      /\ req[r].slots \in Seq({"profile", "gallery"})
  BY AtWorkIs DEF Transcoding
<1>2. DOMAIN names = 1..Len(names)
  BY <1>1
<1>3. \A i, k \in 1..Len(names) : names[i] = names[k] => i = k
  BY <1>1 DEF FilesFit
<1>4. ASSUME NEW k \in 1..Len(names) PROVE LastPlace(names, names[k]) = k
  <2>1. LastPlace(names, names[k]) \in DOMAIN names /\ names[LastPlace(names, names[k])] = names[k]
    BY <1>1, <1>2, LastPlaceIs
  <2> QED BY <1>2, <1>3, <2>1
<1>5. \A k \in 1..Len(req[r].slots) : req[r].made[k] = <<r, k>>
  BY <1>1, <1>4 DEF FilesFit
<1>6. /\ Clips(r) \in Seq(Clip) /\ Len(Clips(r)) = Len(req[r].slots)
      /\ \A k \in 1..Len(req[r].slots) : Clips(r)[k] = <<r, k>>
  BY <1>1, ClipsType
<1>7. Len(req[r].made) = Len(Clips(r)) /\ \A k \in 1..Len(req[r].made) : req[r].made[k] = Clips(r)[k]
  BY <1>1, <1>5, <1>6
<1>8. req[r].made \in Seq(Clip) /\ Clips(r) \in Seq(Clip)
  BY <1>1, <1>6
<1> QED BY <1>7, <1>8, SeqEqual, Zenon

\* Making a clip uses up the name of its file.
LEMMA ClipMade ==
    ASSUME JobsInv, NEW r \in Request, req[r].pc = "encode", FilesFit(r, req[r], disk),
           NEW q \in AtWork, q.pc # "encode", q.names = req[r].names,
           q.made = Append(req[r].made, req[r].input),
           disk' = [disk EXCEPT ![NextName(req[r])] = NoFile]
    PROVE  FilesFit(r, q, disk')
<1> DEFINE names == req[r].names  made == req[r].made  n == NextName(req[r])  last == Len(made) + 1
<1>1. /\ names \in Seq(Name) /\ made \in Seq(Clip) /\ req[r].input \in Clip /\ req[r].input # NoFile
      /\ last \in DOMAIN names /\ n = names[last] /\ n \in Name
  BY AtWorkIs, NextNameIs DEF JobsInv, Progress
<1>2. /\ req[r].input = disk[n] /\ n \notin Used(req[r])
      /\ disk[n] = <<r, LastPlace(names, n)>>
  <2>1. req[r].input = disk[n]
    BY DEF FilesFit
  <2>2. disk[n] = IF n \in Used(req[r]) THEN NoFile ELSE <<r, LastPlace(names, n)>>
    BY <1>1 DEF FilesFit
  <2> QED BY <1>1, <2>1, <2>2
<1>3. /\ Len(q.made) = last /\ 1..last = (1..Len(made)) \cup {last} /\ last \notin 1..Len(made)
      /\ \A k \in 1..Len(made) : q.made[k] = made[k]
      /\ q.made[last] = req[r].input
  BY <1>1
<1>4. Used(q) = Used(req[r]) \cup {n}
  BY <1>1, <1>3 DEF Used
<1>5. \A m \in Name : disk'[m] = IF m = n THEN NoFile ELSE disk[m]
  BY DEF JobsInv, TypeOK
<1>6. \A i \in DOMAIN names : names[i] \in Name
  BY <1>1
<1>7. ASSUME NEW i \in DOMAIN names
      PROVE  disk'[names[i]] = IF names[i] \in Used(q) THEN NoFile
                               ELSE <<r, LastPlace(names, names[i])>>
  <2>1. disk[names[i]] = IF names[i] \in Used(req[r]) THEN NoFile
                         ELSE <<r, LastPlace(names, names[i])>>
    BY DEF FilesFit
  <2> HIDE DEF names, n
  <2> QED BY <1>4, <1>5, <1>6, <2>1
<1>8. \A k \in 1..Len(made) : made[k] = <<r, LastPlace(names, names[k])>>
  BY DEF FilesFit
<1>9. ASSUME NEW k \in 1..Len(q.made) PROVE q.made[k] = <<r, LastPlace(names, names[k])>>
  <2>1. CASE k = last
    BY <1>1, <1>2, <1>3, <2>1
  <2>2. CASE k \in 1..Len(made)
    BY <1>3, <1>8, <2>2
  <2> QED BY <1>3, <2>1, <2>2
<1>10. \A k \in 1..Len(made) : names[k] # n
  BY <1>2 DEF Used
<1>11. \A i, k \in 1..Len(made) : names[i] = names[k] => i = k
  BY DEF FilesFit
<1>12. \A i, k \in 1..Len(q.made) : names[i] = names[k] => i = k
  <2> HIDE DEF names, n, last, made
  <2> QED BY <1>1, <1>3, <1>10, <1>11
<1> QED BY <1>7, <1>9, <1>12 DEF FilesFit


\* A step that leaves the profile alone and what the request carries.
LEMMA ExpectedStays ==
    ASSUME NEW r \in Request, Expected(r), UNCHANGED <<videos, profileVideo, wanted>>,
           req'[r].slots = req[r].slots, req'[r].previous = req[r].previous
    PROVE  Expected(r)'
<1>1. Clips(r)' = Clips(r)
  BY DEF Clips
<1>2. GalleryOf(req[r], Clips(r))' = GalleryOf(req[r], Clips(r))
  BY <1>1 DEF GalleryOf
<1> QED BY <1>2 DEF Expected

\* The steps of a request that is alone, whose files and clips fit it.
AskedCase(r) ==
    /\ \A s \in Request : s # r => req'[s].pc \in {"idle", "done"}
    /\ r \in Active => /\ req[r].list = <<>> /\ req[r].pc # "flagOff"
                       /\ FilesFit(r, req[r], disk)
    /\ r \in Working => Expected(r)
    /\ r \notin Working => Shown

\* A request that arrives finds nobody at work; its files replace those on disk.
LEMMA AskedReceive ==
    ASSUME JobsInv, NEW r \in Request, AskedCase(r), Receive(r), ~listed'
    PROVE  Asked'
<1>1. PICK q \in AtWork : /\ req' = [req EXCEPT ![r] = q] /\ q.pc = "limits" /\ q.made = <<>>
                          /\ disk' = Stored(r, q.names)
                          /\ listed' = (listed \/ q.list # <<>>)
  BY ReceiveIs
<1>2. req'[r] = q /\ q.list = <<>>
  BY <1>1 DEF JobsInv, TypeOK
<1>3. r \notin Working /\ r \notin Working'
  BY <1>1, <1>2 DEF Receive, Working, Transcoding
<1>4. Shown'
  BY <1>3 DEF AskedCase, Receive, Shown, doc
<1>5. FilesFit(r, q, disk')
  <2>1. q.names \in Seq(Name) /\ disk \in [Name -> Clip \cup {NoFile}]
    BY DEF AtWork, JobsInv, TypeOK
  <2>2. \A i \in DOMAIN q.names : disk'[q.names[i]] = <<r, LastPlace(q.names, q.names[i])>>
    BY <1>1, <2>1, StoredIs
  <2>3. 1..Len(q.made) = {} /\ Used(q) = {}
    BY <1>1 DEF Used
  <2> QED BY <1>1, <2>2, <2>3 DEF FilesFit
<1> QED BY <1>1, <1>2, <1>3, <1>4, <1>5, AskedFrom DEF AskedCase

\* A request that ends without an upload leaves what was asked for.
LEMMA AskedEnd ==
    ASSUME JobsInv, NEW r \in Request, AskedCase(r), Refuse(r) \/ SaveUpdate(r)
    PROVE  Asked'
<1>1. req'[r] = Finished /\ Finished.pc = "done"
  BY OneEnds DEF Refuse, SaveUpdate, Finished
<1>2. r \notin Working /\ r \notin Working' /\ r \notin Active'
  BY <1>1 DEF Refuse, SaveUpdate, Working, Transcoding, Active
<1>3. Shown
  BY <1>2 DEF AskedCase
<1>4. Shown'
  <2>1. CASE Refuse(r)
    BY <1>3, <2>1 DEF Refuse, Shown, doc, history
  <2>2. CASE SaveUpdate(r)
    BY <1>3, <2>2 DEF SaveUpdate, Shown, JobsInv, TypeOK
  <2> QED BY <2>1, <2>2
<1> QED BY <1>2, <1>4, AskedFrom DEF AskedCase

\* What a request holds on disk stays as it was when no clip is made.
LEMMA FilesStay ==
    ASSUME NEW r, NEW q, NEW p, NEW d, FilesFit(r, q, d),
           p.names = q.names, p.made = q.made,
           p.pc = "encode" => p.input = d[NextName(p)]
    PROVE  FilesFit(r, p, d)
<1>1. Used(p) = Used(q)
  BY DEF Used
<1> QED BY <1>1 DEF FilesFit

\* A request within the plan has changed nothing yet.
LEMMA AskedAccept ==
    ASSUME JobsInv, NEW r \in Request, AskedCase(r), Accept(r)
    PROVE  Asked'
<1>1. req[r].pc = "limits" /\ req[r] \in AtWork /\ r \in Active /\ r \notin Working
  BY AtWorkIs DEF Accept, Working, Transcoding
<1>2. req'[r] = [req[r] EXCEPT !.pc = "save"]
  BY OneGoes DEF Accept
<1>3. /\ req'[r].pc = "save" /\ req'[r].list = req[r].list
      /\ req'[r].names = req[r].names /\ req'[r].made = req[r].made
  BY <1>1, <1>2 DEF AtWork
<1>4. r \notin Working' /\ Shown'
  BY <1>1, <1>3 DEF AskedCase, Working, Transcoding, Shown, Accept, doc, history
<1>5. FilesFit(r, req'[r], disk')
  <2>1. disk' = disk /\ FilesFit(r, req[r], disk)
    BY <1>1 DEF AskedCase, Accept
  <2>2. FilesFit(r, req'[r], disk)
    BY <1>3, <2>1, FilesStay
  <2> QED BY <2>1, <2>2
<1> QED BY <1>1, <1>3, <1>4, <1>5, AskedFrom DEF AskedCase

\* A saved upload asks for its clips, which its job will publish.
LEMMA AskedUpload ==
    ASSUME JobsInv, NEW r \in Request, AskedCase(r), SaveUpload(r)
    PROVE  Asked'
<1>1. /\ req[r].pc = "save" /\ req[r] \in AtWork /\ r \in Active /\ r \notin Working
      /\ req[r].slots # <<>> /\ ~req[r].empty /\ req[r].list = <<>>
  BY AtWorkIs DEF SaveUpload, Working, Transcoding, AskedCase
<1>2. req'[r] = [req[r] EXCEPT !.pc = "open"]
  BY <1>1, OneGoes DEF SaveUpload
<1>3. /\ req'[r].pc = "open" /\ req'[r].list = req[r].list /\ req'[r].slots = req[r].slots
      /\ req'[r].names = req[r].names /\ req'[r].made = req[r].made
      /\ req'[r].previous = req[r].previous
  BY <1>1, <1>2 DEF AtWork
<1>4. FilesFit(r, req'[r], disk')
  <2>1. disk' = disk /\ FilesFit(r, req[r], disk)
    BY <1>1 DEF AskedCase, SaveUpload
  <2>2. FilesFit(r, req'[r], disk)
    BY <1>3, <2>1, FilesStay
  <2> QED BY <2>1, <2>2
<1> DEFINE gallery == GalleryOf(req[r], Clips(r))
           profile == ProfileOf(req[r], Clips(r))
<1>5. /\ wanted'.gallery = IF gallery # <<>> \/ req[r].previous # <<>>
                           THEN req[r].previous \o gallery ELSE wanted.gallery
      /\ wanted'.profile = IF profile # <<>> THEN profile[1] ELSE wanted.profile
  BY <1>1 DEF SaveUpload
<1>6. videos' = IF req[r].previous # <<>> THEN req[r].previous ELSE videos
  BY <1>1 DEF SaveUpload
<1>7. /\ req[r].slots[1] = "profile" => profile # <<>> /\ profile[1] = <<r, 1>>
      /\ req[r].slots[1] # "profile" => profile = <<>>
  <2>1. /\ Clips(r) \in Seq(Clip) /\ Clips(r) # <<>> /\ Len(Clips(r)) = Len(req[r].slots)
        /\ \A k \in 1..Len(req[r].slots) : Clips(r)[k] = <<r, k>>
    BY <1>1, ClipsType
  <2>2. 1 \in 1..Len(req[r].slots)
    <3>1. req[r].slots \in Seq({"profile", "gallery"})
      BY <1>1, AtWorkIs
    <3> QED BY <1>1, <3>1, EmptySeq
  <2>3. Clips(r)[1] = <<r, 1>>
    BY <2>1, <2>2
  <2> QED BY <1>1, <2>1, <2>3, PartsType
<1>8. Shown
  BY <1>1 DEF AskedCase
<1>9. Clips(r)' = Clips(r) /\ GalleryOf(req[r], Clips(r))' = gallery
  <2>1. Clips(r)' = Clips(r)
    BY <1>3 DEF Clips
  <2> QED BY <1>3, <2>1 DEF GalleryOf
<1> HIDE DEF gallery, profile
<1>10. wanted'.gallery = IF gallery # <<>> \/ req[r].previous # <<>>
                         THEN req[r].previous \o gallery ELSE videos'
  BY <1>5, <1>6, <1>8 DEF Shown
<1>11. wanted'.profile = IF req[r].slots[1] = "profile" THEN <<r, 1>> ELSE profileVideo'
  BY <1>5, <1>7, <1>8 DEF Shown, SaveUpload
<1>12. Expected(r)'
  BY <1>3, <1>9, <1>10, <1>11 DEF Expected
<1>13. r \in Working'
  BY <1>3 DEF Working, Transcoding
<1> QED BY <1>1, <1>3, <1>4, <1>12, <1>13, AskedFrom DEF AskedCase

\* The job opens the file of its next clip.
LEMMA AskedOpen ==
    ASSUME JobsInv, NEW r \in Request, AskedCase(r), OpenClip(r)
    PROVE  Asked'
<1>1. PICK q \in AtWork :
              /\ req' = [req EXCEPT ![r] = q] /\ q.pc = "encode"
              /\ q.slots = req[r].slots /\ q.names = req[r].names /\ q.made = req[r].made
              /\ q.previous = req[r].previous /\ q.empty = req[r].empty /\ q.list = req[r].list
              /\ q.input = disk[NextName(req[r])] /\ q.input \in Clip /\ q.input # NoFile
  BY OpenIs
<1>2. req'[r] = q /\ r \in Working /\ r \in Working' /\ r \in Active
  BY <1>1 DEF JobsInv, TypeOK, OpenClip, Working, Transcoding, Active
<1>3. NextName(q) = NextName(req[r])
  BY <1>1 DEF NextName
<1>4. FilesFit(r, req'[r], disk')
  <2>1. disk' = disk /\ FilesFit(r, req[r], disk)
    BY <1>2 DEF AskedCase, OpenClip
  <2>2. FilesFit(r, q, disk)
    BY <1>1, <1>3, <2>1, FilesStay
  <2> QED BY <1>2, <2>1, <2>2
<1>5. Expected(r)'
  BY <1>1, <1>2, ExpectedStays DEF AskedCase, OpenClip, doc, history
<1> QED BY <1>1, <1>2, <1>4, <1>5, AskedFrom DEF AskedCase

\* The clip it makes of the file is the one asked for.
LEMMA AskedEncode ==
    ASSUME JobsInv, NEW r \in Request, AskedCase(r), EncodeClip(r)
    PROVE  Asked'
<1>1. PICK q \in AtWork :
              /\ req' = [req EXCEPT ![r] = q]
              /\ q.pc = IF Len(q.made) < Len(q.slots) THEN "open" ELSE "publish"
              /\ q.made = Append(req[r].made, req[r].input) /\ Len(q.made) <= Len(q.slots)
              /\ q.slots = req[r].slots /\ q.names = req[r].names
              /\ q.previous = req[r].previous /\ q.empty = req[r].empty /\ q.list = req[r].list
  BY EncodeIs
<1>2. q.pc \in {"open", "publish"}
  BY <1>1
<1>3. req'[r] = q /\ r \in Working /\ r \in Working' /\ r \in Active
  BY <1>1, <1>2 DEF JobsInv, TypeOK, EncodeClip, Working, Transcoding, Active
<1>4. FilesFit(r, req'[r], disk')
  <2>1. req[r].pc = "encode" /\ disk' = [disk EXCEPT ![NextName(req[r])] = NoFile]
        /\ FilesFit(r, req[r], disk)
    BY <1>3 DEF EncodeClip, AskedCase
  <2> QED BY <1>1, <1>2, <1>3, <2>1, ClipMade
<1>5. Expected(r)'
  BY <1>1, <1>3, ExpectedStays DEF AskedCase, EncodeClip, doc, history
<1> QED BY <1>1, <1>2, <1>3, <1>4, <1>5, AskedFrom DEF AskedCase

\* What it publishes is what was asked for.
LEMMA AskedPublish ==
    ASSUME JobsInv, NEW r \in Request, AskedCase(r), Publish(r)
    PROVE  Asked'
<1>1. req[r].pc = "publish" /\ r \in Active /\ r \in Working /\ req[r].slots # <<>> /\ ~req[r].empty
  BY AtWorkIs DEF Publish, Working, Transcoding, Active
<1>2. req'[r] = Finished /\ Finished.pc = "done"
  BY OneEnds DEF Publish, Finished
<1>3. r \notin Working' /\ r \notin Active'
  BY <1>2 DEF Working, Transcoding, Active
<1>4. req[r].made = Clips(r)
  BY <1>1, AllMade DEF AskedCase
<1> DEFINE gallery == GalleryOf(req[r], Clips(r))
           profile == ProfileOf(req[r], Clips(r))
<1>5. /\ videos' = IF gallery # <<>> \/ req[r].previous # <<>>
                   THEN req[r].previous \o gallery ELSE videos
      /\ profileVideo' = IF profile # <<>> THEN profile[1] ELSE profileVideo
      /\ wanted' = wanted
  BY <1>1, <1>4 DEF Publish, history
<1>6. /\ req[r].slots[1] = "profile" => profile # <<>> /\ profile[1] = <<r, 1>>
      /\ req[r].slots[1] # "profile" => profile = <<>>
  <2>1. /\ Clips(r) \in Seq(Clip) /\ Clips(r) # <<>> /\ Len(Clips(r)) = Len(req[r].slots)
        /\ \A k \in 1..Len(req[r].slots) : Clips(r)[k] = <<r, k>>
    BY <1>1, ClipsType
  <2>2. 1 \in 1..Len(req[r].slots)
    <3>1. req[r].slots \in Seq({"profile", "gallery"})
      BY <1>1, AtWorkIs
    <3> QED BY <1>1, <3>1, EmptySeq
  <2>3. Clips(r)[1] = <<r, 1>>
    BY <2>1, <2>2
  <2> QED BY <1>1, <2>1, <2>3, PartsType
<1>7. Expected(r)
  BY <1>1 DEF AskedCase
<1> HIDE DEF profile
<1>8. Shown'
  BY <1>5, <1>6, <1>7 DEF Expected, Shown
<1> QED BY <1>3, <1>8, AskedFrom DEF AskedCase

\* So every step keeps the invariant.
LEMMA AskedStep == JobsInv /\ AskedInv /\ [Next]_vars => AskedInv'
<1> SUFFICES ASSUME JobsInv, AskedInv, [Next]_vars, ~overlapped', ~failed', ~listed' PROVE Asked'
  BY AskedSoon
<1>1. ~overlapped /\ ~failed /\ ~listed
  <2>1. CASE UNCHANGED vars
    BY <2>1 DEF vars, history, flags
  <2>2. CASE Next
    <3>1. Restart => failed'
      BY DEF Restart
    <3>2. ASSUME NEW r \in Request, Receive(r) PROVE ~overlapped /\ ~failed /\ ~listed
      <4>1. listed => listed'
        BY <3>2, ReceiveIs
      <4> QED BY <3>2, <4>1 DEF Receive
    <3>3. ASSUME NEW r \in Request, \/ Refuse(r) \/ Accept(r) \/ SaveUpload(r) \/ SaveUpdate(r)
                                    \/ RequestFails(r) \/ JobStep(r)
          PROVE  ~overlapped /\ ~failed /\ ~listed
      <4>1. ~RequestFails(r) /\ ~ClipMissing(r) /\ ~JobFails(r)
        BY DEF RequestFails, ClipMissing, JobFails
      <4>2. CASE SaveUpload(r)
        BY <4>2 DEF SaveUpload
      <4>3. CASE SaveUpdate(r)
        BY <4>3 DEF SaveUpdate, flags
      <4>4. CASE Refuse(r) \/ Accept(r) \/ OpenClip(r) \/ EncodeClip(r) \/ Publish(r) \/ FlagOff(r)
        <5>1. history' = history
          BY <4>4 DEF Refuse, Accept, OpenClip, EncodeClip, Publish, FlagOff
        <5> QED BY <5>1 DEF history, flags
      <4> QED BY <3>3, <4>1, <4>2, <4>3, <4>4 DEF JobStep
    <3> QED BY <2>2, <3>1, <3>2, <3>3 DEF Next
  <2> QED BY <2>1, <2>2
<1>2. Asked
  BY <1>1, AskedIs
<1>3. CASE UNCHANGED vars
  <2>1. UNCHANGED <<videos, profileVideo, disk, req, wanted>>
    BY <1>3 DEF vars, doc, history
  <2>2. \A r \in Working : Clips(r)' = Clips(r)
    BY <2>1 DEF Clips
  <2>3. \A r \in Working : Expected(r)'
    BY <1>2, <2>1, ExpectedStays DEF Asked, Working
  <2> QED BY <1>2, <2>1, <2>3 DEF Asked, Active, Working, Shown
<1>4. ASSUME NEW r \in Request, \/ Receive(r) \/ Refuse(r) \/ Accept(r) \/ SaveUpload(r) \/ SaveUpdate(r)
                                \/ RequestFails(r) \/ JobStep(r)
      PROVE  Asked'
  <2>1. ~RequestFails(r) /\ ~ClipMissing(r) /\ ~JobFails(r)
    BY DEF RequestFails, ClipMissing, JobFails
  <2>2. Receive(r) \/ r \in Active
    BY <1>4 DEF Active, Refuse, Accept, SaveUpload, SaveUpdate, RequestFails, JobStep, OpenClip,
                ClipMissing, EncodeClip, Publish, JobFails, FlagOff
  <2>3. Receive(r) => Active = {}
    BY DEF Receive
  <2>4. \A s \in Request : s # r => s \notin Active
    BY <1>2, <2>2, <2>3 DEF Asked
  <2>5. \A s \in Request : s # r => req'[s] = req[s]
    <3>1. CASE Receive(r)
      <4>1. PICK q \in AtWork : req' = [req EXCEPT ![r] = q]
        BY <3>1, ReceiveIs
      <4> QED BY <4>1 DEF JobsInv, TypeOK
    <3>2. CASE ~Receive(r)
      BY <1>4, <3>2, LoadsKept
    <3> QED BY <3>1, <3>2
  <2>6. AskedCase(r)
    <3>1. Working \subseteq Active
      BY DEF Working, Active, Transcoding
    <3>2. \A s \in Request : s # r => req'[s].pc \in {"idle", "done"}
      BY <2>4, <2>5 DEF Active
    <3>3. r \notin Working => Working = {}
      BY <2>4, <3>1 DEF Active
    <3> QED BY <1>2, <3>2, <3>3 DEF AskedCase, Asked
  <2>7. ~FlagOff(r)
    BY <2>2, <2>6 DEF FlagOff, AskedCase, Receive
  <2> QED BY <1>4, <2>1, <2>6, <2>7, AskedReceive, AskedEnd, AskedAccept, AskedUpload, AskedOpen,
             AskedEncode, AskedPublish DEF JobStep
<1>5. CASE Restart
  BY <1>5 DEF Restart
<1> QED BY <1>3, <1>4, <1>5 DEF Next

\* Nothing has been asked for at first.
LEMMA AskedStart == Init => AskedInv
BY DEF Init, AskedInv, Active, Working, Transcoding, Idle, Shown

\* One request at a time and none failed, the profile holds what its client asked
\* for: the videos it kept and the new ones after them, in order and each from
\* its own file, whatever a refused upload has left on disk under their names.
THEOREM AsAsked == Spec => []VideosAsRequested
<1>1. AskedInv => VideosAsRequested
  <2>1. Working \subseteq Active
    BY DEF Working, Active, Transcoding
  <2> QED BY <2>1 DEF AskedInv, VideosAsRequested, Shown
<1>2. JobsInv /\ AskedInv /\ [Next]_vars => AskedInv'
  BY AskedStep
<1> QED BY <1>1, <1>2, AskedStart, JobsHold, PTL DEF Spec

HasPc == DOMAIN req = Request /\ \A r \in Request : "pc" \in DOMAIN req[r]

\* Uploads that do not overlap have one job at a time, and the flag is up for
\* as long as that job has its last update before it.
FlagInv ==
    ~uploadsOverlapped =>
        /\ \A r, s \in Jobs : r = s
        /\ Jobs # {} => mediaProcessing

\* A step of one request moves no other request's program counter.
LEMMA OthersStay ==
    ASSUME HasPc, NEW r \in Request, NEW q, req' = [req EXCEPT ![r] = q]
    PROVE  /\ req'[r] = q
           /\ \A s \in Request : s # r => req'[s] = req[s]
           /\ DOMAIN req' = Request
BY DEF HasPc

\* While uploads do not overlap, mediaProcessing is up for as long as a job
\* transcodes: profile updates without files never take it down.
THEOREM FlagCovers == Spec => []FlagCoversUpload
<1>1. Init => HasPc /\ FlagInv
  BY DEF Init, HasPc, FlagInv, Jobs, Transcoding, Idle
<1>2. HasPc /\ FlagInv /\ [Next]_vars => (HasPc /\ FlagInv)'
  <2> SUFFICES ASSUME HasPc, FlagInv, [Next]_vars PROVE (HasPc /\ FlagInv)'
    OBVIOUS
  <2> USE DEF doc, history, flags
  \* A step that moves one request, whose new state has a program counter.
  <2>a. ASSUME NEW r \in Request, NEW q, "pc" \in DOMAIN q, req' = [req EXCEPT ![r] = q]
        PROVE  /\ HasPc'
               /\ q.pc \in Transcoding \cup {"flagOff"} => Jobs' = Jobs \cup {r}
               /\ q.pc \notin Transcoding \cup {"flagOff"} => Jobs' = Jobs \ {r}
    BY <2>a, OthersStay DEF HasPc, Jobs
  <2>b. ASSUME NEW r \in Request, req' = Done(r)
        PROVE  HasPc' /\ Jobs' = Jobs \ {r}
    <3>1. "pc" \in DOMAIN Finished /\ Finished.pc \notin Transcoding \cup {"flagOff"}
      BY DEF Finished, Transcoding
    <3> QED
      BY <2>b, <2>a, <3>1 DEF Done
  <2>c. ASSUME NEW r \in Request, NEW label, req' = Goto(r, label)
        PROVE  /\ HasPc'
               /\ label \in Transcoding \cup {"flagOff"} => Jobs' = Jobs \cup {r}
               /\ label \notin Transcoding \cup {"flagOff"} => Jobs' = Jobs \ {r}
    <3> DEFINE q == [req[r] EXCEPT !.pc = label]
    <3>1. "pc" \in DOMAIN q /\ q.pc = label /\ req' = [req EXCEPT ![r] = q]
      BY <2>c DEF Goto, HasPc
    <3> HIDE DEF q
    <3> QED
      BY <3>1, <2>a
  \* Neither a job that goes on nor a request without one disturbs FlagInv.
  <2>d. ASSUME uploadsOverlapped' = uploadsOverlapped,
               mediaProcessing' = mediaProcessing, Jobs' \subseteq Jobs
        PROVE  FlagInv'
    BY <2>d DEF FlagInv
  \* A job that ends takes the flag down when it was the only one.
  <2>e. ASSUME NEW r \in Jobs, uploadsOverlapped' = uploadsOverlapped,
               Jobs' = Jobs \ {r}
        PROVE  FlagInv'
    BY <2>e DEF FlagInv
  <2>1. ASSUME NEW r \in Request, Receive(r) PROVE (HasPc /\ FlagInv)'
    <3>1. PICK slots, body, names :
             req' = [req EXCEPT ![r] =
                   [pc |-> "limits", slots |-> slots, names |-> names,
                    previous |-> body.previous, empty |-> body.empty,
                    list |-> body.list, made |-> <<>>, input |-> NoFile]]
      BY <2>1 DEF Receive
    <3> DEFINE q == [pc |-> "limits", slots |-> slots, names |-> names,
                     previous |-> body.previous, empty |-> body.empty,
                     list |-> body.list, made |-> <<>>, input |-> NoFile]
    <3>2. "pc" \in DOMAIN q /\ q.pc = "limits" /\ req' = [req EXCEPT ![r] = q]
      BY <3>1
    <3> HIDE DEF q
    <3>3. HasPc' /\ Jobs' = Jobs \ {r}
      BY <3>2, <2>a DEF Transcoding
    <3> QED
      BY <3>3, <2>d, <2>1 DEF Receive
  <2>2. ASSUME NEW r \in Request, Refuse(r) \/ SaveUpdate(r) \/ RequestFails(r)
        PROVE  (HasPc /\ FlagInv)'
    BY <2>2, <2>b, <2>d DEF Refuse, SaveUpdate, RequestFails
  <2>3. ASSUME NEW r \in Request, Accept(r) PROVE (HasPc /\ FlagInv)'
    BY <2>3, <2>c, <2>d DEF Accept, Transcoding
  <2>4. ASSUME NEW r \in Request, SaveUpload(r) PROVE (HasPc /\ FlagInv)'
    <3>1. /\ HasPc' /\ Jobs' = Jobs \cup {r} /\ mediaProcessing'
          /\ uploadsOverlapped' = (uploadsOverlapped \/ Jobs # {})
      BY <2>4, <2>c DEF SaveUpload, Transcoding
    <3> QED
      BY <3>1 DEF FlagInv
  <2>5. ASSUME NEW r \in Request, OpenClip(r) PROVE (HasPc /\ FlagInv)'
    <3> DEFINE q == [req[r] EXCEPT !.pc = "encode", !.input = disk[NextName(req[r])]]
    <3>1. "pc" \in DOMAIN q /\ q.pc = "encode" /\ req' = [req EXCEPT ![r] = q]
      BY <2>5 DEF OpenClip, HasPc
    <3> HIDE DEF q
    <3>2. r \in Jobs
      BY <2>5 DEF OpenClip, Jobs, Transcoding
    <3>3. HasPc' /\ Jobs' = Jobs \cup {r}
      BY <3>1, <2>a DEF Transcoding
    <3>4. Jobs' = Jobs
      BY <3>2, <3>3
    <3> QED
      BY <3>3, <3>4, <2>d, <2>5 DEF OpenClip
  <2>6. ASSUME NEW r \in Request, EncodeClip(r) PROVE (HasPc /\ FlagInv)'
    <3> DEFINE made == Append(req[r].made, req[r].input)
               q == [req[r] EXCEPT !.made = made,
                                   !.pc = IF Len(made) < Len(req[r].slots)
                                          THEN "open" ELSE "publish"]
    <3>1. "pc" \in DOMAIN q /\ q.pc \in Transcoding /\ req' = [req EXCEPT ![r] = q]
      BY <2>6 DEF EncodeClip, HasPc, Transcoding
    <3> HIDE DEF q
    <3>2. r \in Jobs
      BY <2>6 DEF EncodeClip, Jobs, Transcoding
    <3>3. HasPc' /\ Jobs' = Jobs \cup {r}
      BY <3>1, <2>a DEF Transcoding
    <3>4. Jobs' = Jobs
      BY <3>2, <3>3
    <3> QED
      BY <3>3, <3>4, <2>d, <2>6 DEF EncodeClip
  <2>7. ASSUME NEW r \in Request, ClipMissing(r) \/ JobFails(r)
        PROVE  (HasPc /\ FlagInv)'
    <3>1. r \in Jobs
      BY <2>7 DEF ClipMissing, JobFails, Jobs, Transcoding
    <3>2. HasPc' /\ Jobs' = Jobs
      BY <3>1, <2>7, <2>c DEF ClipMissing, JobFails
    <3> QED
      BY <3>2, <2>d, <2>7 DEF ClipMissing, JobFails
  <2>8. ASSUME NEW r \in Request, Publish(r) \/ FlagOff(r) PROVE (HasPc /\ FlagInv)'
    <3>1. r \in Jobs
      BY <2>8 DEF Publish, FlagOff, Jobs, Transcoding
    <3>2. HasPc' /\ Jobs' = Jobs \ {r}
      BY <2>8, <2>b DEF Publish, FlagOff
    <3> QED
      BY <3>1, <3>2, <2>e, <2>8 DEF Publish, FlagOff
  <2>9. CASE Restart
    <3>1. /\ HasPc'
          /\ \A r \in Request : req'[r] = IF r \in Active THEN Finished ELSE req[r]
      BY <2>9 DEF Restart, HasPc, Finished
    <3>2. Jobs' = {}
      BY <3>1 DEF Jobs, Active, Finished, Transcoding
    <3> QED
      BY <3>1, <3>2 DEF FlagInv
  <2>10. CASE UNCHANGED vars
    BY <2>10 DEF vars, HasPc, FlagInv, Jobs
  <2> QED
    BY <2>1, <2>2, <2>3, <2>4, <2>5, <2>6, <2>7, <2>8, <2>9, <2>10 DEF Next, JobStep
<1>3. FlagInv => FlagCoversUpload
  BY DEF FlagInv, FlagCoversUpload, Working, Jobs
<1> QED
  BY <1>1, <1>2, <1>3, PTL DEF Spec
=============================================================================
