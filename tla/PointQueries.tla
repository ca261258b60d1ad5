---------------------------- MODULE PointQueries ----------------------------
(* Questions about a point of the page, answered by an evaluation whose     *)
(* number is kept in the page and not in the request: hitTestAsync and      *)
(* saveImageAtPointAsync with its download.                                 *)
EXTENDS PageLoads

CONSTANTS
  Files,        \* files an image may be saved as
  NoFile,       \* an empty m_saveImgInFlight
  MaxHits,      \* bound: hit tests
  MaxSaves      \* bound: images to save

ASSUME QueryAssumption == NoFile \notin Files /\ {MaxHits, MaxSaves} \subseteq Nat

VARIABLES
  hitQ,         \* m_hitTestQuery
  saveQ,        \* m_saveImgQuery
  inFlight,     \* m_saveImgInFlight
  downloads,    \* AtlasImgDl's: the number they answer and their file
  hitAnswers,   \* numbers msgHitTestResponse was sent with
  saveAnswers,  \* and msgSaveImageAtPointResponse
  dropped       \* numbers that were m_saveImgQuery when a save was dropped

queries == <<hitQ, saveQ, inFlight, downloads, hitAnswers, saveAnswers, dropped>>
Hits == 1 .. MaxHits
Saves == 1 .. MaxSaves

TypeOKQueries == /\ hitQ \in {0} \cup Hits /\ saveQ \in {0} \cup Saves
                 /\ inFlight \in Files \cup {NoFile}
                 /\ downloads \subseteq [q : Saves, file : Files]
                 /\ hitAnswers \subseteq Hits /\ saveAnswers \subseteq Saves
                 /\ dropped \subseteq Saves
InitQueries == /\ hitQ = 0 /\ saveQ = 0 /\ inFlight = NoFile /\ downloads = {}
               /\ hitAnswers = {} /\ saveAnswers = {} /\ dropped = {}
-----------------------------------------------------------------------------
(* hitTestAsync                                                             *)
HitTest ==
  /\ alive /\ Room /\ hitQ < MaxHits /\ hitQ' = hitQ + 1
  /\ IF view = NoView THEN hitAnswers' = hitAnswers \cup {hitQ + 1} /\ UNCHANGED <<evals, news>>
                      ELSE Send(news, <<[op |-> "hit"]>>) /\ UNCHANGED hitAnswers
  /\ UNCHANGED <<saveQ, inFlight, downloads, saveAnswers, dropped,
                 alive, card, guard, shown, up, webprocess, counters, freed>>

(* onHitTestResult, which an evaluation that failed answers as well         *)
FoundHitOrSilent(failed) ==
  /\ hitAnswers' = IF alive /\ ~failed THEN hitAnswers \cup {hitQ} ELSE hitAnswers
  /\ UNCHANGED <<hitQ, saveQ, inFlight, downloads, saveAnswers, dropped>>
FoundHit(failed) ==
  /\ hitAnswers' = IF alive THEN hitAnswers \cup {hitQ} ELSE hitAnswers
  /\ UNCHANGED <<hitQ, saveQ, inFlight, downloads, saveAnswers, dropped>>

(* saveImageAtPointAsync                                                    *)
SaveImage ==
  /\ alive /\ Room /\ saveQ < MaxSaves /\ saveQ' = saveQ + 1
  /\ IF view = NoView THEN saveAnswers' = saveAnswers \cup {saveQ + 1} /\ UNCHANGED <<evals, news>>
                      ELSE Send(news, <<[op |-> "src"]>>) /\ UNCHANGED saveAnswers
  /\ UNCHANGED <<hitQ, inFlight, downloads, hitAnswers, dropped,
                 alive, card, guard, shown, up, webprocess, counters, freed>>

(* onSaveImgSrcResult: no image; one that is being saved, as far as the     *)
(* page knows; or one whose download is started, if it can be.              *)
FoundSrcSilent(file, started) ==
  /\ IF ~alive THEN UNCHANGED <<inFlight, downloads, saveAnswers, dropped>>
     ELSE \/ /\ file = NoFile /\ saveAnswers' = saveAnswers \cup {saveQ}
             /\ UNCHANGED <<inFlight, downloads, dropped>>
          \/ /\ file # NoFile /\ file = inFlight /\ dropped' = dropped \cup {saveQ}
             /\ UNCHANGED <<inFlight, downloads, saveAnswers>>
          \/ /\ file \notin {NoFile, inFlight} /\ inFlight' = file
             /\ downloads' = IF started THEN downloads \cup {[q |-> saveQ, file |-> file]} ELSE downloads
             /\ UNCHANGED <<saveAnswers, dropped>>
  /\ UNCHANGED <<hitQ, saveQ, hitAnswers>>
FoundSrc(file, started) ==
  /\ IF ~alive THEN UNCHANGED <<inFlight, downloads, saveAnswers, dropped>>
     ELSE \/ /\ file = NoFile /\ saveAnswers' = saveAnswers \cup {saveQ}
             /\ UNCHANGED <<inFlight, downloads, dropped>>
          \/ /\ file # NoFile /\ file = inFlight /\ dropped' = dropped \cup {saveQ}
             /\ UNCHANGED <<inFlight, downloads, saveAnswers>>
          \/ /\ file \notin {NoFile, inFlight} /\ inFlight' = file /\ UNCHANGED dropped
             /\ IF started
                  THEN /\ downloads' = downloads \cup {[q |-> saveQ, file |-> file]}
                       /\ UNCHANGED saveAnswers
                  ELSE saveAnswers' = saveAnswers \cup {saveQ} /\ UNCHANGED downloads
  /\ UNCHANGED <<hitQ, saveQ, hitAnswers>>

(* atlas_img_dl_done and respondSaveImage                                   *)
DownloadDone(d) ==
  /\ d \in downloads /\ downloads' = downloads \ {d}
  /\ saveAnswers' = (IF alive THEN saveAnswers \cup {d.q} ELSE saveAnswers)
  /\ inFlight' = IF alive THEN NoFile ELSE inFlight
  /\ UNCHANGED <<hitQ, saveQ, hitAnswers, dropped, vars0>>
-----------------------------------------------------------------------------
(* The last hit test asked is answered, even if the WebProcess died.        *)
HitAnswered == \A q \in Hits : hitQ = q ~> q \in hitAnswers \/ hitQ > q \/ ~alive

(* The last save asked is answered, or its image is being downloaded, or it *)
(* was taken for a repeat; also when the WebProcess died or the download    *)
(* could not be started.                                                    *)
SaveAnswered ==
  \A q \in Saves : saveQ = q ~> \/ q \in saveAnswers \cup dropped
                                \/ \E d \in downloads : d.q = q
                                \/ saveQ > q \/ ~alive

(* A save is dropped as a repeat only while its image is being downloaded   *)
(* (the comment in onSaveImgSrcResult).                                     *)
InFlightIsReal ==
  alive /\ inFlight # NoFile => \E d \in downloads : d.file = inFlight

(* A second download onto the same file is never started (the comment in    *)
(* onSaveImgSrcResult).                                                     *)
OneDownloadPerFile == \A d, e \in downloads : d.file = e.file => d = e
=============================================================================
