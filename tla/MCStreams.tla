------------------------------ MODULE MCStreams ------------------------------
(* The two streams a page can follow of a task: its public events and the  *)
(* private preview of its text.  They share no state; a behaviour is about *)
(* one of them.                                                            *)
EXTENDS TaskStream, ContentPreview

VARIABLE kind

streamVars == <<kind, vars, previewVars>>

StreamsInit == kind \in {"events", "preview"} /\ Init /\ PreviewInit

StreamsNext ==
    \/ kind = "events" /\ Next /\ UNCHANGED <<kind, previewVars>>
    \/ kind = "preview" /\ PreviewNext /\ UNCHANGED <<kind, vars>>

\* Of a preview: purge_content runs every five minutes, time passes, and a
\* stream that is connected goes on, which it can until the page is done; no
\* other step than one of Stream changes conn or screen.
PreviewFairness ==
    /\ WF_previewVars(PurgeClose \/ Age \/ PurgeOld)
    /\ []<>(screen.done \/ kind = "events") \/ []<><<TRUE>>_<<conn, screen>>

StreamsSpec == StreamsInit /\ [][StreamsNext]_streamVars /\ Fairness /\ PreviewFairness

\* A page learns the end, whatever notifications were lost and connections
\* broken.  It is told that a task is settled, and it stops when the sources are
\* revoked, also while it waits (_stream, dispatch); and the end of a task ends
\* its preview, although its close after the completion may be lost and the
\* worker may have stopped: the page is told or gives up, and the frames are
\* removed (purge_content).
EveryPageIsTold == <>[](Told /\ PreviewOver)
===============================================================================
