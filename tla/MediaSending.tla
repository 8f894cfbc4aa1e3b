---------------------------- MODULE MediaSending ----------------------------
(***************************************************************************)
(* Photo and voice messages of the app (chat_media slice): the file goes   *)
(* to object storage first, the row that names it to the messages table    *)
(* second, and no transaction spans the two.                               *)
(***************************************************************************)
CONSTANTS Media,  \* message ids, each also the name of its object
          Photos  \* those of photos; the others are voice messages

ASSUME MediaConstants == Photos \subseteq Media

VARIABLES send,     \* how far the sending of each message has come
          objects,  \* objects in the bucket
          rows,     \* rows of the messages table
          stray,    \* INSERTs the device gave up that may still arrive
          removals  \* objects whose removal is under way

mediaVars == <<send, objects, rows, stray, removals>>

\* picking: the photo is chosen and compressed; stored, refused: what became of
\* the INSERT, its answer being on the way; sent, failed: what the sender is told.
Phases == {"unused", "picking", "uploading", "inserting", "stored", "refused",
           "sent", "failed"}

MediaTypeOK == /\ send \in [Media -> Phases]
               /\ objects \subseteq Media /\ rows \subseteq Media
               /\ stray \subseteq Media /\ removals \subseteq Media

MediaInit == /\ send = [m \in Media |-> "unused"]
             /\ objects = {} /\ rows = {} /\ stray = {} /\ removals = {}

Advance(m, from, to) == send[m] = from /\ send' = [send EXCEPT ![m] = to]

-----------------------------------------------------------------------------

\* Any number of photos may be picked next to each other.
Pick(m) == /\ m \in Photos /\ Advance(m, "unused", "picking")
           /\ UNCHANGED <<objects, rows, stray, removals>>

\* The sender chooses none: nothing happened.
PickNothing(m) ==
    Advance(m, "picking", "unused") /\ UNCHANGED <<objects, rows, stray, removals>>

\* The photo is chosen; compressing it may fail.
Compress(m) == /\ \/ Advance(m, "picking", "uploading")
                  \/ Advance(m, "picking", "failed")
               /\ UNCHANGED <<objects, rows, stray, removals>>

Upload(m) == /\ Advance(m, "uploading", "inserting")
             /\ objects' = objects \cup {m}
             /\ UNCHANGED <<rows, stray, removals>>

\* The upload fails, or its answer is lost: nothing is cleaned up then.
UploadFails(m) == /\ Advance(m, "uploading", "failed")
                  /\ objects' \in {objects, objects \cup {m}}
                  /\ UNCHANGED <<rows, stray, removals>>

Insert(m) == /\ Advance(m, "inserting", "stored")
             /\ rows' = rows \cup {m}
             /\ UNCHANGED <<objects, stray, removals>>

\* The policies refuse the row, or the request is lost on the way.
InsertRefused(m) ==
    Advance(m, "inserting", "refused") /\ UNCHANGED <<objects, rows, stray, removals>>

\* The device gives the INSERT up while it is still on its way.
InsertDelayed(m) == /\ Advance(m, "inserting", "refused")
                    /\ stray' = stray \cup {m}
                    /\ UNCHANGED <<objects, rows, removals>>

StrayArrives(m) == /\ m \in stray
                   /\ stray' = stray \ {m}
                   /\ rows' = rows \cup {m}
                   /\ UNCHANGED <<send, objects, removals>>

AnswerLost(m) ==
    Advance(m, "stored", "refused") /\ UNCHANGED <<objects, rows, stray, removals>>

\* A wrong end: the object is removed in any case.
SentThenRemoved(m) == /\ Advance(m, "stored", "sent")
                      /\ removals' = removals \cup {m}
                      /\ UNCHANGED <<objects, rows, stray>>

Sent(m) == Advance(m, "stored", "sent") /\ UNCHANGED <<objects, rows, stray, removals>>

\* Any error of the INSERT: the object is removed, nobody waits for that.
Failed(m) == /\ Advance(m, "refused", "failed")
             /\ removals' = removals \cup {m}
             /\ UNCHANGED <<objects, rows, stray>>

\* The removal arrives, or fails and is never tried again.
RemoveObject(m) == /\ m \in removals
                   /\ removals' = removals \ {m}
                   /\ objects' \in {objects, objects \ {m}}
                   /\ UNCHANGED <<send, rows, stray>>

\* The steps that end a send for its sender, and the others.
Settle(m)  == UploadFails(m) \/ Sent(m) \/ Failed(m)
Proceed(m) == \/ Pick(m) \/ PickNothing(m) \/ Compress(m) \/ Upload(m)
              \/ Insert(m) \/ InsertRefused(m) \/ InsertDelayed(m)
              \/ StrayArrives(m) \/ AnswerLost(m) \/ RemoveObject(m)

-----------------------------------------------------------------------------

\* A sender told that the message was sent was told the truth, for good: the
\* row is in the table and the file it names in the bucket, whatever removals
\* of failed sends are still under way.
SentIsComplete == \A m \in Media : send[m] = "sent" => m \in rows /\ m \in objects
=============================================================================
