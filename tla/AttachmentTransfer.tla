------------------------- MODULE AttachmentTransfer -------------------------
(***************************************************************************)
(* The transfer of one event's attachments: the completion-aware flow of   *)
(* the sender (bmo/features/imessage_relay/relay/sender.py), and the       *)
(* upload rows and private files of the kiosk (receiver/store.py).         *)
(*                                                                         *)
(* The kiosk writes a chunk to a file and then commits the new offset to   *)
(* its database; the two can fail between one another.  The source file    *)
(* may be edited while it is read, and the kiosk may process a chunk after *)
(* its sender gave up on it and started again.                             *)
(*                                                                         *)
(* A source file's content is represented by its version: every byte of it *)
(* carries the version it was read at, and the SHA-256 digest of a file    *)
(* that is all of one version is that version.  An edit keeps the size.    *)
(***************************************************************************)
EXTENDS Integers, Sequences

CONSTANTS
  BlobCount,  \* attachments or Live Photo components of the event
  Size,       \* expected_bytes of each blob
  ChunkSize,  \* MAX_ATTACHMENT_CHUNK_BYTES
  MaxEdits,   \* bound on the edits of the source files
  MaxFaults   \* bound on losses, timeouts, crashes and failed commits

Blob == 1 .. BlobCount

ASSUME TransferConstantsAssumption ==
  /\ BlobCount \in Nat \ {0}
  /\ Size \in [Blob -> Nat]
  /\ ChunkSize \in Nat \ {0}
  /\ MaxEdits \in Nat /\ MaxFaults \in Nat

VARIABLES
  source,    \* version of each source file
  event,     \* unknown, in pending_events, or in received_events
  upload,    \* the rows of attachment_uploads
  fileBytes,      \* the bytes of the private upload files
  sender,    \* the delivery attempt: its step and its open source file
  requests,  \* requests not yet processed by the kiosk
  reply,     \* the answer on its way to the sender
  faults

kioskVars == <<event, upload, fileBytes>>
transferVars == <<source, kioskVars, sender, requests, reply, faults>>

Unknown == -1   \* no digest yet, and the byte of a hole in a file
Version == 0 .. MaxEdits

Row == [status : {"absent", "awaiting", "partial", "complete"},
        received : Nat, digest : Version \cup {Unknown}]

RequestStep == [kind : {"event", "session", "chunk"}, blob : Blob, offset : Nat,
            version : Version, late : 0 .. MaxFaults]

NoReply == [result |-> "none", next |-> 0]
Idle == [step |-> "idle", blob |-> 1, version |-> 0, offset |-> 0]

TransferInit ==
  /\ source = [b \in Blob |-> 0]
  /\ event = "unknown"
  /\ upload = [b \in Blob |-> [status |-> "absent", received |-> 0, digest |-> Unknown]]
  /\ fileBytes = [b \in Blob |-> <<>>]
  /\ sender = Idle
  /\ requests = {}
  /\ reply = NoReply
  /\ faults = 0

EditSource(b) ==
  /\ source[b] < MaxEdits
  /\ source' = [source EXCEPT ![b] = @ + 1]
  /\ UNCHANGED <<kioskVars, sender, requests, reply, faults>>
-----------------------------------------------------------------------------
(* The sender.  It waits for the answer to each request before the next.   *)

Length(b, offset) ==
  IF offset + ChunkSize <= Size[b] THEN ChunkSize ELSE Size[b] - offset

\* The digest of an empty file does not depend on its version.
Digest(b) == IF Size[b] = 0 THEN 0 ELSE source[b]

Post(kind, b, offset, version) ==
  /\ requests' = requests \cup
       {[kind |-> kind, blob |-> b, offset |-> offset, version |-> version, late |-> 0]}
  /\ reply' = NoReply

Start ==
  /\ sender.step = "idle"
  /\ sender' = [Idle EXCEPT !.step = "event"]
  /\ Post("event", 1, 0, 0)

\* _upload_attachment: open and hash the source file, then ask for a session.
Open(b) ==
  /\ sender' = [step |-> "session", blob |-> b, version |-> Digest(b), offset |-> 0]
  /\ Post("session", b, 0, Digest(b))

\* The attempt is recorded as failed; a later attempt starts from the event.
Abandon == sender' = Idle /\ reply' = NoReply /\ UNCHANGED requests

\* The kiosk has everything up to the offset: send the next chunk, or close
\* the file, which must be the file that was hashed, and go on.
Proceed(offset) ==
  LET b == sender.blob
  IN  \/ /\ offset < Size[b]
         /\ sender' = [sender EXCEPT !.step = "chunk", !.offset = offset]
         /\ Post("chunk", b, offset, source[b])
      \/ offset = Size[b] /\ Digest(b) # sender.version /\ Abandon
      \/ /\ offset = Size[b] /\ Digest(b) = sender.version
         /\ \/ b < BlobCount /\ Open(b + 1)
            \/ /\ b = BlobCount
               /\ sender' = [Idle EXCEPT !.step = "final"]
               /\ Post("event", 1, 0, 0)

TakeReply ==
  /\ reply # NoReply
  /\ \/ /\ reply.result = "received"
        /\ sender' = [Idle EXCEPT !.step = "acknowledged"]
        /\ reply' = NoReply /\ UNCHANGED requests
     \/ reply.result = "pending" /\ sender.step = "event" /\ Open(1)
     \/ reply.result = "pending" /\ sender.step = "final" /\ Abandon
     \/ reply.result = "error" /\ Abandon
     \/ reply.result = "ready" /\ sender.step = "session" /\ Proceed(reply.next)
     \/ /\ reply.result = "ready" /\ sender.step = "chunk"
        /\ IF reply.next = sender.offset + Length(sender.blob, sender.offset)
           THEN Proceed(reply.next)
           ELSE Abandon

\* Nothing will come: the request or its answer was lost.
TimeOut ==
  /\ sender.step \notin {"idle", "acknowledged"}
  /\ reply = NoReply
  /\ \A q \in requests : q.late > 0
  /\ Abandon

SenderStep == (Start \/ TakeReply \/ TimeOut) /\ UNCHANGED <<source, kioskVars, faults>>

\* The sender gives up, or the relay crashes, with its request still to be
\* processed; the kiosk may do so at any later time.
GiveUp(q) ==
  /\ q \in requests /\ q.late = 0
  /\ faults < MaxFaults /\ faults' = faults + 1
  /\ requests' = (requests \ {q}) \cup {[q EXCEPT !.late = faults + 1]}
  /\ sender' = Idle
  /\ UNCHANGED <<source, kioskVars, reply>>
-----------------------------------------------------------------------------
(* The kiosk.  Each handler runs under the store's lock in one transaction. *)

Answer(q, result, next) ==
  /\ requests' = requests \ {q}
  /\ reply' = IF q.late = 0 THEN [result |-> result, next |-> next] ELSE reply

AllComplete == \A b \in Blob : upload[b].status = "complete"

\* ReceiverStateStore.ingest: pending until every blob is complete.
HandleEvent(q) ==
  /\ q.kind = "event"
  /\ UNCHANGED fileBytes
  /\ \/ /\ event = "unknown"
        /\ event' = "pending"
        /\ upload' = [b \in Blob |-> [upload[b] EXCEPT !.status = "awaiting"]]
        /\ Answer(q, "pending", 0)
     \/ /\ event = "pending" /\ ~AllComplete
        /\ UNCHANGED <<event, upload>>
        /\ Answer(q, "pending", 0)
     \/ /\ event = "pending" /\ AllComplete
        /\ event' = "received"
        /\ UNCHANGED upload
        /\ Answer(q, "received", 0)
     \/ /\ event = "received"
        /\ UNCHANGED <<event, upload>>
        /\ Answer(q, "received", 0)

\* _normalize_upload_file: drop an uncommitted tail, or find bytes missing.
Short(b) == Len(fileBytes[b]) < upload[b].received
Durable(b) == SubSeq(fileBytes[b], 1, upload[b].received)

\* A session may change the digest only while nothing of the blob is durable.
\* (A way to get it wrong: refuse after a reset as well.)
EveryChangeRefused(q) == upload[q.blob].digest \notin {Unknown, q.version}
DigestRefused(q) ==
  upload[q.blob].digest \notin {Unknown, q.version} /\ upload[q.blob].received # 0

Bound(q) ==
  [upload[q.blob] EXCEPT
     !.digest = q.version,
     !.status = IF Size[q.blob] = 0 THEN "complete" ELSE IF @ = "awaiting" THEN "partial" ELSE @]

\* begin_attachment_upload
HandleSession(q) ==
  /\ q.kind = "session"
  /\ UNCHANGED event
  /\ IF event # "pending" \/ DigestRefused(q) \/ Short(q.blob)
     THEN UNCHANGED <<upload, fileBytes>> /\ Answer(q, "error", 0)
     ELSE /\ fileBytes' = [fileBytes EXCEPT ![q.blob] = Durable(q.blob)]
          /\ upload' = [upload EXCEPT ![q.blob] = Bound(q)]
          /\ Answer(q, "ready", upload[q.blob].received)

Bytes(q) == [i \in 1 .. Length(q.blob, q.offset) |-> q.version]
Written(q) == Durable(q.blob) \o Bytes(q)
NextOffset(q) == q.offset + Length(q.blob, q.offset)

\* What a chunk at the durable offset makes of its blob.
Unverified(q) == FALSE
Mismatch(q) ==
  NextOffset(q) = Size[q.blob] /\ \E i \in 1 .. Size[q.blob] : Written(q)[i] # upload[q.blob].digest
FileAfter(q) == IF Mismatch(q) THEN <<>> ELSE Written(q)
RowAfter(q) ==
  [upload[q.blob] EXCEPT
     !.received = IF Mismatch(q) THEN 0 ELSE NextOffset(q),
     !.status = IF Mismatch(q) \/ NextOffset(q) < Size[q.blob] THEN "partial" ELSE "complete"]

\* A chunk before the durable offset must repeat what is there.
Replayed(q) ==
  /\ NextOffset(q) <= upload[q.blob].received
  /\ SubSeq(Durable(q.blob), q.offset + 1, NextOffset(q)) = Bytes(q)

\* A chunk that will be appended, unless something fails.
Appends(q) ==
  q.kind = "chunk" /\ ~Short(q.blob) /\ q.offset = upload[q.blob].received

\* append_attachment_chunk
HandleChunk(q) ==
  /\ q.kind = "chunk"
  /\ UNCHANGED event
  /\ \/ /\ Appends(q)
        /\ fileBytes' = [fileBytes EXCEPT ![q.blob] = FileAfter(q)]
        /\ upload' = [upload EXCEPT ![q.blob] = RowAfter(q)]
        /\ Answer(q, IF Mismatch(q) THEN "error" ELSE "ready", NextOffset(q))
     \/ /\ ~Short(q.blob) /\ q.offset # upload[q.blob].received
        /\ fileBytes' = [fileBytes EXCEPT ![q.blob] = Durable(q.blob)]
        /\ UNCHANGED upload
        /\ Answer(q, IF Replayed(q) THEN "ready" ELSE "error", upload[q.blob].received)
     \/ Short(q.blob) /\ UNCHANGED <<upload, fileBytes>> /\ Answer(q, "error", 0)

Handle(q) ==
  /\ HandleEvent(q) \/ HandleSession(q) \/ HandleChunk(q)
  /\ UNCHANGED <<source, sender, faults>>
-----------------------------------------------------------------------------
(* Faults of the kiosk and of the network.                                 *)

Fault == faults < MaxFaults /\ faults' = faults + 1 /\ UNCHANGED <<source, event, sender>>

\* What a kiosk that stops in append_attachment_chunk leaves behind: the file
\* is flushed before the row is committed, never the other way round.
LeftBehind(q) == [bytes |-> FileAfter(q), row |-> upload[q.blob]]

CrashInChunk(q) ==
  /\ Appends(q)
  /\ fileBytes' = [fileBytes EXCEPT ![q.blob] = LeftBehind(q).bytes]
  /\ upload' = [upload EXCEPT ![q.blob] = LeftBehind(q).row]
  /\ requests' = requests \ {q}
  /\ UNCHANGED reply
  /\ Fault

\* The write or the commit fails; the file is cut back to its prior size, and
\* a file emptied by a digest mismatch is extended to it with zero bytes.
FailInChunk(q) ==
  /\ Appends(q)
  /\ \/ fileBytes' = [fileBytes EXCEPT ![q.blob] = Durable(q.blob)]
     \/ /\ Mismatch(q)
        /\ fileBytes' = [fileBytes EXCEPT ![q.blob] = [i \in 1 .. upload[q.blob].received |-> Unknown]]
  /\ UNCHANGED upload
  /\ Answer(q, "error", 0)
  /\ Fault

\* A request is lost, refused, or found the kiosk down ...
LoseRequest(q) ==
  /\ requests' = requests \ {q}
  /\ UNCHANGED <<upload, fileBytes, reply>>
  /\ Fault

\* ... or its answer is lost.
LoseReply ==
  /\ reply # NoReply
  /\ reply' = NoReply
  /\ UNCHANGED <<upload, fileBytes, requests>>
  /\ Fault
-----------------------------------------------------------------------------
Kiosk(late) == \E q \in requests : (q.late > 0) = late /\ Handle(q)

TransferNext ==
  \/ \E b \in Blob : EditSource(b)
  \/ SenderStep
  \/ \E late \in BOOLEAN : Kiosk(late)
  \/ \E q \in requests : GiveUp(q) \/ CrashInChunk(q) \/ FailInChunk(q) \/ LoseRequest(q)
  \/ LoseReply

TransferSpec == TransferInit /\ [][TransferNext]_transferVars

\* The sender retries (its queue does, and an operator after a dead letter),
\* and the kiosk processes the request that is waited for.
FairTransferSpec == TransferSpec /\ WF_transferVars(SenderStep) /\ WF_transferVars(Kiosk(FALSE))
-----------------------------------------------------------------------------
\* Types, and what a row says of its blob: complete means all of it.
TransferTyped ==
  /\ source \in [Blob -> Version]
  /\ event \in {"unknown", "pending", "received"}
  /\ upload \in [Blob -> Row]
  /\ fileBytes \in [Blob -> Seq(Version \cup {Unknown})]
  /\ sender \in [step : {"idle", "event", "session", "chunk", "final", "acknowledged"},
                 blob : Blob, version : Version, offset : Nat]
  /\ requests \subseteq RequestStep
  /\ reply \in [result : {"none", "pending", "received", "ready", "error"}, next : Nat]
  /\ faults \in 0 .. MaxFaults
RowsHold ==
  \A b \in Blob :
    /\ (event = "unknown") = (upload[b].status = "absent")
    /\ upload[b].received <= Size[b] /\ Len(fileBytes[b]) <= Size[b]
    /\ upload[b].status = "complete" => upload[b].received = Size[b]
    /\ upload[b].received > 0 => upload[b].digest # Unknown
TransferTypeOK == TransferTyped /\ RowsHold

\* A kiosk that acknowledges an event holds every blob exactly as the sender
\* hashed it, all of one version of its source, although the source was edited
\* while it was read, and chunks came late, twice, or after a crash.
ReceivedIsIntact ==
  /\ sender.step = "acknowledged" => event = "received"
  /\ event = "received" =>
       \A b \in Blob :
         /\ upload[b].status = "complete"
         /\ Len(fileBytes[b]) = Size[b]
         /\ \A i \in 1 .. Size[b] : fileBytes[b][i] = upload[b].digest

\* No later session, late chunk or failure ever touches a complete blob.
CompleteIsFinal ==
  [][\A b \in Blob :
       upload[b].status = "complete" =>
         upload'[b] = upload[b] /\ fileBytes'[b] = fileBytes[b]]_transferVars

\* The durable offset is never ahead of the file but for one interrupted step:
\* the file was emptied after a digest mismatch and the offset was not.
OffsetBackedUnlessReset == \A b \in Blob : Short(b) => fileBytes[b] = <<>>

\* "If a process stops after the file write but before the database commit,
\* reopening truncates the file to the last durable offset"
\* (agent_docs/plugins/imessage_relay/components/attachment_transfer.md), so
\* the file is never shorter than that offset.
OffsetIsBacked == \A b \in Blob : ~Short(b)

\* Blobs no attempt can complete: the source was edited after a part of it was
\* durable, or an interrupted reset left bytes missing.
Stuck(b) ==
  \/ Short(b)
  \/ upload[b].received # 0 /\ upload[b].digest # Digest(b)

\* With finitely many faults and edits an event that keeps being retried is
\* received in the end, unless one of its blobs is stuck for good.
EventuallyReceived ==
  <>(event = "received") \/ <>[](\E b \in Blob : Stuck(b))

\* What the kiosk promises of the attachments it takes: no step spoils a blob,
\* and what is acknowledged is whole.
BlobsAreKept ==
  [](TransferTypeOK /\ ReceivedIsIntact /\ OffsetBackedUnlessReset) /\ CompleteIsFinal
=============================================================================
