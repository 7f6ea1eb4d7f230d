----------------------------- MODULE ObjectClient -----------------------------
(***************************************************************************)
(* ObjectStoreClient on one path: plain and streaming uploads, the caller- *)
(* driven multipart upload, delete and the downloads.  The store itself is *)
(* external: it swaps an object in one step, keeps an upload's parts until *)
(* the upload is completed or aborted, and serves a download from the      *)
(* object the request found.  A request may fail after it took effect.     *)
(*                                                                         *)
(* An uploader's content is a sequence of units, a full part is PartSize   *)
(* of them, and an ETag is a function of the content.                      *)
(***************************************************************************)
EXTENDS Integers, Sequences, FiniteSets, SequencesExt

CONSTANTS
  Uploaders,   \* callers that upload, each its own content
  Size,        \* the units of each uploader's content
  PartSize,    \* PART_SIZE, 64 MiB in the code
  Nothing      \* no object, no upload

ASSUME ClientAssumption ==
  /\ Size \in [Uploaders -> Nat]
  /\ PartSize \in Nat \ {0}

Content(u) == [i \in 1..Size[u] |-> <<u, i>>]

VARIABLES
  object,     \* the object at the path
  uploads,    \* the parts of each uploader's open multipart upload
  phase,      \* what each uploader does next
  buf,        \* the units upload_stream has read and not sent
  taken,      \* how many units upload_stream has read
  reading,    \* the reader's download: the object it found and how much it has
  copy,       \* the reader's last complete download, and its ETag
  abandoned,  \* history: uploads left open by a caller that died or whose abort failed
  unanswered, \* history: uploads that are open, but the answer that said so was lost
  partial     \* history: uploads that were completed with parts left out

history   == <<abandoned, unanswered, partial>>
storeVars == <<object, uploads, phase, buf, taken, reading, copy, history>>

StoreInit ==
  /\ object = Nothing
  /\ uploads = [u \in Uploaders |-> Nothing]
  /\ phase = [u \in Uploaders |-> "idle"]
  /\ buf = [u \in Uploaders |-> <<>>]
  /\ taken = [u \in Uploaders |-> 0]
  /\ reading = Nothing
  /\ copy = Nothing
  /\ abandoned = {}
  /\ unanswered = {}
  /\ partial = {}

Go(u, p) == phase' = [phase EXCEPT ![u] = p]

\* The call is over and its buffer gone.
Leave(u) ==
  /\ Go(u, "idle")
  /\ buf' = [buf EXCEPT ![u] = <<>>]
  /\ taken' = [taken EXCEPT ![u] = 0]

-----------------------------------------------------------------------------
(* upload_stream.                                                          *)

\* The create of a multipart upload.  One that fails before it takes effect changes
\* nothing; if only its answer is lost the call is over as well, and nobody has the
\* upload's id.  An uploader with an upload still open makes no further one here.
Create(u, p) ==
  /\ phase[u] = "idle"
  /\ uploads[u] = Nothing
  /\ uploads' = [uploads EXCEPT ![u] = <<>>]
  /\ \/ Go(u, p) /\ UNCHANGED unanswered
     \/ unanswered' = unanswered \cup {u} /\ UNCHANGED phase
  /\ UNCHANGED <<object, buf, taken, reading, copy, abandoned, partial>>

UploadStream(u) == Create(u, "read")

\* One round of the stream: n more units, its end, or its error.
ReadChunk(u, n) ==
  LET b == buf[u] \o SubSeq(Content(u), taken[u] + 1, taken[u] + n) IN
  /\ phase[u] = "read"
  /\ taken[u] + n <= Size[u]
  /\ buf' = [buf EXCEPT ![u] = b]
  /\ taken' = [taken EXCEPT ![u] = @ + n]
  /\ Go(u, IF Len(b) >= PartSize THEN "part" ELSE "read")
  /\ UNCHANGED <<object, uploads, reading, copy, history>>

\* Mutant: what is left in the buffer at the end is forgotten.
StreamEndUnflushed(u) ==
  /\ phase[u] = "read"
  /\ \/ taken[u] = Size[u] /\ Go(u, "complete")
     \/ Go(u, "abort")
  /\ UNCHANGED <<object, uploads, buf, taken, reading, copy, history>>

StreamEnd(u) ==
  /\ phase[u] = "read"
  /\ \/ taken[u] = Size[u] /\ Go(u, IF buf[u] = <<>> THEN "complete" ELSE "last")
     \/ Go(u, "abort")
  /\ UNCHANGED <<object, uploads, buf, taken, reading, copy, history>>

\* A full part while the buffer holds one, and the rest as the last part.
PutPart(u) ==
  LET n    == IF phase[u] = "part" THEN PartSize ELSE Len(buf[u])
      rest == SubSeq(buf[u], n + 1, Len(buf[u]))
  IN
  /\ phase[u] \in {"part", "last"}
  /\ \/ /\ uploads' = [uploads EXCEPT ![u] = Append(@, SubSeq(buf[u], 1, n))]
        /\ buf' = [buf EXCEPT ![u] = rest]
        /\ Go(u, IF phase[u] = "last" THEN "complete"
                 ELSE IF Len(rest) >= PartSize THEN "part" ELSE "read")
     \/ Go(u, "abort") /\ UNCHANGED <<uploads, buf>>
  /\ UNCHANGED <<object, taken, reading, copy, history>>

\* Mutant: an error of complete is returned without an abort.
CompleteUnaborted(u) ==
  /\ phase[u] = "complete"
  /\ \/ object' = FlattenSeq(uploads[u]) /\ uploads' = [uploads EXCEPT ![u] = Nothing]
     \/ UNCHANGED <<object, uploads>>
  /\ Leave(u)
  /\ UNCHANGED <<reading, copy, history>>

\* complete: answered, lost after it took effect, or refused.
Complete(u) ==
  /\ phase[u] = "complete"
  /\ \/ /\ object' = FlattenSeq(uploads[u])
        /\ uploads' = [uploads EXCEPT ![u] = Nothing]
        /\ \/ Leave(u)
           \/ Go(u, "abort") /\ UNCHANGED <<buf, taken>>
     \/ Go(u, "abort") /\ UNCHANGED <<object, uploads, buf, taken>>
  /\ UNCHANGED <<reading, copy, history>>

\* The caller is gone, and its upload with nobody to end it if it was open.
Abandon(u) ==
  /\ abandoned' = IF uploads[u] = Nothing THEN abandoned ELSE abandoned \cup {u}
  /\ UNCHANGED uploads

\* The abort takes effect, or fails and its error is ignored.
Abort(u) ==
  /\ phase[u] = "abort"
  /\ \/ uploads' = [uploads EXCEPT ![u] = Nothing] /\ UNCHANGED abandoned
     \/ Abandon(u)
  /\ Leave(u)
  /\ UNCHANGED <<object, reading, copy, unanswered, partial>>

\* The process dies, or the caller drops the future.
Die(u) ==
  /\ phase[u] # "idle"
  /\ Abandon(u)
  /\ Leave(u)
  /\ UNCHANGED <<object, reading, copy, unanswered, partial>>

-----------------------------------------------------------------------------
(* The multipart upload its caller drives: parts go up through presigned   *)
(* URLs in any order, and the completion lists them in any order.          *)

Parts(u) == 1..((Size[u] + PartSize - 1) \div PartSize)

PartOf(u, i) == SubSeq(Content(u), (i - 1) * PartSize + 1,
                       IF i * PartSize < Size[u] THEN i * PartSize ELSE Size[u])

\* initiate_multipart_upload, and a URL for each part.
InitiateMultipartUpload(u) == Create(u, "parts")

\* PUT through a presigned URL; the caller notes the part's number.
PresignedPut(u, i) ==
  /\ phase[u] = "parts"
  /\ uploads[u] # Nothing
  /\ \A k \in DOMAIN uploads[u] : uploads[u][k].number # i
  /\ uploads' = [uploads EXCEPT ![u] = Append(@, [number |-> i, data |-> PartOf(u, i)])]
  /\ UNCHANGED <<object, phase, buf, taken, reading, copy, history>>

\* The lists of numbers of S that go up, with one number at least.
Ascending(S) ==
  UNION {{ns \in [1..n -> S] : \A i, j \in 1..n : i < j => ns[i] < ns[j]} :
           n \in 1..Cardinality(S)}

Numbers(ps) == {ps[k].number : k \in DOMAIN ps}

PartNumbered(ps, i) == (CHOOSE p \in ToSet(ps) : p.number = i).data

\* complete_multipart_upload.  An empty list is refused before any request; the
\* caller may list any of the parts that are there, and the list is sorted by part
\* number.  One that fails without an effect changes nothing; after one whose answer
\* was lost the caller may try again, and finds no upload.
CompleteMultipartUpload(u) ==
  /\ phase[u] = "parts"
  /\ uploads[u] # Nothing
  /\ \E ns \in Ascending(Numbers(uploads[u])) :
       /\ object' = FlattenSeq([k \in DOMAIN ns |-> PartNumbered(uploads[u], ns[k])])
       /\ partial' = IF \A i \in Parts(u) : \E k \in DOMAIN ns : ns[k] = i
                     THEN partial ELSE partial \cup {u}
  /\ uploads' = [uploads EXCEPT ![u] = Nothing]
  /\ Leave(u) \/ UNCHANGED <<phase, buf, taken>>
  /\ UNCHANGED <<reading, copy, abandoned, unanswered>>

\* abort_multipart_upload; its caller may take an error for the end as well.
AbortMultipartUpload(u) ==
  /\ phase[u] = "parts"
  /\ \/ uploads' = [uploads EXCEPT ![u] = Nothing] /\ UNCHANGED abandoned
     \/ Abandon(u)
  /\ Leave(u)
  /\ UNCHANGED <<object, reading, copy, unanswered, partial>>

-----------------------------------------------------------------------------
(* Whole-object writes.                                                    *)

\* upload; one that fails before it takes effect changes nothing.
Upload(u) ==
  /\ phase[u] = "idle"
  /\ object' = Content(u)
  /\ UNCHANGED <<uploads, phase, buf, taken, reading, copy, history>>

Delete ==
  /\ object # Nothing
  /\ object' = Nothing
  /\ UNCHANGED <<uploads, phase, buf, taken, reading, copy, history>>

-----------------------------------------------------------------------------
(* Downloads.                                                              *)

\* download, download_with_etag and download_stream: the GET finds the object.
Download ==
  /\ reading = Nothing
  /\ object # Nothing
  /\ reading' = [body |-> object, got |-> 0]
  /\ UNCHANGED <<object, uploads, phase, buf, taken, copy, history>>

\* download_if_changed: If-None-Match on the copy's ETag.
DownloadIfChanged ==
  /\ reading = Nothing
  /\ copy # Nothing
  /\ object \notin {Nothing, copy}
  /\ reading' = [body |-> object, got |-> 0]
  /\ UNCHANGED <<object, uploads, phase, buf, taken, copy, history>>

\* More of the body arrives; the last of it is the download's Ok.
Receive ==
  /\ reading # Nothing
  /\ \/ /\ reading.got < Len(reading.body)
        /\ reading' = [reading EXCEPT !.got = @ + 1]
        /\ UNCHANGED copy
     \/ /\ reading.got = Len(reading.body)
        /\ copy' = reading.body
        /\ reading' = Nothing
     \/ reading' = Nothing /\ UNCHANGED copy
  /\ UNCHANGED <<object, uploads, phase, buf, taken, history>>

UploadNext(u) ==
  \/ UploadStream(u) \/ StreamEnd(u) \/ PutPart(u) \/ Complete(u) \/ Abort(u)
  \/ \E n \in 1..Size[u] : ReadChunk(u, n)
  \/ Die(u)
  \/ InitiateMultipartUpload(u) \/ CompleteMultipartUpload(u) \/ AbortMultipartUpload(u)
  \/ \E i \in Parts(u) : PresignedPut(u, i)
  \/ Upload(u)

StoreNext ==
  \/ \E u \in Uploaders : UploadNext(u)
  \/ Delete \/ Download \/ DownloadIfChanged \/ Receive

StoreSpec == StoreInit /\ [][StoreNext]_storeVars

-----------------------------------------------------------------------------
(* Properties.                                                             *)

\* What the parts of u come to when some are left out.
Assembled(u) ==
  {FlattenSeq([k \in DOMAIN ns |-> PartOf(u, ns[k])]) : ns \in Ascending(Parts(u))}

\* b is one uploader's whole content, or what its completion listed of it.
FromUploader(b) ==
  \E u \in Uploaders : b = Content(u) \/ (u \in partial /\ b \in Assembled(u))

\* The path holds one uploader's whole content or nothing, and so does every copy a
\* reader completed, whatever failed or died half way; only a caller that lists a
\* part of its parts gets what it listed, in the order of the part numbers.
WholeOrNothing ==
  /\ object # Nothing => FromUploader(object)
  /\ copy # Nothing => FromUploader(copy)

\* A multipart upload that nobody drives any more is gone from the store, unless its
\* caller died or the abort itself failed; or the create's answer was lost, and then
\* no part was ever put in it.
NothingLeftOpen ==
  \A u \in Uploaders : phase[u] = "idle" /\ uploads[u] # Nothing =>
    u \in abandoned \/ (u \in unanswered /\ uploads[u] = <<>>)
===============================================================================
