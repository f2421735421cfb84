------------------------------ MODULE UserFiles ------------------------------
(***************************************************************************)
(* Uploaded files: the routes of routes/files.py, the blob store, and the   *)
(* normalizer that puts attachments into a request for a model              *)
(* (content_normalizer.py, vision.py), up to the billing of its side calls. *)
(*                                                                          *)
(* A file is a row of the database and a blob on disk, written and removed  *)
(* one after the other.  A request stands between two of its steps wherever *)
(* it awaits the database, the disk or a model; its process may die there.  *)
(***************************************************************************)
EXTENDS Naturals, FiniteSets

CONSTANTS Users, Files, Requests,
          NoUser, NoFile,
          MaxPages,   \* bound: pages of a scanned document
          Faults      \* subset of {"database", "disk", "died"}

VARIABLES
  rows,       \* file_objects: "none", "live", or "deleted" (deleted_at is set)
  owner,      \* who uploads, or uploaded, the file; NoUser for an unused id
  expired,    \* the files whose expires_at has passed
  blobs,      \* the files with bytes on disk
  marks,      \* history: what went wrong with a file
  pc, who, answer,   \* each request: where it is, its user and its answer
  file,       \* the file it works on, or NoFile
  turn        \* a model's request: the attachment and what becomes of it

stored == <<rows, owner, expired, blobs, marks>>
asked  == <<pc, who, answer, file, turn>>
vars   == <<stored, asked>>

NoTurn == [kind |-> "none", native |-> FALSE, source |-> "none",
           forwarded |-> "none", left |-> 0, stats |-> 0, spent |-> 0]

Init ==
  /\ rows = [f \in Files |-> "none"] /\ owner = [f \in Files |-> NoUser]
  /\ expired = {} /\ blobs = {} /\ marks = [f \in Files |-> {}]
  /\ pc = [r \in Requests |-> "out"] /\ who = [r \in Requests |-> NoUser]
  /\ answer = [r \in Requests |-> "none"]
  /\ file = [r \in Requests |-> NoFile] /\ turn = [r \in Requests |-> NoTurn]

Goes(r, to) == pc' = [pc EXCEPT ![r] = to] /\ UNCHANGED <<who, answer>>

\* The answer is kept, with what it was about, until the slot is used again.
Answers(r, with) ==
  pc' = [pc EXCEPT ![r] = "out"] /\ answer' = [answer EXCEPT ![r] = with] /\ UNCHANGED who

Marked(f, what) == [marks EXCEPT ![f] = @ \cup {what}]

-----------------------------------------------------------------------------
(* POST /v1/files *)

\* A file too large (_read_capped) or empty is turned away before anything is kept.
RefuseUpload(r) == /\ pc[r] = "in" /\ Answers(r, "refused")
                   /\ UNCHANGED <<stored, file, turn>>

\* A new id; the bytes are written by a thread.
Upload(r) ==
  /\ pc[r] = "in" /\ Goes(r, "put")
  /\ \E f \in Files : /\ owner[f] = NoUser
                      /\ owner' = [owner EXCEPT ![f] = who[r]]
                      /\ file' = [file EXCEPT ![r] = f]
  /\ UNCHANGED <<rows, expired, blobs, marks, turn>>

\* FileStore.put; a failed write may leave a part of the file.
Put(r) ==
  /\ pc[r] = "put"
  /\ \/ blobs' = blobs \cup {file[r]} /\ Goes(r, "commit") /\ UNCHANGED marks
     \/ /\ "disk" \in Faults
        /\ blobs' \in {blobs, blobs \cup {file[r]}}
        /\ marks' = Marked(file[r], "disk") /\ Answers(r, "fault")
  /\ UNCHANGED <<rows, owner, expired, file, turn>>

\* The row is committed after the bytes; a commit that fails may have happened.
CommitRow(r) ==
  /\ pc[r] = "commit"
  /\ \/ rows' = [rows EXCEPT ![file[r]] = "live"] /\ Answers(r, "ok") /\ UNCHANGED marks
     \/ /\ "database" \in Faults
        /\ \/ UNCHANGED <<rows, marks>>
           \/ rows' = [rows EXCEPT ![file[r]] = "live"] /\ marks' = Marked(file[r], "answer lost")
        /\ Goes(r, "cleanup")
  /\ UNCHANGED <<owner, expired, blobs, file, turn>>

\* Variant: the bytes of a failed upload are left.
CleanUpNothing(r) ==
  /\ pc[r] = "cleanup" /\ Answers(r, "fault")
  /\ UNCHANGED <<stored, file, turn>>

\* After a failed commit the bytes are dropped, if the disk lets it.
CleanUp(r) ==
  /\ pc[r] = "cleanup" /\ Answers(r, "fault")
  /\ \/ blobs' = blobs \ {file[r]} /\ UNCHANGED marks
     \/ "disk" \in Faults /\ marks' = Marked(file[r], "disk") /\ UNCHANGED blobs
  /\ UNCHANGED <<rows, owner, expired, file, turn>>

-----------------------------------------------------------------------------
(* The other routes of a file *)

\* Variant: the user's files are not told from the others'.
FoundAnyones(f, u) == rows[f] = "live" /\ f \notin expired

\* fetch_file: a live, unexpired row of this user.
Found(f, u) == rows[f] = "live" /\ owner[f] = u /\ f \notin expired

\* list_files, which lists expired files too.
Listed(u) == {f \in Files : rows[f] = "live" /\ owner[f] = u}

\* GET of the metadata, GET of the content, DELETE: the same first step.
Fetch(r) ==
  /\ pc[r] = "in"
  /\ \E f \in Files :
       /\ owner[f] # NoUser
       /\ \/ ~Found(f, who[r]) /\ Answers(r, "not found") /\ UNCHANGED file
          \/ Found(f, who[r]) /\ Answers(r, "ok") /\ UNCHANGED file
          \/ /\ Found(f, who[r]) /\ \E to \in {"read", "erase"} : Goes(r, to)
             /\ file' = [file EXCEPT ![r] = f]
  /\ UNCHANGED <<stored, turn>>

\* get_file_content: the bytes may have gone since.
Read(r) ==
  /\ pc[r] = "read"
  /\ \/ file[r] \in blobs /\ Answers(r, "content")
     \/ file[r] \notin blobs /\ Answers(r, "error")
     \/ "disk" \in Faults /\ Answers(r, "fault")
  /\ UNCHANGED <<stored, file, turn>>

\* delete_file: the row first ...
Erase(r) ==
  /\ pc[r] = "erase"
  /\ \/ rows' = [rows EXCEPT ![file[r]] = "deleted"] /\ Goes(r, "unlink") /\ UNCHANGED marks
     \/ /\ "database" \in Faults /\ Answers(r, "fault")
        /\ \/ UNCHANGED <<rows, marks>>
           \/ rows' = [rows EXCEPT ![file[r]] = "deleted"] /\ marks' = Marked(file[r], "answer lost")
  /\ UNCHANGED <<owner, expired, blobs, file, turn>>

\* ... then the bytes, if they are still there and the disk lets it.
Unlink(r) ==
  /\ pc[r] = "unlink" /\ Answers(r, "ok")
  /\ \/ blobs' = blobs \ {file[r]} /\ UNCHANGED marks
     \/ "disk" \in Faults /\ marks' = Marked(file[r], "disk") /\ UNCHANGED blobs
  /\ UNCHANGED <<rows, owner, expired, file, turn>>

-----------------------------------------------------------------------------
(* An attachment in a request for a model *)

Formats == {"openai", "anthropic", "responses"}

\* _classify and _resolve_from_ref: what is known of an attachment that is not a
\* stored file of the user: its bytes, only that it is one, or nothing.
Source(fmt, kind, src) ==
  IF src = "inline" THEN "bytes"
  ELSE IF fmt = "anthropic" THEN "none"
  ELSE IF kind = "image" /\ src # "file" THEN "none"
  ELSE "nothing"

Forwards(r, what) == turn' = [turn EXCEPT ![r].forwarded = what]

\* _normalize_block for an attachment whose bytes are not fetched from the store.
Unresolved(fmt, kind, src, native) ==
  IF Source(fmt, kind, src) = "nothing" \/ native THEN "block"
  ELSE IF Source(fmt, kind, src) = "bytes" THEN "rendering" ELSE "marker"

\* The request's attachment: a block of its format, a model that takes such
\* blocks or not (resolve_capabilities), and where the bytes are.  The user may
\* name any file there has been.
Classify(r) ==
  /\ pc[r] = "chat"
  /\ \E fmt \in Formats, kind \in {"image", "document"}, native \in BOOLEAN,
        src \in {"file", "inline", "remote", "undecodable"}, f \in Files :
       /\ src = "file" => rows[f] # "none"
       /\ file' = [file EXCEPT ![r] = IF src = "file" THEN f ELSE NoFile]
       /\ LET found == src = "file" /\ Found(f, who[r])
              then  == IF found THEN "fetched" ELSE Unresolved(fmt, kind, src, native)
          IN /\ turn' = [turn EXCEPT ![r] =
                   [NoTurn EXCEPT !.kind = kind, !.native = native, !.forwarded = then,
                                  !.source = IF src = "file" THEN "file" ELSE "other"]]
             /\ Goes(r, IF found THEN "bytes" ELSE IF then = "rendering" THEN "render" ELSE "settle")
  /\ UNCHANGED stored

\* read_file_bytes; any failure leaves the block untouched.
Bytes(r) ==
  /\ pc[r] = "bytes"
  /\ \/ /\ file[r] \in blobs
        /\ IF turn[r].native THEN Forwards(r, "inlined") /\ Goes(r, "settle")
           ELSE Forwards(r, "rendering") /\ Goes(r, "render")
     \/ file[r] \notin blobs /\ Forwards(r, "block") /\ Goes(r, "settle")
     \/ "disk" \in Faults /\ Forwards(r, "failed") /\ Goes(r, "settle")
  /\ UNCHANGED <<stored, file>>

\* _extract_to_text of a document: its text, or the pages of a scanned PDF, or
\* neither; rasterizing may raise.
Extract(r) ==
  /\ pc[r] = "render" /\ turn[r].kind = "document"
  /\ \/ \E what \in {"text", "marker", "failed"} : Forwards(r, what) /\ Goes(r, "settle")
     \/ \E n \in 1..MaxPages : turn' = [turn EXCEPT ![r].left = n] /\ Goes(r, "page")
  /\ UNCHANGED <<stored, file>>

\* An image is its one page.
LookAtImage(r) ==
  /\ pc[r] = "render" /\ turn[r].kind = "image"
  /\ turn' = [turn EXCEPT ![r].left = 1] /\ Goes(r, "page")
  /\ UNCHANGED <<stored, file>>

\* The usage of a describe call, counted whether it said something or not.
Counted(u, said) == u

\* What comes of a look at one page: a description (describe_image, which may be
\* paid for and say nothing), else the text the OCR finds or nothing; either may
\* raise.  A strategy without describing or without OCR has fewer of these.
Looks ==
  {l \in [used : {0, 1}, said : BOOLEAN, read : BOOLEAN, raised : BOOLEAN] :
     Cardinality({x \in {"said", "read", "raised"} : l[x]}) <= 1}

\* _render_image: the attachment is a text when a page gave one.
Page(r) ==
  /\ pc[r] = "page"
  /\ \E look \in Looks :
       /\ LET t    == turn[r]
              left == t.left - 1
              then == IF look.said \/ look.read THEN "text" ELSE t.forwarded
          IN turn' = [turn EXCEPT ![r].stats = @ + Counted(look.used, look.said),
               ![r].spent = @ + look.used,
               ![r].left = IF look.raised THEN 0 ELSE left,
               ![r].forwarded = IF look.raised THEN "failed"
                                ELSE IF left = 0 /\ then = "rendering" THEN "marker" ELSE then]
       /\ Goes(r, IF look.raised \/ turn[r].left = 1 THEN "settle" ELSE "page")
  /\ UNCHANGED <<stored, file>>

\* The reservation is topped up to the new size, which may be refused (403) or
\* fail; then nothing is billed.  Otherwise the side calls are.
Settle(r) ==
  /\ pc[r] = "settle"
  /\ \/ Answers(r, "answered")
     \/ Answers(r, "refused") \/ ("database" \in Faults /\ Answers(r, "fault"))
  /\ UNCHANGED <<stored, file, turn>>

\* A request without attachments is not touched.
PlainChat(r) == /\ pc[r] = "chat" /\ Answers(r, "ok")
                /\ UNCHANGED <<stored, file, turn>>

-----------------------------------------------------------------------------
Expire == /\ \E f \in Files : rows[f] # "none" /\ expired' = expired \cup {f}
          /\ UNCHANGED <<rows, owner, blobs, marks, asked>>

\* The process dies, or the request is cancelled, where it waits: what it waits
\* for happens or does not.
Dies(r) ==
  /\ "died" \in Faults /\ pc[r] \in {"put", "commit", "cleanup", "erase", "unlink"}
  /\ marks' = Marked(file[r], "died") /\ Answers(r, "fault")
  /\ CASE pc[r] = "put"    -> blobs' \in {blobs, blobs \cup {file[r]}} /\ UNCHANGED rows
       [] pc[r] = "commit" -> rows' \in {rows, [rows EXCEPT ![file[r]] = "live"]} /\ UNCHANGED blobs
       [] pc[r] = "erase"  -> rows' \in {rows, [rows EXCEPT ![file[r]] = "deleted"]} /\ UNCHANGED blobs
       [] OTHER            -> blobs' \in {blobs, blobs \ {file[r]}} /\ UNCHANGED rows
  /\ UNCHANGED <<owner, expired, file, turn>>

Next ==
  \/ Expire
  \/ \E r \in Requests :
       \/ RefuseUpload(r) \/ Upload(r) \/ Put(r) \/ CommitRow(r) \/ CleanUp(r)
       \/ Fetch(r) \/ Read(r) \/ Erase(r) \/ Unlink(r)
       \/ Classify(r) \/ Bytes(r) \/ Extract(r) \/ LookAtImage(r) \/ Page(r) \/ Settle(r)
       \/ PlainChat(r) \/ Dies(r)

Spec == Init /\ [][Next]_vars

-----------------------------------------------------------------------------
(***************************************************************************)
(* Properties.                                                             *)
(***************************************************************************)

WorkedOn(f) == \E r \in Requests : pc[r] # "out" /\ file[r] = f

\* A file the user can list has its bytes, unless the commit of its upload was
\* taken for failed; bytes without such a row wait for a request that is still
\* at work, or something went wrong with their file.
StoredIsReachable ==
  /\ \A u \in Users : \A f \in Listed(u) : f \in blobs \/ "answer lost" \in marks[f]
  /\ \A f \in blobs : rows[f] = "live" \/ WorkedOn(f) \/ marks[f] # {}

\* A request gets bytes of its own user's files only, and a file of the user's
\* that is there fails no request and reaches the model: a download that fails,
\* or an attachment left as it was, is of a file that is gone by then, or that
\* something went wrong with.
OwnFilesArrive ==
  \A r \in Requests : pc[r] = "out" =>
    /\ answer[r] = "content" => owner[file[r]] = who[r]
    /\ answer[r] = "error" => ~Found(file[r], who[r]) \/ marks[file[r]] # {}
    /\ answer[r] = "answered" /\ turn[r].source = "file" =>
         /\ turn[r].forwarded \in {"inlined", "text"} => owner[file[r]] = who[r]
         /\ turn[r].forwarded = "block" => ~Found(file[r], who[r]) \/ marks[file[r]] # {}

\* What the describing model was paid for while an attachment was made a text is
\* what the user is billed, also when a later page failed.
VisionIsBilled ==
  \A r \in Requests : pc[r] = "out" /\ answer[r] = "answered" => turn[r].stats = turn[r].spent

=============================================================================
