--------------------------------- MODULE S3 ---------------------------------
(***************************************************************************)
(* BucketFS (fs/s3): one call of its methods, or the use of one open file, *)
(* on a bucket that another client may write to meanwhile.  Every request  *)
(* to the service is a step: it succeeds, fails, or takes effect with its  *)
(* answer lost, and it fails once the caller's context is cancelled.       *)
(*                                                                         *)
(* A key is a sequence of names, written as numbers that order like them.  *)
(* A byte is [v, i, n], byte i of the n bytes of the v-th version that was *)
(* written to the bucket, so a file put together from pieces shows where   *)
(* each came from.  Part sizes, part counts and page sizes are small.      *)
(***************************************************************************)
EXTENDS Naturals, Sequences, FiniteSets

SE == INSTANCE SequencesExt

CONSTANTS
    Keys,        \* keys that may be in the bucket
    Buckets,     \* initial buckets: functions from keys to sizes
    Dirs,        \* directories that calls name; <<>> is "."
    Targets,     \* keys written, copied to and removed
    Sizes,       \* sizes of what the calls and the other client write
    MaxKeys,     \* keys in a page of a listing
    MaxCopy,     \* largest source of CopyObject
    MinRange,    \* a range is copied only of a source that is larger
    PartSize, MinPartSize, DefaultPartSize, Increment, MaxParts,
    Concurrency, DefaultConcurrency,   \* of MultiCopier; 0 when the option is not set
    MaxOther     \* bound: writes and removals of the other client

\* Dirs holds prefixes of keys, a bucket finitely many keys, and the sizes are numbers:
\* 5 MB is below the 32 MB of a part by default and the 5 GB of CopyObject.
ASSUME S3Assumption ==
    /\ Keys \cup Dirs \subseteq Seq(Nat)
    /\ Targets \subseteq Keys
    /\ Sizes \subseteq Nat
    /\ \A b \in Buckets :
          DOMAIN b \subseteq Keys /\ IsFiniteSet(DOMAIN b) /\ b \in [DOMAIN b -> Nat]
    /\ MaxKeys \in Nat \ {0} /\ MaxCopy \in Nat /\ MinRange \in 0..MaxCopy
    /\ {MinPartSize, DefaultPartSize, Increment, MaxParts, DefaultConcurrency} \subseteq Nat \ {0}
    /\ {PartSize, Concurrency} \subseteq Nat /\ MinPartSize <= DefaultPartSize

VARIABLES
    bucket,      \* key -> [etag, data]
    upload,      \* the multipart upload: [state, parts]
    call,        \* the call in progress
    cancelled,   \* the caller's context is done
    file,        \* the s3File, or NoFile
    version,     \* history: versions written so far
    was,         \* history: the bucket when the call began
    touched,     \* history: keys that another client wrote or removed since then
    lost,        \* history: kinds of requests that failed
    bytes        \* history: what Read returned last, where, and what was opened

vars == <<bucket, upload, call, cancelled, file, version, was, touched, lost, bytes>>

-----------------------------------------------------------------------------
(* The service *)

Data(v, n) == [i \in 1..n |-> [v |-> v, i |-> i, n |-> n]]
NoUpload == [state |-> "none", parts |-> <<>>]
NoFile == [key |-> <<>>]

With(f, k, x) == [j \in DOMAIN f \cup {k} |-> IF j = k THEN x ELSE f[j]]
Put(k, data) == bucket' = With(bucket, k, [etag |-> version + 1, data |-> data])
Drop(k) == bucket' = [j \in DOMAIN bucket \ {k} |-> bucket[j]]

\* A request of kind k ends as o; with effect when the service carried it out.
Outcomes == IF cancelled THEN {"fail"} ELSE {"ok", "fail", "applied"}
Ended(k, o) == lost' = IF o = "ok" THEN lost ELSE lost \cup {k}
Applied(o) == o \in {"ok", "applied"}

Before(j, k) ==
    \/ SE!IsStrictPrefix(j, k)
    \/ \E i \in DOMAIN j \cap DOMAIN k : SubSeq(j, 1, i - 1) = SubSeq(k, 1, i - 1) /\ j[i] < k[i]

\* The members of S in order: the i-th of them has i - 1 members before it.
Ordered(S) ==
    [i \in 1..Cardinality(S) |-> CHOOSE e \in S : Cardinality({f \in S : Before(f, e)}) = i - 1]

Under(dir, keys) == {k \in keys : SE!IsStrictPrefix(dir, k)}

\* What a listing of dir shows for key k: the key, or with a delimiter what it has
\* next to the prefix.
Shown(dir, k, delim) == IF delim THEN SubSeq(k, 1, Len(dir) + 1) ELSE k
AllShown(dir, keys, delim) == {Shown(dir, k, delim) : k \in Under(dir, keys)}

\* ListObjectsV2: the first entries behind the continuation token, which is the last
\* entry of the page before and <<>> for none.
ListObjects(dir, delim, token) ==
    LET rest == {e \in AllShown(dir, DOMAIN bucket, delim) : token = <<>> \/ Before(token, e)}
        all == Ordered(rest)
        page == SubSeq(all, 1, IF Len(all) < MaxKeys THEN Len(all) ELSE MaxKeys)
    IN  [page |-> page, token |-> IF Len(all) > MaxKeys THEN SE!Last(page) ELSE <<>>]

-----------------------------------------------------------------------------
Init ==
    /\ \E b \in Buckets :
           bucket = [k \in DOMAIN b |-> [etag |-> 1, data |-> Data(1, b[k])]]
    /\ upload = NoUpload
    /\ call = [op |-> "none", at |-> "idle"]
    /\ cancelled = FALSE
    /\ file = NoFile
    /\ version = 1
    /\ was = bucket
    /\ touched = {}
    /\ lost = {}
    /\ bytes = [at |-> 0, want |-> <<>>, data |-> <<>>]

Begin(c) ==
    /\ call.at = "idle"
    /\ call' = c
    /\ was' = bucket
    /\ touched' = {}
    /\ UNCHANGED <<bucket, upload, cancelled, file, version, lost, bytes>>

Return(res) == call' = [call EXCEPT !.at = "done", !.res = res]
Hist == <<was, touched>>

\* The caller gives up.
Cancel ==
    /\ call.at \notin {"idle", "done", "open"}
    /\ ~cancelled
    /\ cancelled' = TRUE
    /\ UNCHANGED <<bucket, upload, call, file, version, lost, bytes, Hist>>

\* Another client writes or removes a file during the call.
OtherWrites(k, n) ==
    /\ call.at \notin {"idle", "done"}
    /\ Cardinality(touched) < MaxOther /\ k \notin touched
    /\ Put(k, Data(version + 1, n))
    /\ version' = version + 1
    /\ touched' = touched \cup {k}
    /\ UNCHANGED <<upload, call, cancelled, file, was, lost, bytes>>

OtherRemoves(k) ==
    /\ call.at \notin {"idle", "done"}
    /\ Cardinality(touched) < MaxOther /\ k \in DOMAIN bucket \ touched
    /\ Drop(k)
    /\ touched' = touched \cup {k}
    /\ UNCHANGED <<upload, call, cancelled, file, version, was, lost, bytes>>

-----------------------------------------------------------------------------
(* Write and Remove: one request each.  The uploader puts a file in place as a
   whole.  DeleteObject succeeds for a key that is not there. *)

Write(k, n) ==
    \E o \in Outcomes :
        /\ call.at = "idle"
        /\ IF Applied(o) THEN Put(k, Data(version + 1, n)) /\ version' = version + 1
                         ELSE UNCHANGED <<bucket, version>>
        /\ call' = [op |-> "write", at |-> "done", res |-> o]
        /\ was' = bucket /\ touched' = {}
        /\ Ended("put", o)
        /\ UNCHANGED <<upload, cancelled, file, bytes>>

Remove(k) ==
    \E o \in Outcomes :
        /\ call.at = "idle"
        /\ IF Applied(o) THEN Drop(k) ELSE UNCHANGED bucket
        /\ call' = [op |-> "remove", at |-> "done", res |-> o]
        /\ was' = bucket /\ touched' = {}
        /\ Ended("delete", o)
        /\ UNCHANGED <<upload, cancelled, file, version, bytes>>

-----------------------------------------------------------------------------
(* Copy *)

\* Copy replaces options that are not set, or too small, by their defaults.
FirstPartSize == IF PartSize < MinPartSize THEN DefaultPartSize ELSE PartSize

\* Mutant: the number of goroutines has no default.
LimitUnset == Concurrency

Limit == IF Concurrency < 1 THEN DefaultConcurrency ELSE Concurrency

\* The first of the growing part sizes with fewer than limit whole parts.  A size beyond
\* the total has none, so it takes at most total increments.
GrownPartSize(total, limit) ==
    LET size(s) == FirstPartSize + Increment * s
        fits(s) == total \div size(s) < limit
    IN  size(CHOOSE s \in 0..total : fits(s) /\ \A r \in 0..s - 1 : ~fits(r))

PartCount(total, psize) == total \div psize + IF total % psize > 0 THEN 1 ELSE 0

\* Mutant: the part count may reach the limit before the remainder is added.
AdjustPartSizeAtLimit(total) ==
    LET psize == GrownPartSize(total, MaxParts + 1)
    IN  [size |-> psize, count |-> PartCount(total, psize)]

\* adjustPartSize: fewer than the maximum number of whole parts; what remains is a
\* part more.  (The part count is an int32, which no source that S3 can hold
\* overflows.)
AdjustPartSize(total) ==
    LET psize == GrownPartSize(total, MaxParts)
    IN  [size |-> psize, count |-> PartCount(total, psize)]

\* Mutant: the last byte of a range is the first of the next one.
ByteRangeOverlaps(part, psize, total) ==
    [first |-> (part - 1) * psize,
     last |-> IF part * psize > total - 1 THEN total - 1 ELSE part * psize]

\* byteRange: first and last byte of a part, counted from zero.
ByteRange(part, psize, total) ==
    [first |-> (part - 1) * psize,
     last |-> IF part * psize - 1 > total - 1 THEN total - 1 ELSE part * psize - 1]

CopyCall(op, at, dst, src) ==
    [op |-> op, at |-> at, res |-> "", dst |-> dst, src |-> src, size |-> 0,
     parts |-> [size |-> 0, count |-> 0], next |-> 1, running |-> {}, completed |-> {},
     failed |-> FALSE]

\* BucketFS.Copy, and MultiCopier.Copy called on its own; both begin with HeadObject.
Copy(dst, src) == dst # src /\ Begin(CopyCall("copy", "head", dst, src))
MultiCopy(dst, src) == dst # src /\ Begin(CopyCall("multi", "head", dst, src))

HeadSource ==
    \E o \in Outcomes :
        /\ call.at = "head"
        /\ IF o = "ok" /\ call.src \in DOMAIN bucket
           THEN call' = [call EXCEPT !.at = IF call.op = "copy" THEN "copyobject" ELSE "create",
                                     !.size = Len(bucket[call.src].data)]
           ELSE Return("error")
        /\ Ended("head", o)
        /\ UNCHANGED <<bucket, upload, cancelled, file, version, bytes, Hist>>

\* CopyObject; when it says that the source is too large the copy is made in parts.
CopyObject ==
    \E o \in Outcomes :
        /\ call.at = "copyobject"
        /\ LET there == call.src \in DOMAIN bucket
               small == there /\ Len(bucket[call.src].data) <= MaxCopy
           IN  /\ IF Applied(o) /\ small
                  THEN Put(call.dst, bucket[call.src].data) /\ version' = version + 1
                  ELSE UNCHANGED <<bucket, version>>
               /\ IF o = "ok" /\ there /\ ~small
                  THEN call' = [call EXCEPT !.at = "create"]
                  ELSE Return(IF o = "ok" /\ small THEN "ok" ELSE "error")
        /\ Ended("copy", o)
        /\ UNCHANGED <<upload, cancelled, file, bytes, Hist>>

\* MultiCopier.Copy: part size and part count, CreateMultipartUpload.
CreateUpload ==
    \E o \in Outcomes :
        /\ call.at = "create"
        /\ upload' = IF Applied(o) THEN [NoUpload EXCEPT !.state = "open"] ELSE upload
        /\ IF o = "ok"
           THEN call' = [call EXCEPT !.at = "parts", !.parts = AdjustPartSize(call.size)]
           ELSE Return("error")
        /\ Ended("create", o)
        /\ UNCHANGED <<bucket, cancelled, file, version, bytes, Hist>>

\* grp.Go starts the next part when fewer than the limit are running.  A request
\* under a context that is done, or that a failed part has cancelled, fails at once.
GoPart ==
    /\ call.at = "parts"
    /\ call.next <= call.parts.count
    /\ Cardinality(call.running) < Limit
    /\ call' = IF cancelled \/ call.failed
               THEN [call EXCEPT !.next = @ + 1, !.failed = TRUE]
               ELSE [call EXCEPT !.next = @ + 1, !.running = @ \cup {call.next}]
    /\ UNCHANGED <<bucket, upload, cancelled, file, version, lost, bytes, Hist>>

\* UploadPartCopy of a part that was started before the context was cancelled.  The
\* service refuses a range outside of the source, any range of a source that is not
\* greater than 5 MB (s3.go, byteRange), and a part number beyond the limit.
PartEnds(i) ==
    \E o \in {"ok", "fail", "applied"} :
        /\ call.at = "parts"
        /\ i \in call.running
        /\ LET r == ByteRange(i, call.parts.size, call.size)
               good == /\ i <= MaxParts
                       /\ call.src \in DOMAIN bucket
                       /\ Len(bucket[call.src].data) > MinRange
                       /\ r.last < Len(bucket[call.src].data)
           IN  /\ upload' = IF Applied(o) /\ good
                            THEN [upload EXCEPT !.parts = With(@, i,
                                     SubSeq(bucket[call.src].data, r.first + 1, r.last + 1))]
                            ELSE upload
               /\ call' = IF o = "ok" /\ good
                          THEN [call EXCEPT !.running = @ \ {i}, !.completed = @ \cup {i}]
                          ELSE [call EXCEPT !.running = @ \ {i}, !.failed = TRUE]
        /\ Ended("part", o)
        /\ UNCHANGED <<bucket, cancelled, file, version, bytes, Hist>>

\* Mutant: the upload is completed whether or not a part failed.
AbortsNever == FALSE

\* The deferred function aborts the upload when a part failed and completes it
\* otherwise.
Aborts == call.failed

\* The service completes an upload from a list of one or more parts that it has, all
\* numbered and stored; only the last of them may be small.
Completable ==
    /\ call.parts.count > 0
    /\ call.completed = 1..call.parts.count
    /\ call.parts.count > 1 => call.parts.size >= MinPartSize

\* grp.Wait returns and the deferred function ends the upload.
EndUpload ==
    \E o \in Outcomes :
        /\ call.at = "parts"
        /\ call.next > call.parts.count /\ call.running = {}
        /\ LET completes == ~Aborts /\ Completable /\ Applied(o)
           IN  /\ upload' = [upload EXCEPT !.state = IF completes THEN "completed"
                                                     ELSE IF Aborts /\ Applied(o) THEN "aborted"
                                                     ELSE @]
               /\ IF completes
                  THEN /\ Put(call.dst, SE!FlattenSeq([i \in 1..call.parts.count |-> upload.parts[i]]))
                       /\ version' = version + 1
                  ELSE UNCHANGED <<bucket, version>>
               /\ Return(IF completes /\ o = "ok" THEN "ok" ELSE "error")
        /\ Ended("end", o)
        /\ UNCHANGED <<cancelled, file, bytes, Hist>>

-----------------------------------------------------------------------------
(* RemoveAll, DirEntries and WalkFiles *)

ListCall(op, dir) ==
    [op |-> op, at |-> "list", res |-> "", dir |-> dir, token |-> <<>>, page |-> <<>>,
     more |-> TRUE, yielded |-> <<>>, hasContent |-> FALSE]

RemoveAll(dir) == Begin(ListCall("removeall", dir))
DirEntries(dir) == Begin(ListCall("direntries", dir))
WalkFiles(dir) == Begin(ListCall("walkfiles", dir))

\* Mutant: a page without entries is a missing directory even behind other pages.
MissingAlways == TRUE

\* dirEntries takes a prefix without objects for a missing directory, unless earlier
\* pages had some.
Missing == ~call.hasContent

\* ListObjectsV2 for the next page, and what the loop body does with it.  WalkFiles and
\* DirEntries yield the page; RemoveAll goes on to delete it.
List ==
    \E o \in Outcomes :
        /\ call.at = "list"
        /\ LET list == ListObjects(call.dir, call.op = "direntries", call.token)
               last == list.token = <<>>
           IN  IF o # "ok" THEN Return("error")
               ELSE IF call.op = "removeall"
               THEN call' = [call EXCEPT !.at = "delete", !.page = list.page,
                                         !.token = list.token, !.more = ~last]
               ELSE IF call.op = "direntries" /\ list.page = <<>>
               THEN Return(IF Missing THEN "missing" ELSE "ok")
               ELSE call' = [call EXCEPT !.yielded = @ \o list.page, !.hasContent = TRUE,
                                         !.token = list.token,
                                         !.at = IF last THEN "done" ELSE "list",
                                         !.res = IF last THEN "ok" ELSE @]
        /\ Ended("list", o)
        /\ UNCHANGED <<bucket, upload, cancelled, file, version, bytes, Hist>>

\* RemoveAll deletes the keys of the page one by one.
DeleteListed ==
    \E o \in Outcomes :
        /\ call.at = "delete" /\ call.page # <<>>
        /\ IF Applied(o) THEN Drop(Head(call.page)) ELSE UNCHANGED bucket
        /\ IF o = "ok" THEN call' = [call EXCEPT !.page = Tail(@)] ELSE Return("error")
        /\ Ended("delete", o)
        /\ UNCHANGED <<upload, cancelled, file, version, bytes, Hist>>

\* Mutant: the loop ends with the first page.
PageDeletedStops ==
    /\ call.at = "delete" /\ call.page = <<>>
    /\ Return("ok")
    /\ UNCHANGED <<bucket, upload, cancelled, file, version, lost, bytes, Hist>>

\* The loop goes on with the continuation token of the listing and ends without one.
PageDeleted ==
    /\ call.at = "delete" /\ call.page = <<>>
    /\ IF call.more THEN call' = [call EXCEPT !.at = "list"] ELSE Return("ok")
    /\ UNCHANGED <<bucket, upload, cancelled, file, version, lost, bytes, Hist>>

-----------------------------------------------------------------------------
(* The file: body is [data, pos] of the stream that GetObject opened, or closed. *)

NoBody == [open |-> FALSE, data |-> <<>>, pos |-> 0]

\* OpenFile; a file that is used is the one call of the behaviour.
OpenFile(k) ==
    /\ call.at = "idle"
    /\ k \in DOMAIN bucket
    /\ file' = [key |-> k, info |-> bucket[k], offset |-> 0, body |-> NoBody]
    /\ call' = [op |-> "file", at |-> "open", res |-> ""]
    /\ was' = bucket /\ touched' = {}
    /\ UNCHANGED <<bucket, upload, cancelled, version, lost, bytes>>

\* Mutant: GetObject is not tied to the version that was opened.
MatchesAny == file.key \in DOMAIN bucket

\* GetObject has the etag of the opened file as a condition.
Matches == file.key \in DOMAIN bucket /\ bucket[file.key].etag = file.info.etag

\* The stream that Read reads from: the open one, or a new one from the offset on.
Body == IF file.body.open THEN file.body
        ELSE [open |-> TRUE, data |-> bucket[file.key].data, pos |-> file.offset]

\* Read returns up to n bytes of the stream; at the end of the file it returns EOF and
\* changes nothing, and when GetObject fails the file stays as it is.
Read(n) ==
    /\ file # NoFile
    /\ file.offset < Len(file.info.data)
    /\ file.body.open \/ Matches
    /\ LET b == Body
           end == IF b.pos + n < Len(b.data) THEN b.pos + n ELSE Len(b.data)
       IN  /\ bytes' = [at |-> file.offset, want |-> file.info.data,
                        data |-> SubSeq(b.data, b.pos + 1, end)]
           /\ file' = [file EXCEPT !.body = [b EXCEPT !.pos = end],
                                   !.offset = @ + (end - b.pos)]
    /\ UNCHANGED <<bucket, upload, call, cancelled, version, lost, Hist>>

\* Seek to a position that is not negative; a stream at another position is closed.
Seek(to) ==
    /\ file # NoFile
    /\ file' = [file EXCEPT !.offset = to,
                            !.body = IF to = file.offset THEN @ ELSE NoBody]
    /\ UNCHANGED <<bucket, upload, call, cancelled, version, lost, bytes, Hist>>

CloseFile ==
    /\ file # NoFile
    /\ file' = NoFile
    /\ Return("ok")
    /\ UNCHANGED <<bucket, upload, cancelled, version, lost, bytes, Hist>>

-----------------------------------------------------------------------------
CallStep ==
    \/ HeadSource \/ CopyObject \/ CreateUpload
    \/ GoPart \/ (\E i \in 1..MaxParts + 1 : PartEnds(i)) \/ EndUpload
    \/ List \/ DeleteListed \/ PageDeleted

Next ==
    \/ \E k \in Targets, n \in Sizes : Write(k, n)
    \/ \E k \in Targets : Remove(k)
    \/ \E d, s \in Targets : Copy(d, s)
    \/ \E d, s \in Targets : MultiCopy(d, s)
    \/ \E d \in Dirs : RemoveAll(d)
    \/ \E d \in Dirs : DirEntries(d)
    \/ \E d \in Dirs : WalkFiles(d)
    \/ HeadSource
    \/ CopyObject
    \/ CreateUpload
    \/ GoPart
    \/ \E i \in 1..MaxParts + 1 : PartEnds(i)
    \/ EndUpload
    \/ List
    \/ DeleteListed
    \/ PageDeleted
    \/ Cancel
    \/ \E k \in Keys, n \in Sizes : OtherWrites(k, n)
    \/ \E k \in Keys : OtherRemoves(k)
    \/ \E k \in Targets : OpenFile(k)
    \/ \E n \in 1..2 : Read(n)
    \/ \E to \in 0..2 : Seek(to)
    \/ CloseFile

\* Every request ends: the steps of a call that began are taken.
Spec == Init /\ [][Next]_vars /\ WF_vars(CallStep)

-----------------------------------------------------------------------------
(* Properties *)

Copying == call.op \in {"copy", "multi"}
Done(res) == call.at = "done" /\ call.res = res
Whole(d) == \A i \in DOMAIN d : d[i].i = i /\ d[i].n = Len(d) /\ d[i].v = d[1].v

\* A file in the bucket is one version from its first to its last byte at every moment,
\* whichever parts of a copy in parts failed, were lost or ended out of order, and a copy
\* that returned no error has the bytes of its source.  (The parts are not tied to the
\* version that HeadObject saw: a source that is overwritten meanwhile is excepted.)
FilesWhole ==
    ~(Copying /\ call.src \in touched) =>
        /\ \A k \in DOMAIN bucket : Whole(bucket[k].data)
        /\ Copying /\ Done("ok") /\ call.dst \notin touched =>
               bucket[call.dst].data = was[call.src].data

\* MultiCopier.Copy leaves no open upload behind, unless the request that should have
\* ended it failed, the answer to the one that created it was lost, or the source is
\* empty: an upload without parts cannot be completed.
UploadsEnded ==
    call.at = "done" /\ upload.state = "open" =>
        Done("error") /\ (lost \cap {"create", "end"} # {} \/ call.size = 0)

\* Copy fails for a reason: a request failed or was cancelled, or the source is missing
\* or changes.  Above all the service does not refuse the ranges, part sizes and part
\* counts that the code chooses, at sizes next to the limits of either request too.  (Only
\* BucketFS.Copy tries CopyObject first: MultiCopier called on its own for a source of
\* 5 MB or less, or an empty one, fails.)
CopiesWhatItCan ==
    Copying /\ Done("error") =>
        \/ cancelled
        \/ lost # {}
        \/ call.src \notin DOMAIN was \ touched
        \/ call.op = "multi" /\ Len(was[call.src].data) <= MinRange

\* RemoveAll that returned nil has removed every file that was in the directory, over
\* all pages of the listing, and nothing elsewhere.
RemovedAll ==
    call.op = "removeall" /\ Done("ok") =>
        /\ Under(call.dir, DOMAIN bucket) \subseteq touched
        /\ (DOMAIN was \ Under(call.dir, Keys)) \ touched \subseteq DOMAIN bucket

\* DirEntries and WalkFiles yield everything in the directory once, over all pages and
\* while another client writes and removes files; only a directory that was empty at
\* some time is reported as missing, and not after entries of it were yielded.
ListsAll ==
    call.op \in {"direntries", "walkfiles"} /\ call.at = "done" =>
        LET delim == call.op = "direntries"
            stayed == AllShown(call.dir, DOMAIN was \ touched, delim)
            got == {call.yielded[i] : i \in DOMAIN call.yielded}
        IN  /\ Cardinality(got) = Len(call.yielded)
            /\ got \subseteq AllShown(call.dir, DOMAIN was \cup touched, delim)
            /\ call.res = "ok" => stayed \subseteq got
            /\ call.res = "missing" => stayed = {} /\ got = {}

\* Read returns bytes of the version that was opened, from the current position,
\* however often the file seeks and whatever is written to its key meanwhile.
ReadsWhatWasOpened ==
    bytes.data = SubSeq(bytes.want, bytes.at + 1, bytes.at + Len(bytes.data))

\* Every call returns, a file in use excepted.
CallsReturn == (call.at \notin {"idle", "open"}) ~> (call.at = "done")
=============================================================================
