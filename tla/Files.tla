-------------------------------- MODULE Files --------------------------------
(***************************************************************************)
(* Objects in S3 and the documents that name them: the metadata of         *)
(* UploadService, and the proofs of TaskService's submissions.  The bucket *)
(* and MongoDB are written one after the other, with nothing that undoes   *)
(* the first when the second fails.  A key is used once: it holds a random *)
(* UUID, or the user, the task and the millisecond, taken to be enough.    *)
(***************************************************************************)
EXTENDS FiniteSets

CONSTANTS
    FileKeys, NoFile,
    Submissions,    \* (user, task, day): a document at most, by the unique index
    Uploaders       \* requests that may be in flight

ASSUME FilesAssumption == NoFile \notin FileKeys

VARIABLES
    object,         \* keys of the objects in the bucket
    metadata,       \* keys of the documents in `files`
    proof,          \* each submission: no document, or its status and proofUrl
    enabled,        \* S3 is configured for the instances that run now
    errand,         \* what each request is doing
    used,           \* keys made so far
    torn,           \* history: keys whose request broke off between the bucket
                    \*   and MongoDB
    replaced        \* history: proofs whose place another one took

fileVars == <<object, metadata, proof, enabled, errand, used, torn, replaced>>

NoSubmission == [status |-> "none", file |-> NoFile, again |-> FALSE]

Submission == [status : {"none", "pending", "approved", "rejected"},
               file : FileKeys \cup {NoFile}, again : BOOLEAN]

NoErrand == [at |-> "none", key |-> NoFile, of |-> NoFile, existing |-> NoSubmission]

FileInit ==
    /\ object = {}
    /\ metadata = {}
    /\ proof = [s \in Submissions |-> NoSubmission]
    /\ enabled \in BOOLEAN
    /\ errand = [w \in Uploaders |-> NoErrand]
    /\ used = {}
    /\ torn = {}
    /\ replaced = {}

Proofs == {proof[s].file : s \in Submissions} \ {NoFile}

\* The object of k is there for an upload or a deletion under way.
Handled(k) == \E w \in Uploaders : errand[w].key = k

-----------------------------------------------------------------------------
Doing(w, step) == errand[w].at = step
Done(w) == errand' = [errand EXCEPT ![w] = NoErrand]

Send(w, step, k, s, found) ==
    errand' = [errand EXCEPT ![w] = [at |-> step, key |-> k, of |-> s, existing |-> found]]

\* S3Service.uploadFile: PutObject under a new key; ensureEnabled refuses
\* before anything is written.
PutObject(w, step, k, s, found) ==
    /\ enabled
    /\ k \notin used
    /\ used' = used \cup {k}
    /\ object' = object \cup {k}
    /\ Send(w, step, k, s, found)

\* Mutant of Upload: the document is created before the object.
UploadDocumentFirst(w, k) ==
    /\ errand[w] = NoErrand
    /\ k \notin used
    /\ used' = used \cup {k}
    /\ metadata' = metadata \cup {k}
    /\ Send(w, "create", k, NoFile, NoSubmission)
    /\ UNCHANGED <<object, proof, enabled, torn, replaced>>

\* UploadService.uploadFile, up to the answer of the bucket.
Upload(w, k) ==
    /\ errand[w] = NoErrand
    /\ PutObject(w, "create", k, NoFile, NoSubmission)
    /\ UNCHANGED <<metadata, proof, enabled, torn, replaced>>

\* fileRepository.create; the signed URL is made without asking S3.
UploadCreate(w) ==
    /\ Doing(w, "create")
    /\ metadata' = metadata \cup {errand[w].key}
    /\ Done(w)
    /\ UNCHANGED <<object, proof, enabled, used, torn, replaced>>

\* Mutant of RemoveFile: the document alone.
RemoveDocumentOnly(w, k) ==
    /\ errand[w] = NoErrand
    /\ k \in metadata
    /\ metadata' = metadata \ {k}
    /\ UNCHANGED <<object, proof, enabled, errand, used, torn, replaced>>

\* UploadService.deleteFile: findByIdAndDelete.  Whoever asks for a document
\* that is gone gets 404, the one who tries a deletion again that broke off too.
RemoveFile(w, k) ==
    /\ errand[w] = NoErrand
    /\ k \in metadata
    /\ metadata' = metadata \ {k}
    /\ Send(w, "delete", k, NoFile, NoSubmission)
    /\ UNCHANGED <<object, proof, enabled, used, torn, replaced>>

\* S3Service.deleteFile: DeleteObject.
RemoveObject(w) ==
    /\ Doing(w, "delete")
    /\ enabled
    /\ object' = object \ {errand[w].key}
    /\ Done(w)
    /\ UNCHANGED <<metadata, proof, enabled, used, torn, replaced>>

\* submitTask: what it found of s lets it go on; a file is uploaded, a text
\* needs no object.
SubmitProof(w, s, k) ==
    /\ errand[w] = NoErrand
    /\ proof[s].status \in {"none", "rejected"}
    /\ ~ proof[s].again
    /\ IF k = NoFile
         THEN /\ Send(w, "store", k, s, proof[s])
              /\ UNCHANGED <<object, used>>
         ELSE PutObject(w, "store", k, s, proof[s])
    /\ UNCHANGED <<metadata, proof, enabled, torn, replaced>>

\* The document of s names the file of w.  The save of a document found before
\* sends only what w has changed in it: a text in place of a text leaves the
\* proofUrl as it is by now.
NameProof(w) ==
    LET s == errand[w].of
        found == errand[w].existing
        file == IF errand[w].key = found.file THEN proof[s].file ELSE errand[w].key
    IN  /\ proof' = [proof EXCEPT ![s] = [status |-> "pending", file |-> file,
                                          again |-> found # NoSubmission]]
        /\ replaced' = replaced \cup ({proof[s].file} \ {file})

\* A new document, unless the unique index refuses it because there is one by
\* now; or the save of the document found before, whatever it names by now.
StoreProof(w) ==
    /\ Doing(w, "store")
    /\ IF errand[w].existing = NoSubmission /\ proof[errand[w].of] # NoSubmission
         THEN torn' = torn \cup {errand[w].key} /\ UNCHANGED <<proof, replaced>>
         ELSE NameProof(w) /\ UNCHANGED torn
    /\ Done(w)
    /\ UNCHANGED <<object, metadata, enabled, used>>

\* approveSubmission, rejectSubmission: any document, whatever its status is by
\* the time they write.
Review(s) ==
    /\ proof[s] # NoSubmission
    /\ \E v \in {"approved", "rejected"} : proof' = [proof EXCEPT ![s].status = v]
    /\ UNCHANGED <<object, metadata, enabled, errand, used, torn, replaced>>

\* An await throws (S3 is not configured, a command fails or its answer is
\* lost), or the instance dies.
FileBreak(w) ==
    LET k == errand[w].key
    IN  /\ Done(w)
        /\ \/ /\ errand[w] # NoErrand
              /\ torn' = torn \cup {k}
              /\ UNCHANGED <<object, metadata, proof, replaced>>
           \/ /\ Doing(w, "create")
              /\ metadata' = metadata \cup {k}
              /\ UNCHANGED <<object, proof, torn, replaced>>
           \/ /\ Doing(w, "delete")
              /\ enabled
              /\ object' = object \ {k}
              /\ UNCHANGED <<metadata, proof, torn, replaced>>
           \/ /\ Doing(w, "store")
              /\ ~ (errand[w].existing = NoSubmission /\ proof[errand[w].of] # NoSubmission)
              /\ NameProof(w)
              /\ UNCHANGED <<object, metadata, torn>>
        /\ UNCHANGED <<enabled, used>>

\* The instances are started again, with S3 configured or not.
Redeploy ==
    /\ \A w \in Uploaders : errand[w] = NoErrand
    /\ enabled' = ~ enabled
    /\ UNCHANGED <<object, metadata, proof, errand, used, torn, replaced>>

FileStep(w) == UploadCreate(w) \/ RemoveObject(w) \/ StoreProof(w) \/ FileBreak(w)

FilesNext ==
    \/ \E w \in Uploaders, k \in FileKeys : Upload(w, k) \/ RemoveFile(w, k)
    \/ \E w \in Uploaders, s \in Submissions, k \in FileKeys \cup {NoFile} : SubmitProof(w, s, k)
    \/ \E w \in Uploaders : FileStep(w)
    \/ \E s \in Submissions : Review(s)
    \/ Redeploy

FilesSpec == FileInit /\ [][FilesNext]_fileVars
-----------------------------------------------------------------------------
\* Type invariant: objects, documents and requests.
FilesTypeOK ==
    /\ object \in SUBSET FileKeys
    /\ metadata \in SUBSET FileKeys
    /\ proof \in [Submissions -> Submission]
    /\ enabled \in BOOLEAN
    /\ errand \in [Uploaders -> [at : {"none", "create", "delete", "store"},
                                 key : FileKeys \cup {NoFile},
                                 of : Submissions \cup {NoFile},
                                 existing : Submission]]
    /\ used \in SUBSET FileKeys
    /\ torn \in SUBSET (FileKeys \cup {NoFile})
    /\ replaced \in SUBSET (FileKeys \cup {NoFile})

\* Every metadata document and every stored proof names an object that is
\* there, whatever uploads, deletions and failures overlap.
NamedIsThere == metadata \cup Proofs \subseteq object

\* An object that no document names is there because a request has it in hand,
\* because one broke off between the bucket and MongoDB or was refused by the
\* unique index, or because another proof took its place.
OrphanHasCause ==
    \A k \in object \ (metadata \cup Proofs) :
        Handled(k) \/ k \in torn \cup replaced
=============================================================================
