----------------------------- MODULE WebClient ------------------------------
(***************************************************************************)
(* The upload page (index.html) in front of the backend: every file that   *)
(* is picked or dropped starts an asynchronous uploadFile, a flow, that    *)
(* posts /files, /upload and /links one after the other, while the global  *)
(* selectedFile may change between its steps.                              *)
(***************************************************************************)
EXTENDS FileDrop

CONSTANTS
    FileOf,         \* the file each selection of the user is of
    IdsOf,          \* bound: the ids uuid.New may return for each flow
    Undefined,      \* the text FormData sends for an undefined value
    PageTTL,        \* ttl_seconds: 300
    Flaky           \* bound: the flows whose connection may break

ASSUME WebAssumption ==
    /\ FileOf \in [Uploads -> Content] /\ Undefined \in Content
    /\ {SizeOf[FileOf[w]] : w \in Uploads} \subseteq DeclaredSize /\ PageTTL \in RequestedTTL
    /\ IdsOf \in [Uploads -> SUBSET FileId]
    /\ Uploads \subseteq Nat /\ Flaky \subseteq Uploads

VARIABLES
    page,       \* selectedFile, the file whose details are shown, the link shown
    flow        \* locals of each uploadFile; flow w sends upload request w

webVars == <<vars, page, flow>>

FlowPC == {"idle", "files", "meta", "upload", "answer", "link", "linked", "done", "failed"}

\* Whether selectedFile changed before the flow sent its body, or only another
\* file was picked after that. History: nothing depends on it.
Overtaken == {"no", "sent", "unsent"}

\* The page and its flows have their types.
WebTypeOK ==
    /\ page \in [selected : Content \cup {None}, info : Content \cup {None},
                 link : Token \cup {None}]
    /\ flow \in [Uploads -> [pc : FlowPC, file : FileId \cup {None}, body : Content \cup {None},
                             link : Token \cup {None}, overtaken : Overtaken]]

WebInit ==
    /\ Init
    /\ page = [selected |-> None, info |-> None, link |-> None]
    /\ flow = [w \in Uploads |-> [pc |-> "idle", file |-> None,
                                  body |-> None, link |-> None, overtaken |-> "no"]]

-----------------------------------------------------------------------------
(* Selections *)

Unsent == {"files", "meta"}
Sent == {"upload", "answer", "link", "linked"}

Overtake(x) ==
    [x EXCEPT !.overtaken = CASE x.pc \in Unsent -> "unsent"
                              [] x.pc \in Sent /\ @ = "no" -> "sent"
                              [] OTHER -> @]

\* Flow w is that of the w-th selection.
NextSelection(w) == flow[w].pc = "idle" /\ \A v \in Uploads : v < w => flow[v].pc # "idle"

\* Mutant of Pick: the previous link is not hidden.
PickKeepsLink(w) ==
    /\ NextSelection(w)
    /\ page' = [page EXCEPT !.selected = FileOf[w], !.info = FileOf[w]]
    /\ flow' = [v \in Uploads |-> IF v = w THEN [flow[w] EXCEPT !.pc = "files"]
                                           ELSE Overtake(flow[v])]
    /\ UNCHANGED vars

\* handleFileSelect or drop, displayFileInfo, and uploadFile up to its first
\* await: POST /files is on its way with the size of the file.
Pick(w) ==
    /\ NextSelection(w)
    /\ page' = [selected |-> FileOf[w], info |-> FileOf[w], link |-> None]
    /\ flow' = [v \in Uploads |-> IF v = w THEN [flow[w] EXCEPT !.pc = "files"]
                                           ELSE Overtake(flow[v])]
    /\ UNCHANGED vars

\* handleFileSelect with no file: selectedFile is undefined, nothing else.
PickNothing ==
    /\ page.selected # None
    /\ page' = [page EXCEPT !.selected = None]
    /\ flow' = [v \in Uploads |-> IF flow[v].pc \in Unsent THEN Overtake(flow[v]) ELSE flow[v]]
    /\ UNCHANGED vars

-----------------------------------------------------------------------------
(* uploadFile *)

FlowGoto(w, label) == flow' = [flow EXCEPT ![w].pc = label]

\* POST /files at the backend. (A record that is made although the reply is an
\* error is a reply that got lost.)
PostFiles(w) ==
    /\ flow[w].pc = "files"
    /\ \E f \in IdsOf[w] :
          /\ CreateFile(f, SizeOf[FileOf[w]])
          /\ flow' = [flow EXCEPT ![w] = [@ EXCEPT !.file = f,
                         !.pc = IF files'[f].status = "pending" THEN "meta" ELSE "failed"]]
    /\ UNCHANGED <<job, adm, tokens, dl, crashes, page>>

\* Mutant of SendBody: meta is a global too, the newest id.
SendToNewest(w) ==
    /\ flow[w].pc = "meta"
    /\ \E v \in Uploads :
          /\ flow[v].file # None
          /\ flow' = [flow EXCEPT ![w] = [@ EXCEPT !.pc = "upload", !.file = flow[v].file,
                         !.body = IF page.selected = None THEN Undefined ELSE page.selected]]
    /\ UNCHANGED <<vars, page>>

\* The reply is there: the body is what selectedFile is by now.
SendBody(w) ==
    /\ flow[w].pc = "meta"
    /\ flow' = [flow EXCEPT ![w] = [@ EXCEPT !.pc = "upload",
                   !.body = IF page.selected = None THEN Undefined ELSE page.selected]]
    /\ UNCHANGED <<vars, page>>

\* POST /upload at the backend.
PostUpload(w) ==
    /\ flow[w].pc = "upload"
    /\ \/ AcceptUpload(w, flow[w].file, flow[w].body)
       \/ /\ files[flow[w].file].status # "pending" \/ "db" \in Faults
          /\ RejectUpload(w)
    /\ FlowGoto(w, "answer")
    /\ UNCHANGED <<job, adm, tokens, dl, crashes, page>>

\* Mutant of UploadAnswer: the promise is not rejected on an error status.
UploadAnswerOkOnly(w) ==
    /\ flow[w].pc = "answer" /\ up[w].pc = "done" /\ up[w].reply = "hashed"
    /\ FlowGoto(w, "link")
    /\ UNCHANGED <<vars, page>>

\* The load event, or the error event when the backend is gone.
UploadAnswer(w) ==
    /\ flow[w].pc = "answer" /\ up[w].pc = "done"
    /\ FlowGoto(w, IF up[w].reply = "hashed" THEN "link" ELSE "failed")
    /\ UNCHANGED <<vars, page>>

\* Mutant of PostLink: linkRes.ok is not looked at.
PostLinkUnchecked(w) ==
    /\ flow[w].pc = "link"
    /\ \/ /\ CreateLink(flow[w].file, PageTTL)
          /\ flow' = [flow EXCEPT ![w] = [@ EXCEPT !.pc = "linked",
                         !.link = signDownloadToken(flow[w].file, now + clampTTLSeconds(PageTTL))]]
       \/ /\ files[flow[w].file].status \notin Downloadable \/ "db" \in Faults
          /\ flow' = [flow EXCEPT ![w] = [@ EXCEPT !.pc = "linked",
                         !.link = signDownloadToken(None, now)]]
          /\ UNCHANGED <<storeVars, tokens, dl>>
    /\ UNCHANGED <<up, job, adm, crashes, page>>

\* POST /links at the backend, and its reply.
PostLink(w) ==
    /\ flow[w].pc = "link"
    /\ \/ /\ CreateLink(flow[w].file, PageTTL)
          /\ flow' = [flow EXCEPT ![w] = [@ EXCEPT !.pc = "linked",
                         !.link = signDownloadToken(flow[w].file, now + clampTTLSeconds(PageTTL))]]
       \/ /\ files[flow[w].file].status \notin Downloadable \/ "db" \in Faults
          /\ FlowGoto(w, "failed")
          /\ UNCHANGED <<storeVars, tokens, dl>>
    /\ UNCHANGED <<up, job, adm, crashes, page>>

\* displayDownloadLink, half a second after the reply.
ShowLink(w) ==
    /\ flow[w].pc = "linked"
    /\ page' = [page EXCEPT !.link = flow[w].link]
    /\ FlowGoto(w, "done")
    /\ UNCHANGED vars

\* A request or its reply is lost. The backend goes on with what it received, or
\* its PutObject fails with the request's context ("client" in Faults).
ConnectionLost(w) ==
    /\ w \in Flaky /\ flow[w].pc \in {"files", "meta", "upload", "answer", "link"}
    /\ FlowGoto(w, "failed")
    /\ UNCHANGED <<vars, page>>

FlowStep(w) ==
    \/ PostFiles(w) \/ SendBody(w) \/ PostUpload(w) \/ UploadAnswer(w)
    \/ PostLink(w)  \/ ShowLink(w)

-----------------------------------------------------------------------------
\* The backend between the requests of the page.
Backend ==
    \/ \E w \in Uploads : UploadStep(w) /\ UNCHANGED <<job, adm, tokens, dl, crashes>>
    \/ CleanupNext /\ UNCHANGED <<up, adm, tokens, dl, crashes>>
    \/ LateWrite   /\ UNCHANGED <<up, job, adm, tokens, dl, crashes>>
    \/ Tick        /\ UNCHANGED <<up, job, adm, tokens, dl, crashes>>
    \/ Crash

WebNext ==
    \/ PickNothing
    \/ \E w \in Uploads : Pick(w) \/ FlowStep(w) \/ ConnectionLost(w)
    \/ Backend /\ UNCHANGED <<page, flow>>

WebSpec == WebInit /\ [][WebNext]_webVars

\* Callbacks of the browser run, requests arrive, handlers go on.
WebFairness ==
    \A w \in Uploads :
        /\ WF_webVars(FlowStep(w))
        /\ WF_webVars(UploadStep(w) /\ UNCHANGED <<job, adm, tokens, dl, crashes, page, flow>>)

WebFairSpec == WebSpec /\ WebFairness

-----------------------------------------------------------------------------
\* The record of a flow has the digest of the body that the flow itself posted,
\* whatever flows run beside it, and the size of the file it was started for. The
\* two are of the same file, the one the user picked, for every flow that sent
\* its body before selectedFile changed. (A flow that was overtaken posts the
\* newer file, or the text "undefined", under the name and size of the old one.)
RecordOfPickedFile ==
    \A w \in Uploads :
        (flow[w].file # None /\ files[flow[w].file].status \in Downloadable)
            => /\ files[flow[w].file].hash = HashTool(flow[w].body)
               /\ files[flow[w].file].size = SizeOf[FileOf[w]]
               /\ flow[w].overtaken # "unsent" => flow[w].body = FileOf[w]

\* The page tells the truth about the link it shows. The link leads to a
\* downloadable file with the object of its digest, until the file is older than
\* MaxAge: not a crash, a late write or the cleanup job undoes what the user was
\* told. And it stands beside the details of its own file, unless another file
\* was picked while its flow was under way.
ShownLinkTrue ==
    page.link # None =>
        LET f == page.link.file
            row == files[f]
        IN  /\ row.status # "absent" =>
                  /\ row.status \in Downloadable
                  /\ row.created >= now - MaxAge =>
                        /\ objects[ObjectKey(f)] # None
                        /\ row.hash = HashTool(objects[ObjectKey(f)])
            /\ \A w \in Uploads :
                  (flow[w].link = page.link /\ flow[w].overtaken = "no")
                      => page.info = FileOf[w]

\* Every flow ends, with a link or with the alert: not a crash, a lost reply or
\* a refusal leaves the progress bar standing.
FlowSettles ==
    \A w \in Uploads : flow[w].pc # "idle" ~> flow[w].pc \in {"done", "failed"}
=============================================================================
