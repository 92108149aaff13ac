-------------------------- MODULE WebClientProofs --------------------------
(***************************************************************************)
(* The upload page in front of the backend: what the page does is among    *)
(* the behaviours of FileDrop, and what it tells its user is true, for any *)
(* number of selections, files, faults and crashes.                        *)
(***************************************************************************)
EXTENDS WebClient, RecordProofs

\* Locals that a flow is about to use are set; a flow gets its id, its body and
\* its link in that order.
WebLocals ==
    \A w \in Uploads :
        /\ flow[w].pc \in {"idle", "files"} => flow[w].file = None
        /\ flow[w].pc \in {"meta", "upload", "answer", "link", "linked"} => flow[w].file \in FileId
        /\ flow[w].pc = "upload" => flow[w].body \in Content
        /\ flow[w].pc = "linked" => flow[w].link \in Token
        /\ flow[w].pc \in {"idle", "files", "meta", "upload"} => up[w].file = None

\* Every flow works on a record of its own, and its upload request is the only
\* one that is ever accepted for it.
OwnFile ==
    /\ \A w \in Uploads : flow[w].file # None => flow[w].file \in issued
    /\ \A v, w \in Uploads : (flow[v].file = flow[w].file /\ flow[v].file # None) => v = w
    /\ \A w \in Uploads : up[w].file # None =>
           up[w].file = flow[w].file /\ up[w].content = flow[w].body

\* Unless selectedFile changed before the body was sent, it is the picked file.
BodyPicked ==
    \A w \in Uploads : flow[w].overtaken # "unsent" =>
        /\ flow[w].pc \in Unsent => page.selected = FileOf[w]
        /\ flow[w].body # None => flow[w].body = FileOf[w]

\* The record has the size of the picked file.
SizeDeclared ==
    \A w \in Uploads, f \in FileId :
        (flow[w].file = f /\ files[f].status # "absent") => files[f].size = SizeOf[FileOf[w]]

\* Links lead from a flow to its own file; the one on the page is that of a flow
\* that has ended, and stands beside its file's details.
LinksOwn ==
    /\ \A w \in Uploads : flow[w].link # None =>
           /\ flow[w].pc \in {"linked", "done"}
           /\ flow[w].link \in tokens /\ flow[w].link.file = flow[w].file
           /\ flow[w].file # None
    /\ page.link # None =>
           \E w \in Uploads : flow[w].pc = "done" /\ flow[w].link = page.link
    /\ \A w \in Uploads : flow[w].overtaken = "no" =>
           /\ flow[w].pc \in Unsent \cup Sent => page.info = FileOf[w]
           /\ (page.link # None /\ flow[w].link = page.link) => page.info = FileOf[w]

WebInv ==
    /\ RecordInv /\ WebTypeOK /\ WebLocals
    /\ OwnFile /\ BodyPicked /\ SizeDeclared /\ LinksOwn

-----------------------------------------------------------------------------
(* The page is a client of the backend *)

\* What CreateFile, AcceptUpload and CreateLink get from a flow.
LEMMA PageDeclares ==
    /\ \A w \in Uploads : SizeOf[FileOf[w]] \in DeclaredSize /\ FileOf[w] \in Content
    /\ PageTTL \in RequestedTTL /\ FileOf \in [Uploads -> Content] /\ Undefined \in Content
BY WebAssumption

LEMMA PageIsClient ==
    ASSUME WebTypeOK, WebLocals, [WebNext]_webVars
    PROVE  [Next]_vars
<1>1. CASE Backend
  BY <1>1 DEF Backend, Next, UploadNext
<1>2. ASSUME NEW w \in Uploads, PostFiles(w)  PROVE Next
  <2>1. PICK f \in IdsOf[w] : CreateFile(f, SizeOf[FileOf[w]])
    BY <1>2 DEF PostFiles
  <2>2. f \in FileId
    BY WebAssumption
  <2>3. UploadNext
    BY <2>1, <2>2, PageDeclares DEF UploadNext
  <2> QED BY <1>2, <2>3 DEF PostFiles, Next
<1>3. ASSUME NEW w \in Uploads, PostUpload(w)  PROVE Next
  <2>1. flow[w].file \in FileId /\ flow[w].body \in Content
    BY <1>3 DEF PostUpload, WebLocals
  <2>2. UploadNext
    BY <1>3, <2>1 DEF PostUpload, UploadNext
  <2> QED BY <1>3, <2>2 DEF PostUpload, Next
<1>4. ASSUME NEW w \in Uploads, PostLink(w)  PROVE [Next]_vars
  <2>1. flow[w].file \in FileId
    BY <1>4 DEF PostLink, WebLocals
  <2>2. CASE CreateLink(flow[w].file, PageTTL)
    <3>1. DownloadNext
      BY <2>1, <2>2, PageDeclares DEF DownloadNext
    <3> QED BY <1>4, <3>1 DEF PostLink, Next
  <2>3. CASE UNCHANGED <<storeVars, tokens, dl>>
    BY <1>4, <2>3 DEF PostLink, vars
  <2> QED BY <1>4, <2>2, <2>3 DEF PostLink
<1>5. ASSUME NEW w \in Uploads, Pick(w) \/ SendBody(w) \/ UploadAnswer(w) \/ ShowLink(w) \/ ConnectionLost(w)
      PROVE  UNCHANGED vars
  BY <1>5 DEF Pick, SendBody, UploadAnswer, ShowLink, ConnectionLost
<1>6. PickNothing \/ UNCHANGED webVars => UNCHANGED vars
  BY DEF PickNothing, webVars
<1> QED BY <1>1, <1>2, <1>3, <1>4, <1>5, <1>6 DEF WebNext, FlowStep

-----------------------------------------------------------------------------
(* The initial state *)

LEMMA WebInit0 == WebInit => WebInv
<1> SUFFICES ASSUME WebInit PROVE WebInv
  OBVIOUS
<1>1. RecordInv
  BY RecordInit DEF WebInit
<1>2. \A w \in Uploads : /\ flow[w].pc = "idle" /\ flow[w].file = None /\ flow[w].body = None
                         /\ flow[w].link = None /\ flow[w].overtaken = "no" /\ up[w].file = None
  BY DEF WebInit, Init, UploadInit
<1>3. page = [selected |-> None, info |-> None, link |-> None]
  BY DEF WebInit
<1>4. WebTypeOK
  BY <1>3 DEF WebInit, WebTypeOK, FlowPC, Overtaken
<1>5. WebLocals /\ OwnFile
  BY <1>2 DEF WebLocals, OwnFile
<1>6. BodyPicked /\ LinksOwn
  BY <1>2, <1>3 DEF BodyPicked, LinksOwn, Unsent, Sent
<1>7. SizeDeclared
  BY <1>2, NoneAssumption DEF SizeDeclared
<1> QED BY <1>1, <1>4, <1>5, <1>6, <1>7 DEF WebInv

-----------------------------------------------------------------------------
(* The steps of one flow, field by field *)

\* A flow moves to another label; all else stays.
MovesTo(w, label) ==
    /\ flow'[w].pc = label /\ flow'[w].file = flow[w].file /\ flow'[w].body = flow[w].body
    /\ flow'[w].link = flow[w].link /\ flow'[w].overtaken = flow[w].overtaken
OthersStay(w) == \A v \in Uploads \ {w} : flow'[v] = flow[v]

\* What another selection does to a flow.
Overtakes(w) ==
    /\ flow'[w].pc = flow[w].pc /\ flow'[w].file = flow[w].file
    /\ flow'[w].body = flow[w].body /\ flow'[w].link = flow[w].link
    /\ flow'[w].overtaken = CASE flow[w].pc \in Unsent -> "unsent"
                              [] flow[w].pc \in Sent /\ flow[w].overtaken = "no" -> "sent"
                              [] OTHER -> flow[w].overtaken

FlowRecord == [pc : FlowPC, file : FileId \cup {None}, body : Content \cup {None},
               link : Token \cup {None}, overtaken : Overtaken]

LEMMA MoveEffect ==
    ASSUME WebTypeOK, NEW w \in Uploads, NEW label \in FlowPC, FlowGoto(w, label)
    PROVE  MovesTo(w, label) /\ OthersStay(w) /\ flow' \in [Uploads -> FlowRecord]
<1> USE DEF WebTypeOK, FlowGoto
<1>1. MovesTo(w, label)  BY DEF MovesTo
<1>2. OthersStay(w)  BY DEF OthersStay
<1>3. flow' \in [Uploads -> FlowRecord]  BY DEF FlowRecord
<1> QED BY <1>1, <1>2, <1>3

LEMMA OvertakeEffect ==
    ASSUME WebTypeOK, NEW w \in Uploads, flow'[w] = Overtake(flow[w])
    PROVE  Overtakes(w) /\ flow'[w] \in FlowRecord
<1> USE DEF WebTypeOK, Overtake
<1>1. Overtakes(w)  BY DEF Overtakes
<1>2. flow[w] \in FlowRecord  BY DEF FlowRecord
<1>3. flow'[w] \in FlowRecord  BY <1>2 DEF FlowRecord, Overtaken
<1> QED BY <1>1, <1>3

LEMMA PickEffect ==
    ASSUME WebTypeOK, NEW w \in Uploads, Pick(w)
    PROVE  /\ MovesTo(w, "files") /\ flow[w].pc = "idle"
           /\ \A v \in Uploads \ {w} : Overtakes(v)
           /\ page' = [selected |-> FileOf[w], info |-> FileOf[w], link |-> None]
           /\ WebTypeOK'
<1>1. flow' = [v \in Uploads |-> IF v = w THEN [flow[w] EXCEPT !.pc = "files"]
                                          ELSE Overtake(flow[v])]
  BY DEF Pick
<1>2. flow[w] \in FlowRecord
  BY DEF WebTypeOK, FlowRecord
<1>3. flow'[w] = [flow[w] EXCEPT !.pc = "files"]
  BY <1>1
<1>4. MovesTo(w, "files") /\ flow'[w] \in FlowRecord
  BY <1>2, <1>3 DEF MovesTo, FlowRecord, FlowPC
<1>5. \A v \in Uploads \ {w} : Overtakes(v) /\ flow'[v] \in FlowRecord
  BY <1>1, OvertakeEffect
<1>6. flow' \in [Uploads -> FlowRecord]
  BY <1>1, <1>4, <1>5
<1>7. page' = [selected |-> FileOf[w], info |-> FileOf[w], link |-> None] /\ flow[w].pc = "idle"
  BY DEF Pick, NextSelection
<1>8. WebTypeOK'
  BY <1>6, <1>7, PageDeclares DEF WebTypeOK, FlowRecord
<1> QED BY <1>4, <1>5, <1>7, <1>8

LEMMA PickNothingEffect ==
    ASSUME WebTypeOK, PickNothing
    PROVE  /\ \A v \in Uploads : IF flow[v].pc \in Unsent THEN Overtakes(v)
                                                          ELSE flow'[v] = flow[v]
           /\ page'.selected = None /\ page'.info = page.info /\ page'.link = page.link
           /\ WebTypeOK'
<1>1. flow' = [v \in Uploads |-> IF flow[v].pc \in Unsent THEN Overtake(flow[v]) ELSE flow[v]]
  BY DEF PickNothing
<1>2. \A v \in Uploads : flow[v] \in FlowRecord
  BY DEF WebTypeOK, FlowRecord
<1>3. \A v \in Uploads : /\ flow'[v] \in FlowRecord
                         /\ IF flow[v].pc \in Unsent THEN Overtakes(v) ELSE flow'[v] = flow[v]
  BY <1>1, <1>2, OvertakeEffect
<1>4. flow' \in [Uploads -> FlowRecord]
  BY <1>1, <1>3
<1>5. page'.selected = None /\ page'.info = page.info /\ page'.link = page.link
  BY DEF PickNothing, WebTypeOK
<1>6. WebTypeOK'
  BY <1>4 DEF PickNothing, WebTypeOK, FlowRecord
<1> QED BY <1>3, <1>5, <1>6

LEMMA PostFilesEffect ==
    ASSUME WebTypeOK, NEW w \in Uploads, PostFiles(w)
    PROVE  /\ flow[w].pc = "files" /\ UNCHANGED page
           /\ \E f \in FileId :
                 /\ CreateFile(f, SizeOf[FileOf[w]])
                 /\ flow'[w].file = f /\ flow'[w].pc \in {"meta", "failed"}
                 /\ flow'[w].body = flow[w].body /\ flow'[w].link = flow[w].link
                 /\ flow'[w].overtaken = flow[w].overtaken
           /\ OthersStay(w) /\ WebTypeOK'
<1>1. PICK f \in IdsOf[w] :
          /\ CreateFile(f, SizeOf[FileOf[w]])
          /\ flow' = [flow EXCEPT ![w] = [@ EXCEPT !.file = f,
                         !.pc = IF files'[f].status = "pending" THEN "meta" ELSE "failed"]]
  BY DEF PostFiles
<1>2. f \in FileId
  BY WebAssumption
<1>3. PICK label \in {"meta", "failed"} :
          flow' = [flow EXCEPT ![w] = [@ EXCEPT !.file = f, !.pc = label]]
  BY <1>1
<1>4. /\ flow'[w].file = f /\ flow'[w].pc \in {"meta", "failed"}
      /\ flow'[w].body = flow[w].body /\ flow'[w].link = flow[w].link
      /\ flow'[w].overtaken = flow[w].overtaken
  BY <1>3 DEF WebTypeOK
<1>5. OthersStay(w)
  BY <1>3 DEF WebTypeOK, OthersStay
<1>6. UNCHANGED page /\ flow[w].pc = "files"
  BY DEF PostFiles
<1>7. WebTypeOK'
  BY <1>2, <1>3, <1>6 DEF WebTypeOK, FlowPC
<1> QED BY <1>1, <1>2, <1>4, <1>5, <1>6, <1>7

LEMMA SendBodyEffect ==
    ASSUME WebTypeOK, NEW w \in Uploads, SendBody(w)
    PROVE  /\ flow[w].pc = "meta" /\ UNCHANGED page
           /\ flow'[w].pc = "upload" /\ flow'[w].file = flow[w].file
           /\ flow'[w].body \in Content
           /\ page.selected # None => flow'[w].body = page.selected
           /\ flow'[w].link = flow[w].link /\ flow'[w].overtaken = flow[w].overtaken
           /\ OthersStay(w) /\ WebTypeOK'
<1>1. PICK c \in Content :
          /\ page.selected # None => c = page.selected
          /\ flow' = [flow EXCEPT ![w] = [@ EXCEPT !.pc = "upload", !.body = c]]
  BY PageDeclares DEF SendBody, WebTypeOK
<1>2. UNCHANGED page /\ flow[w].pc = "meta"
  BY DEF SendBody
<1>3. /\ flow'[w].pc = "upload" /\ flow'[w].file = flow[w].file /\ flow'[w].body = c
      /\ flow'[w].link = flow[w].link /\ flow'[w].overtaken = flow[w].overtaken
  BY <1>1 DEF WebTypeOK
<1>4. OthersStay(w)
  BY <1>1 DEF WebTypeOK, OthersStay
<1>5. WebTypeOK'
  BY <1>1, <1>2 DEF WebTypeOK, FlowPC
<1> QED BY <1>1, <1>2, <1>3, <1>4, <1>5

\* POST /links gives the flow a token of its file, or ends it.
LEMMA PostLinkEffect ==
    ASSUME TypeInv, WebTypeOK, WebLocals, NEW w \in Uploads, PostLink(w)
    PROVE  /\ flow[w].pc = "link" /\ UNCHANGED page /\ OthersStay(w) /\ WebTypeOK'
           /\ \/ MovesTo(w, "failed")
              \/ /\ flow'[w].pc = "linked" /\ flow'[w].file = flow[w].file
                 /\ flow'[w].body = flow[w].body /\ flow'[w].overtaken = flow[w].overtaken
                 /\ flow'[w].link \in Token /\ flow'[w].link \in tokens'
                 /\ flow'[w].link.file = flow[w].file
<1>1. flow[w].pc = "link" /\ UNCHANGED page
  BY DEF PostLink
<1>2. flow[w].file \in FileId
  BY <1>1 DEF WebLocals
<1>3. CASE FlowGoto(w, "failed")
  <2>1. MovesTo(w, "failed") /\ OthersStay(w) /\ flow' \in [Uploads -> FlowRecord]
    BY <1>3, MoveEffect DEF FlowPC
  <2>2. WebTypeOK'
    BY <1>1, <2>1 DEF WebTypeOK, FlowRecord
  <2> QED BY <1>1, <2>1, <2>2
<1>4. ASSUME CreateLink(flow[w].file, PageTTL),
             flow' = [flow EXCEPT ![w] = [@ EXCEPT !.pc = "linked",
                        !.link = signDownloadToken(flow[w].file, now + clampTTLSeconds(PageTTL))]]
      PROVE  /\ OthersStay(w) /\ WebTypeOK'
             /\ flow'[w].pc = "linked" /\ flow'[w].file = flow[w].file
             /\ flow'[w].body = flow[w].body /\ flow'[w].overtaken = flow[w].overtaken
             /\ flow'[w].link \in Token /\ flow'[w].link \in tokens'
             /\ flow'[w].link.file = flow[w].file
  <2>1. PICK t : t = signDownloadToken(flow[w].file, now + clampTTLSeconds(PageTTL))
    OBVIOUS
  <2>2. now + clampTTLSeconds(PageTTL) \in Nat
    BY PageDeclares, ClampType, TTLAssumption DEF TypeInv, TypeOK, StoreTypeOK
  <2>3. t \in Token /\ t.file = flow[w].file
    BY <1>2, <2>1, <2>2 DEF signDownloadToken, Token
  <2>4. t \in tokens'
    BY <1>4, <2>1 DEF CreateLink
  <2>5. flow' = [flow EXCEPT ![w] = [@ EXCEPT !.pc = "linked", !.link = t]]
    BY <1>4, <2>1
  <2>6. /\ flow'[w].pc = "linked" /\ flow'[w].file = flow[w].file
        /\ flow'[w].body = flow[w].body /\ flow'[w].overtaken = flow[w].overtaken
        /\ flow'[w].link = t
    BY <2>5 DEF WebTypeOK
  <2>7. OthersStay(w)
    BY <2>5 DEF WebTypeOK, OthersStay
  <2>8. WebTypeOK'
    BY <1>1, <2>3, <2>5 DEF WebTypeOK, FlowPC
  <2> QED BY <2>3, <2>4, <2>6, <2>7, <2>8
<1> QED BY <1>1, <1>3, <1>4 DEF PostLink

\* Steps that move a flow to another label, the page aside.
LEMMA MovingEffect ==
    ASSUME WebTypeOK, WebLocals, NEW w \in Uploads,
           UploadAnswer(w) \/ ConnectionLost(w) \/ ShowLink(w) \/ PostUpload(w)
    PROVE  /\ OthersStay(w) /\ WebTypeOK'
           /\ \/ /\ UploadAnswer(w) /\ flow[w].pc = "answer" /\ UNCHANGED page
                 /\ MovesTo(w, "link") \/ MovesTo(w, "failed")
              \/ /\ ConnectionLost(w) /\ MovesTo(w, "failed") /\ UNCHANGED page
                 /\ flow[w].pc \in {"files", "meta", "upload", "answer", "link"}
              \/ /\ ShowLink(w) /\ flow[w].pc = "linked" /\ MovesTo(w, "done")
                 /\ page'.link = flow[w].link
                 /\ page'.info = page.info /\ page'.selected = page.selected
              \/ /\ PostUpload(w) /\ flow[w].pc = "upload" /\ MovesTo(w, "answer")
                 /\ UNCHANGED page
<1>1. CASE UploadAnswer(w)
  <2>1. PICK label \in {"link", "failed"} : FlowGoto(w, label)
    BY <1>1 DEF UploadAnswer
  <2>2. MovesTo(w, label) /\ OthersStay(w) /\ flow' \in [Uploads -> FlowRecord]
    BY <2>1, MoveEffect DEF FlowPC
  <2>3. UNCHANGED page /\ flow[w].pc = "answer"
    BY <1>1 DEF UploadAnswer
  <2>4. WebTypeOK'
    BY <2>2, <2>3 DEF WebTypeOK, FlowRecord
  <2> QED BY <1>1, <2>2, <2>3, <2>4
<1>2. CASE ConnectionLost(w)
  <2>1. FlowGoto(w, "failed") /\ UNCHANGED page
        /\ flow[w].pc \in {"files", "meta", "upload", "answer", "link"}
    BY <1>2 DEF ConnectionLost
  <2>2. MovesTo(w, "failed") /\ OthersStay(w) /\ flow' \in [Uploads -> FlowRecord]
    BY <2>1, MoveEffect DEF FlowPC
  <2>3. WebTypeOK'
    BY <2>1, <2>2 DEF WebTypeOK, FlowRecord
  <2> QED BY <1>2, <2>1, <2>2, <2>3
<1>3. CASE ShowLink(w)
  <2>1. FlowGoto(w, "done") /\ flow[w].pc = "linked"
        /\ page' = [page EXCEPT !.link = flow[w].link]
    BY <1>3 DEF ShowLink
  <2>2. MovesTo(w, "done") /\ OthersStay(w) /\ flow' \in [Uploads -> FlowRecord]
    BY <2>1, MoveEffect DEF FlowPC
  <2>3. flow[w].link \in Token
    BY <2>1 DEF WebLocals
  <2>4. /\ page'.link = flow[w].link
        /\ page'.info = page.info /\ page'.selected = page.selected
    BY <2>1 DEF WebTypeOK
  <2>5. WebTypeOK'
    BY <2>1, <2>2, <2>3 DEF WebTypeOK, FlowRecord
  <2> QED BY <1>3, <2>1, <2>2, <2>4, <2>5
<1>4. CASE PostUpload(w)
  <2>1. FlowGoto(w, "answer") /\ UNCHANGED page /\ flow[w].pc = "upload"
    BY <1>4 DEF PostUpload
  <2>2. MovesTo(w, "answer") /\ OthersStay(w) /\ flow' \in [Uploads -> FlowRecord]
    BY <2>1, MoveEffect DEF FlowPC
  <2>3. WebTypeOK'
    BY <2>1, <2>2 DEF WebTypeOK, FlowRecord
  <2> QED BY <1>4, <2>1, <2>2, <2>3
<1> QED BY <1>1, <1>2, <1>3, <1>4

-----------------------------------------------------------------------------
(* What the steps of the backend leave of what flows rely on *)

\* Ids and tokens stay, and a row that stays keeps its size.
BackendKeeps ==
    /\ issued \subseteq issued' /\ tokens \subseteq tokens'
    /\ \A f \in FileId : (f \in issued /\ files'[f].status # "absent") =>
           files[f].status # "absent" /\ files'[f].size = files[f].size

LEMMA BackendKept == TypeInv /\ [Next]_vars => BackendKeeps
<1> SUFFICES ASSUME TypeInv, [Next]_vars PROVE BackendKeeps
  OBVIOUS
<1>1. issued \subseteq issued'
  BY IssuedGrows
<1>2. tokens \subseteq tokens'
  BY DEF Next, vars, Crash, DownloadCrash, DownloadNext, DownloadStep, CreateLink, VerifyToken,
         SelectForDownload, OpenObject, StreamObject
<1>3. ASSUME NEW f \in FileId, f \in issued, files'[f].status # "absent"
      PROVE  files[f].status # "absent" /\ files'[f].size = files[f].size
  BY <1>3, RowFate DEF Inserts, MovesOn, Drops, NoRow
<1> QED BY <1>1, <1>2, <1>3 DEF BackendKeeps

\* Only POST /upload gives a request its file and body.
RequestsKeep == \A w \in Uploads : up'[w].file = up[w].file /\ up'[w].content = up[w].content

LEMMA BackendRequests == TypeInv /\ Backend => RequestsKeep
<1> SUFFICES ASSUME TypeInv, Backend, NEW w \in Uploads
             PROVE  up'[w].file = up[w].file /\ up'[w].content = up[w].content
  BY DEF RequestsKeep
<1>1. CASE UNCHANGED up
  BY <1>1
<1>2. ASSUME NEW v \in Uploads, UploadStep(v), UNCHANGED <<job, adm, tokens, dl, crashes>>
      PROVE  up'[w].file = up[w].file /\ up'[w].content = up[w].content
  <2>1. CASE v # w
    BY <1>2, <2>1, UploadAdvances
  <2>2. CASE v = w
    <3>1. up[w].file \in FileId
      BY <1>2, <2>2 DEF UploadStep, PutObject, PutObjectFails, MarkPutFailed, MarkStored,
                        HashObject, MarkHashFailed, MarkHashed, TypeInv, UploadLocals
    <3>2. Next
      BY <1>2 DEF Next, UploadNext
    <3> QED BY <3>1, <3>2, AcceptedStays
  <2> QED BY <2>1, <2>2
<1>3. CASE Crash
  BY <1>3 DEF Crash, UploadCrash, TypeInv, TypeOK, UploadTypeOK
<1> QED BY <1>1, <1>2, <1>3 DEF Backend

LEMMA PostUploadRequests ==
    ASSUME TypeInv, WebLocals, NEW w \in Uploads, PostUpload(w)
    PROVE  /\ \A v \in Uploads \ {w} : up'[v] = up[v]
           /\ up'[w].file # None => up'[w].file = flow[w].file /\ up'[w].content = flow[w].body
<1>1. PICK f \in FileId, c \in Content : f = flow[w].file /\ c = flow[w].body
  BY DEF PostUpload, WebLocals
<1>2. CASE AcceptUpload(w, f, c)
  BY <1>1, <1>2 DEF AcceptUpload, TypeInv, TypeOK, UploadTypeOK
<1>3. CASE RejectUpload(w)
  BY <1>3, RejectEffect
<1> QED BY <1>1, <1>2, <1>3 DEF PostUpload

-----------------------------------------------------------------------------
(* The invariant is kept, action by action *)

\* The part of the invariant that is about flows.
FlowInv == WebLocals /\ OwnFile /\ BodyPicked /\ SizeDeclared /\ LinksOwn

\* A step after which every flow has the file it had.
LEMMA SizesStay ==
    ASSUME OwnFile, SizeDeclared, BackendKeeps, \A v \in Uploads : flow'[v].file = flow[v].file
    PROVE  SizeDeclared'
<1> SUFFICES ASSUME NEW w \in Uploads, NEW f \in FileId, flow'[w].file = f,
                    files'[f].status # "absent"
             PROVE  files'[f].size = SizeOf[FileOf[w]]
  BY DEF SizeDeclared
<1>1. flow[w].file = f /\ f \in issued
  BY NoneAssumption DEF OwnFile
<1> QED BY <1>1 DEF SizeDeclared, BackendKeeps

\* A step after which, moreover, every request and every body is the same.
LEMMA OwnershipStays ==
    ASSUME OwnFile, BackendKeeps, RequestsKeep,
           \A v \in Uploads : flow'[v].file = flow[v].file /\ flow'[v].body = flow[v].body
    PROVE  OwnFile'
<1>1. ASSUME NEW w \in Uploads, flow'[w].file # None  PROVE flow'[w].file \in issued'
  BY <1>1 DEF OwnFile, BackendKeeps
<1>2. ASSUME NEW v \in Uploads, NEW w \in Uploads, flow'[v].file = flow'[w].file,
             flow'[v].file # None
      PROVE  v = w
  BY <1>2 DEF OwnFile
<1>3. ASSUME NEW w \in Uploads, up'[w].file # None
      PROVE  up'[w].file = flow'[w].file /\ up'[w].content = flow'[w].body
  BY <1>3 DEF OwnFile, RequestsKeep
<1> QED BY <1>1, <1>2, <1>3 DEF OwnFile

LEMMA BackendStep ==
    ASSUME FlowInv, BackendKeeps, RequestsKeep, UNCHANGED <<page, flow>>
    PROVE  FlowInv'
<1>1. OwnFile' /\ SizeDeclared'
  BY SizesStay, OwnershipStays DEF FlowInv
<1>2. WebLocals'
  BY DEF FlowInv, WebLocals, RequestsKeep
<1>3. BodyPicked'
  BY DEF FlowInv, BodyPicked
<1>4. LinksOwn'
  BY DEF FlowInv, LinksOwn, BackendKeeps
<1> QED BY <1>1, <1>2, <1>3, <1>4 DEF FlowInv

LEMMA PickStep ==
    ASSUME WebTypeOK, FlowInv, BackendKeeps, RequestsKeep, NEW w \in Uploads, Pick(w)
    PROVE  FlowInv'
<1>0. /\ MovesTo(w, "files") /\ flow[w].pc = "idle"
      /\ \A v \in Uploads \ {w} : Overtakes(v)
      /\ page' = [selected |-> FileOf[w], info |-> FileOf[w], link |-> None]
  BY PickEffect
<1>1. \A v \in Uploads : /\ flow'[v].file = flow[v].file /\ flow'[v].body = flow[v].body
                         /\ flow'[v].link = flow[v].link
                         /\ v # w => flow'[v].pc = flow[v].pc
  BY <1>0 DEF MovesTo, Overtakes
<1>2. flow[w].link = None /\ flow'[w].pc = "files" /\ flow'[w].overtaken = flow[w].overtaken
  BY <1>0 DEF FlowInv, LinksOwn, MovesTo
<1>3. \A v \in Uploads \ {w} :
          /\ flow'[v].overtaken # "unsent" => flow[v].pc \notin Unsent /\ flow[v].overtaken # "unsent"
          /\ flow'[v].overtaken = "no" => flow[v].pc \notin Unsent \cup Sent
  BY <1>0 DEF Overtakes, Unsent, Sent
<1>4. OwnFile' /\ SizeDeclared'
  BY <1>1, SizesStay, OwnershipStays DEF FlowInv
<1>5. WebLocals'
  BY <1>0, <1>1, <1>2 DEF FlowInv, WebLocals, RequestsKeep
<1>6. BodyPicked'
  BY <1>0, <1>1, <1>2, <1>3 DEF FlowInv, BodyPicked
<1>7. LinksOwn'
  <2>1. \A v \in Uploads : flow'[v].link # None =>
           /\ flow'[v].pc \in {"linked", "done"}
           /\ flow'[v].link \in tokens' /\ flow'[v].link.file = flow'[v].file
           /\ flow'[v].file # None
    BY <1>1, <1>2 DEF FlowInv, LinksOwn, BackendKeeps
  <2>2. page'.link = None /\ page'.info = FileOf[w]
    BY <1>0
  <2>3. \A v \in Uploads : (flow'[v].overtaken = "no" /\ flow'[v].pc \in Unsent \cup Sent)
           => page'.info = FileOf[v]
    BY <1>1, <1>3, <2>2
  <2> QED BY <2>1, <2>2, <2>3 DEF LinksOwn
<1> QED BY <1>4, <1>5, <1>6, <1>7 DEF FlowInv

LEMMA PickNothingStep ==
    ASSUME WebTypeOK, FlowInv, BackendKeeps, RequestsKeep, PickNothing
    PROVE  FlowInv'
<1>0. /\ \A v \in Uploads : IF flow[v].pc \in Unsent THEN Overtakes(v) ELSE flow'[v] = flow[v]
      /\ page'.selected = None /\ page'.info = page.info /\ page'.link = page.link
  BY PickNothingEffect
<1>1. \A v \in Uploads : /\ flow'[v].file = flow[v].file /\ flow'[v].body = flow[v].body
                         /\ flow'[v].link = flow[v].link /\ flow'[v].pc = flow[v].pc
  BY <1>0 DEF Overtakes
<1>2. \A v \in Uploads :
          /\ flow[v].pc \in Unsent => flow'[v].overtaken = "unsent"
          /\ flow[v].pc \notin Unsent => flow'[v].overtaken = flow[v].overtaken
  BY <1>0 DEF Overtakes, Unsent, Sent
<1>3. OwnFile' /\ SizeDeclared'
  BY <1>1, SizesStay, OwnershipStays DEF FlowInv
<1>4. WebLocals'
  BY <1>1 DEF FlowInv, WebLocals, RequestsKeep
<1>5. BodyPicked'
  BY <1>1, <1>2 DEF FlowInv, BodyPicked
<1>6. LinksOwn'
  <2>1. \A v \in Uploads : flow'[v].link # None =>
           /\ flow'[v].pc \in {"linked", "done"}
           /\ flow'[v].link \in tokens' /\ flow'[v].link.file = flow'[v].file
           /\ flow'[v].file # None
    BY <1>1 DEF FlowInv, LinksOwn, BackendKeeps
  <2>2. page'.link # None => \E v \in Uploads : flow'[v].pc = "done" /\ flow'[v].link = page'.link
    BY <1>0, <1>1 DEF FlowInv, LinksOwn
  <2>3. \A v \in Uploads : flow'[v].overtaken = "no" =>
           /\ flow'[v].pc \in Unsent \cup Sent => page'.info = FileOf[v]
           /\ (page'.link # None /\ flow'[v].link = page'.link) => page'.info = FileOf[v]
    BY <1>0, <1>1, <1>2 DEF FlowInv, LinksOwn
  <2> QED BY <2>1, <2>2, <2>3 DEF LinksOwn
<1> QED BY <1>3, <1>4, <1>5, <1>6 DEF FlowInv

\* The new record is the flow's own: uuid.New never returned its id before.
LEMMA PostFilesStep ==
    ASSUME RecordInv, WebTypeOK, FlowInv, BackendKeeps, NEW w \in Uploads, PostFiles(w)
    PROVE  FlowInv'
<1>1. PICK f \in FileId :
          /\ CreateFile(f, SizeOf[FileOf[w]])
          /\ flow'[w].file = f /\ flow'[w].pc \in {"meta", "failed"}
          /\ flow'[w].body = flow[w].body /\ flow'[w].link = flow[w].link
          /\ flow'[w].overtaken = flow[w].overtaken
  BY PostFilesEffect
<1>2. flow[w].pc = "files" /\ UNCHANGED page /\ \A v \in Uploads : v # w => flow'[v] = flow[v]
  BY PostFilesEffect DEF OthersStay
<1>3. f \notin issued /\ f \in issued' /\ UNCHANGED up /\ f # None
  BY <1>1, NoneAssumption DEF CreateFile
<1>4. up[w].file = None /\ flow[w].link = None
  BY <1>2 DEF FlowInv, WebLocals, LinksOwn
<1>5. \A v \in Uploads : v # w => flow[v].file # f
  BY <1>3 DEF FlowInv, OwnFile
<1>6. OwnFile'
  <2>1. ASSUME NEW v \in Uploads, flow'[v].file # None  PROVE flow'[v].file \in issued'
    BY <1>1, <1>2, <1>3, <2>1 DEF FlowInv, OwnFile, BackendKeeps
  <2>2. ASSUME NEW v \in Uploads, NEW x \in Uploads, flow'[v].file = flow'[x].file,
               flow'[v].file # None
        PROVE  v = x
    BY <1>1, <1>2, <1>5, <2>2 DEF FlowInv, OwnFile
  <2>3. ASSUME NEW v \in Uploads, up'[v].file # None
        PROVE  up'[v].file = flow'[v].file /\ up'[v].content = flow'[v].body
    BY <1>2, <1>3, <1>4, <2>3 DEF FlowInv, OwnFile
  <2> QED BY <2>1, <2>2, <2>3 DEF OwnFile
<1>7. SizeDeclared'
  <2> SUFFICES ASSUME NEW v \in Uploads, NEW g \in FileId, flow'[v].file = g,
                      files'[g].status # "absent"
               PROVE  files'[g].size = SizeOf[FileOf[v]]
    BY DEF SizeDeclared
  <2>1. CASE v = w
    <3>1. files[f].status = "absent"
      BY <1>3 DEF RecordInv, Known
    <3>2. files' = Inserted(f, SizeOf[FileOf[w]]) \/ files' = files
      BY <1>1 DEF CreateFile, Inserted
    <3>3. g = f
      BY <1>1, <2>1
    <3>4. files' = Inserted(f, SizeOf[FileOf[w]])
      BY <3>1, <3>2, <3>3
    <3> QED BY <2>1, <3>3, <3>4 DEF Inserted, RecordInv, TypeInv, TypeOK, StoreTypeOK
  <2>2. CASE v # w
    <3>1. flow[v].file = g /\ g \in issued
      BY <1>2, <2>2, NoneAssumption DEF FlowInv, OwnFile
    <3> QED BY <3>1 DEF FlowInv, SizeDeclared, BackendKeeps
  <2> QED BY <2>1, <2>2
<1>8. WebLocals'
  BY <1>1, <1>2, <1>3, <1>4 DEF FlowInv, WebLocals
<1>9. BodyPicked'
  BY <1>1, <1>2 DEF FlowInv, BodyPicked, Unsent
<1>10. LinksOwn'
  BY <1>1, <1>2, <1>4 DEF FlowInv, LinksOwn, BackendKeeps, Unsent, Sent
<1> QED BY <1>6, <1>7, <1>8, <1>9, <1>10 DEF FlowInv

\* The body is the picked file, or else the flow was overtaken.
LEMMA SendBodyStep ==
    ASSUME WebTypeOK, FlowInv, BackendKeeps, RequestsKeep, NEW w \in Uploads, SendBody(w)
    PROVE  FlowInv'
<1>1. /\ flow[w].pc = "meta" /\ UNCHANGED page
      /\ flow'[w].pc = "upload" /\ flow'[w].file = flow[w].file
      /\ flow'[w].body \in Content
      /\ page.selected # None => flow'[w].body = page.selected
      /\ flow'[w].link = flow[w].link /\ flow'[w].overtaken = flow[w].overtaken
  BY SendBodyEffect
<1>2. \A v \in Uploads : v # w => flow'[v] = flow[v]
  BY SendBodyEffect DEF OthersStay
<1>3. up[w].file = None /\ flow[w].file \in FileId /\ flow[w].link = None
  BY <1>1 DEF FlowInv, WebLocals, LinksOwn
<1>4. \A v \in Uploads : flow'[v].file = flow[v].file
  BY <1>1, <1>2
<1>5. SizeDeclared'
  BY <1>4, SizesStay DEF FlowInv
<1>6. OwnFile'
  <2>1. ASSUME NEW v \in Uploads, up'[v].file # None
        PROVE  up'[v].file = flow'[v].file /\ up'[v].content = flow'[v].body
    BY <1>2, <1>3, <2>1 DEF FlowInv, OwnFile, RequestsKeep
  <2> QED BY <1>4, <2>1 DEF FlowInv, OwnFile, BackendKeeps
<1>7. WebLocals'
  BY <1>1, <1>2, <1>3 DEF FlowInv, WebLocals, RequestsKeep
<1>8. BodyPicked'
  <2>1. flow[w].overtaken # "unsent" => page.selected = FileOf[w] /\ FileOf[w] # None
    BY <1>1, PageDeclares, NoneAssumption DEF FlowInv, BodyPicked, Unsent
  <2> QED BY <1>1, <1>2, <2>1 DEF FlowInv, BodyPicked, Unsent
<1>9. LinksOwn'
  BY <1>1, <1>2, <1>3 DEF FlowInv, LinksOwn, BackendKeeps, Unsent, Sent
<1> QED BY <1>5, <1>6, <1>7, <1>8, <1>9 DEF FlowInv

\* A step of a flow that has no link and keeps its file and body.
LEMMA MoveStep ==
    ASSUME WebTypeOK, FlowInv, BackendKeeps, RequestsKeep, UNCHANGED page,
           NEW w \in Uploads, NEW label \in {"link", "failed"}, MovesTo(w, label), OthersStay(w),
           \/ flow[w].pc = "answer"
           \/ label = "failed" /\ flow[w].pc \in {"files", "meta", "upload", "answer", "link"}
    PROVE  FlowInv'
<1>1. /\ flow'[w].pc = label /\ flow'[w].file = flow[w].file /\ flow'[w].body = flow[w].body
      /\ flow'[w].link = flow[w].link /\ flow'[w].overtaken = flow[w].overtaken
  BY DEF MovesTo
<1>2. \A v \in Uploads : v # w => flow'[v] = flow[v]
  BY DEF OthersStay
<1>3. flow[w].link = None
  BY DEF FlowInv, LinksOwn
<1>4. OwnFile' /\ SizeDeclared'
  BY <1>1, <1>2, SizesStay, OwnershipStays DEF FlowInv
<1>5. WebLocals'
  BY <1>1, <1>2 DEF FlowInv, WebLocals, RequestsKeep
<1>6. BodyPicked'
  BY <1>1, <1>2 DEF FlowInv, BodyPicked, Unsent
<1>7. LinksOwn'
  BY <1>1, <1>2, <1>3 DEF FlowInv, LinksOwn, BackendKeeps, Unsent, Sent
<1> QED BY <1>4, <1>5, <1>6, <1>7 DEF FlowInv

\* A request is accepted for the flow's file, with the flow's body.
LEMMA PostUploadStep ==
    ASSUME TypeInv, WebTypeOK, FlowInv, BackendKeeps, NEW w \in Uploads, PostUpload(w)
    PROVE  FlowInv'
<1>1. /\ MovesTo(w, "answer") /\ OthersStay(w) /\ flow[w].pc = "upload" /\ UNCHANGED page
  BY MoveEffect DEF PostUpload, FlowPC
<1>2. /\ flow'[w].pc = "answer" /\ flow'[w].file = flow[w].file /\ flow'[w].body = flow[w].body
      /\ flow'[w].link = flow[w].link /\ flow'[w].overtaken = flow[w].overtaken
  BY <1>1 DEF MovesTo
<1>3. \A v \in Uploads : v # w => flow'[v] = flow[v]
  BY <1>1 DEF OthersStay
<1>4. \A v \in Uploads : v # w => up'[v] = up[v]
  BY PostUploadRequests DEF FlowInv
<1>5. up'[w].file # None => up'[w].file = flow[w].file /\ up'[w].content = flow[w].body
  BY PostUploadRequests DEF FlowInv
<1>6. flow[w].file \in FileId /\ flow[w].link = None
  BY <1>1 DEF FlowInv, WebLocals, LinksOwn
<1>7. \A v \in Uploads : flow'[v].file = flow[v].file
  BY <1>2, <1>3
<1>8. SizeDeclared'
  BY <1>7, SizesStay DEF FlowInv
<1>9. OwnFile'
  <2>1. ASSUME NEW v \in Uploads, up'[v].file # None
        PROVE  up'[v].file = flow'[v].file /\ up'[v].content = flow'[v].body
    BY <1>2, <1>3, <1>4, <1>5, <2>1 DEF FlowInv, OwnFile
  <2> QED BY <1>7, <2>1 DEF FlowInv, OwnFile, BackendKeeps
<1>10. WebLocals'
  BY <1>1, <1>2, <1>3, <1>4, <1>6 DEF FlowInv, WebLocals
<1>11. BodyPicked'
  BY <1>1, <1>2, <1>3 DEF FlowInv, BodyPicked, Unsent
<1>12. LinksOwn'
  BY <1>1, <1>2, <1>3, <1>6 DEF FlowInv, LinksOwn, BackendKeeps, Unsent, Sent
<1> QED BY <1>8, <1>9, <1>10, <1>11, <1>12 DEF FlowInv

\* The link leads to the flow's own file.
LEMMA PostLinkStep ==
    ASSUME TypeInv, WebTypeOK, FlowInv, BackendKeeps, RequestsKeep, NEW w \in Uploads, PostLink(w)
    PROVE  FlowInv'
<1>1. flow[w].pc = "link" /\ UNCHANGED page /\ OthersStay(w)
  BY PostLinkEffect DEF FlowInv
<1>2. CASE MovesTo(w, "failed")
  BY <1>1, <1>2, MoveStep
<1>3. CASE /\ flow'[w].pc = "linked" /\ flow'[w].file = flow[w].file
           /\ flow'[w].body = flow[w].body /\ flow'[w].overtaken = flow[w].overtaken
           /\ flow'[w].link \in Token /\ flow'[w].link \in tokens'
           /\ flow'[w].link.file = flow[w].file
  <2>1. \A v \in Uploads : v # w => flow'[v] = flow[v]
    BY <1>1 DEF OthersStay
  <2>2. \A v \in Uploads : flow'[v].file = flow[v].file /\ flow'[v].body = flow[v].body
    BY <1>3, <2>1
  <2>3. flow[w].file \in FileId
    BY <1>1 DEF FlowInv, WebLocals
  <2>4. OwnFile' /\ SizeDeclared'
    BY <2>2, SizesStay, OwnershipStays DEF FlowInv
  <2>5. WebLocals'
    BY <1>3, <2>1, <2>3 DEF FlowInv, WebLocals, RequestsKeep
  <2>6. BodyPicked'
    BY <1>1, <1>3, <2>1 DEF FlowInv, BodyPicked, Unsent
  <2>7. LinksOwn'
    <3>1. \A v \in Uploads : flow'[v].link # None =>
             /\ flow'[v].pc \in {"linked", "done"}
             /\ flow'[v].link \in tokens' /\ flow'[v].link.file = flow'[v].file
             /\ flow'[v].file # None
      BY <1>3, <2>1, <2>3, NoneAssumption DEF FlowInv, LinksOwn, BackendKeeps
    <3>2. page'.link # None => \E v \in Uploads : flow'[v].pc = "done" /\ flow'[v].link = page'.link
      BY <1>1, <2>1 DEF FlowInv, LinksOwn
    <3>3. flow[w].overtaken = "no" => page.info = FileOf[w]
      BY <1>1 DEF FlowInv, LinksOwn, Sent
    <3>4. \A v \in Uploads : flow'[v].overtaken = "no" =>
             /\ flow'[v].pc \in Unsent \cup Sent => page'.info = FileOf[v]
             /\ (page'.link # None /\ flow'[v].link = page'.link) => page'.info = FileOf[v]
      BY <1>1, <1>3, <2>1, <3>3 DEF FlowInv, LinksOwn
    <3> QED BY <3>1, <3>2, <3>4 DEF LinksOwn
  <2> QED BY <2>4, <2>5, <2>6, <2>7 DEF FlowInv
<1> QED BY <1>2, <1>3, PostLinkEffect DEF FlowInv

\* No other flow has this link: it names its file.
LEMMA ShowLinkStep ==
    ASSUME WebTypeOK, FlowInv, BackendKeeps, RequestsKeep, NEW w \in Uploads, ShowLink(w)
    PROVE  FlowInv'
<1>1. /\ flow[w].pc = "linked" /\ MovesTo(w, "done") /\ OthersStay(w)
      /\ page'.link = flow[w].link /\ page'.info = page.info /\ page'.selected = page.selected
  BY MovingEffect DEF FlowInv, UploadAnswer, ConnectionLost, ShowLink, PostUpload, MovesTo
<1>2. /\ flow'[w].pc = "done" /\ flow'[w].file = flow[w].file /\ flow'[w].body = flow[w].body
      /\ flow'[w].link = flow[w].link /\ flow'[w].overtaken = flow[w].overtaken
  BY <1>1 DEF MovesTo
<1>3. \A v \in Uploads : v # w => flow'[v] = flow[v]
  BY <1>1 DEF OthersStay
<1>4. \A v \in Uploads : /\ flow'[v].file = flow[v].file /\ flow'[v].body = flow[v].body
                         /\ flow'[v].link = flow[v].link /\ flow'[v].overtaken = flow[v].overtaken
  BY <1>2, <1>3
<1>5. OwnFile' /\ SizeDeclared'
  BY <1>4, SizesStay, OwnershipStays DEF FlowInv
<1>6. WebLocals'
  BY <1>2, <1>3 DEF FlowInv, WebLocals, RequestsKeep
<1>7. BodyPicked'
  BY <1>1, <1>2, <1>3 DEF FlowInv, BodyPicked, Unsent
<1>8. LinksOwn'
  <2>1. \A v \in Uploads : flow'[v].link # None =>
           /\ flow'[v].pc \in {"linked", "done"}
           /\ flow'[v].link \in tokens' /\ flow'[v].link.file = flow'[v].file
           /\ flow'[v].file # None
    BY <1>2, <1>3 DEF FlowInv, LinksOwn, BackendKeeps
  <2>2. flow'[w].pc = "done" /\ flow'[w].link = page'.link
    BY <1>1, <1>2
  <2>3. flow[w].overtaken = "no" => page.info = FileOf[w]
    BY <1>1 DEF FlowInv, LinksOwn, Sent
  <2>4. ASSUME NEW v \in Uploads, flow[v].link = flow[w].link, flow[w].link # None
        PROVE  v = w
    <3>1. flow[v].link.file = flow[v].file /\ flow[w].link.file = flow[w].file
          /\ flow[w].file # None
      BY <2>4 DEF FlowInv, LinksOwn
    <3>2. flow[v].file = flow[w].file
      BY <2>4, <3>1
    <3> QED BY <3>1, <3>2 DEF FlowInv, OwnFile
  <2>5. \A v \in Uploads : flow'[v].overtaken = "no" =>
           /\ flow'[v].pc \in Unsent \cup Sent => page'.info = FileOf[v]
           /\ (page'.link # None /\ flow'[v].link = page'.link) => page'.info = FileOf[v]
    BY <1>1, <1>2, <1>3, <1>4, <2>3, <2>4 DEF FlowInv, LinksOwn, Unsent, Sent
  <2> QED BY <2>1, <2>2, <2>5 DEF LinksOwn
<1> QED BY <1>5, <1>6, <1>7, <1>8 DEF FlowInv

LEMMA WebStep == WebInv /\ [WebNext]_webVars => WebInv'
<1> SUFFICES ASSUME WebInv, [WebNext]_webVars PROVE WebInv'
  OBVIOUS
<1>1. RecordInv /\ TypeInv /\ WebTypeOK /\ WebLocals /\ FlowInv
  BY DEF WebInv, RecordInv, FlowInv
<1>2. [Next]_vars
  BY <1>1, PageIsClient
<1>3. RecordInv' /\ BackendKeeps
  BY <1>1, <1>2, RecordStep, BackendKept
<1>4. UNCHANGED up => RequestsKeep
  BY DEF RequestsKeep
<1>5. UNCHANGED vars => RequestsKeep
  BY <1>4 DEF vars
<1>6. ASSUME WebTypeOK', FlowInv'  PROVE WebInv'
  BY <1>3, <1>6 DEF WebInv, FlowInv
<1>7. CASE Backend /\ UNCHANGED <<page, flow>>
  <2>1. FlowInv'
    BY <1>1, <1>3, <1>7, BackendRequests, BackendStep
  <2>2. WebTypeOK'
    BY <1>1, <1>7 DEF WebTypeOK
  <2> QED BY <1>6, <2>1, <2>2
<1>8. CASE UNCHANGED webVars
  <2>1. UNCHANGED vars /\ UNCHANGED <<page, flow>>
    BY <1>8 DEF webVars
  <2>2. FlowInv'
    BY <1>1, <1>3, <1>5, <2>1, BackendStep
  <2>3. WebTypeOK'
    BY <1>1, <2>1 DEF WebTypeOK
  <2> QED BY <1>6, <2>2, <2>3
<1>9. CASE PickNothing
  <2>1. UNCHANGED vars
    BY <1>9 DEF PickNothing
  <2> QED BY <1>1, <1>3, <1>5, <1>6, <1>9, <2>1, PickNothingStep, PickNothingEffect
<1>10. ASSUME NEW w \in Uploads, Pick(w)  PROVE WebInv'
  <2>1. UNCHANGED vars
    BY <1>10 DEF Pick
  <2> QED BY <1>1, <1>3, <1>5, <1>6, <1>10, <2>1, PickStep, PickEffect
<1>11. ASSUME NEW w \in Uploads, PostFiles(w)  PROVE WebInv'
  BY <1>1, <1>3, <1>6, <1>11, PostFilesStep, PostFilesEffect
<1>12. ASSUME NEW w \in Uploads, SendBody(w)  PROVE WebInv'
  <2>1. UNCHANGED vars
    BY <1>12 DEF SendBody
  <2> QED BY <1>1, <1>3, <1>5, <1>6, <1>12, <2>1, SendBodyStep, SendBodyEffect
<1>13. ASSUME NEW w \in Uploads, PostUpload(w)  PROVE WebInv'
  <2>1. WebTypeOK'
    BY <1>1, <1>13, MovingEffect
  <2> QED BY <1>1, <1>3, <1>6, <1>13, <2>1, PostUploadStep
<1>14. ASSUME NEW w \in Uploads, UploadAnswer(w)  PROVE WebInv'
  <2>1. UNCHANGED vars /\ flow[w].pc = "answer" /\ UNCHANGED page
    BY <1>14 DEF UploadAnswer
  <2>2. PICK label \in {"link", "failed"} : FlowGoto(w, label)
    BY <1>14 DEF UploadAnswer
  <2>3. MovesTo(w, label) /\ OthersStay(w)
    BY <1>1, <2>2, MoveEffect DEF FlowPC
  <2>4. WebTypeOK'
    BY <1>1, <1>14, MovingEffect
  <2> QED BY <1>1, <1>3, <1>5, <1>6, <2>1, <2>3, <2>4, MoveStep
<1>15. ASSUME NEW w \in Uploads, ConnectionLost(w)  PROVE WebInv'
  <2>1. /\ UNCHANGED vars /\ UNCHANGED page /\ FlowGoto(w, "failed")
        /\ flow[w].pc \in {"files", "meta", "upload", "answer", "link"}
    BY <1>15 DEF ConnectionLost
  <2>2. MovesTo(w, "failed") /\ OthersStay(w)
    BY <1>1, <2>1, MoveEffect DEF FlowPC
  <2>3. WebTypeOK'
    BY <1>1, <1>15, MovingEffect
  <2> QED BY <1>1, <1>3, <1>5, <1>6, <2>1, <2>2, <2>3, MoveStep
<1>16. ASSUME NEW w \in Uploads, PostLink(w)  PROVE WebInv'
  <2>1. UNCHANGED up
    BY <1>16 DEF PostLink
  <2>2. WebTypeOK'
    BY <1>1, <1>16, PostLinkEffect
  <2> QED BY <1>1, <1>3, <1>4, <1>6, <1>16, <2>1, <2>2, PostLinkStep
<1>17. ASSUME NEW w \in Uploads, ShowLink(w)  PROVE WebInv'
  <2>1. UNCHANGED vars
    BY <1>17 DEF ShowLink
  <2>2. WebTypeOK'
    BY <1>1, <1>17, MovingEffect
  <2> QED BY <1>1, <1>3, <1>5, <1>6, <1>17, <2>1, <2>2, ShowLinkStep
<1> QED
  BY <1>7, <1>8, <1>9, <1>10, <1>11, <1>12, <1>13, <1>14, <1>15, <1>16, <1>17
  DEF WebNext, FlowStep

LEMMA WebInvariant == WebSpec => []WebInv
BY WebInit0, WebStep, PTL DEF WebSpec

-----------------------------------------------------------------------------
(* What follows *)

\* The page is one of the clients FileDrop allows: whatever it does, with
\* however many selections, the backend behaves as FileDrop says. So every
\* theorem about Spec holds of the backend behind the page.
THEOREM PageUsesBackend == WebSpec => Spec
<1>1. WebInit => Init
  BY DEF WebInit
<1>2. WebInv /\ [WebNext]_webVars => [Next]_vars
  BY PageIsClient DEF WebInv
<1> QED BY <1>1, <1>2, WebInvariant, PTL DEF WebSpec, Spec

\* The page and the flows of uploadFile have their types: a flow has its id,
\* body and link when it is about to use them.
THEOREM PageTyped == WebSpec => []WebTypeOK
<1>1. WebInv => WebTypeOK
  BY DEF WebInv
<1> QED BY <1>1, WebInvariant, PTL

\* The page never posts two bodies for one record, so behind it sha256_hex is
\* the digest of the stored object, which arbitrary clients can break.
LEMMA OneUploadPerFile ==
    ASSUME WebInv, NEW f \in FileId
    PROVE  OneBody(f)
<1> SUFFICES ASSUME NEW u \in Attempts(f), NEW v \in Attempts(f) PROVE u = v
  BY DEF OneBody
<1>1. u \in Uploads /\ v \in Uploads /\ up[u].file = f /\ up[v].file = f /\ f # None
  BY NoneAssumption DEF Attempts
<1>2. flow[u].file = f /\ flow[v].file = f
  BY <1>1 DEF WebInv, OwnFile
<1> QED BY <1>1, <1>2 DEF WebInv, OwnFile

LEMMA StoredHash == WebInv => HashOfStoredFile
<1> SUFFICES ASSUME WebInv, NEW f \in FileId, files[f].status \in Downloadable,
                    objects[ObjectKey(f)] # None
             PROVE  files[f].hash = HashTool(objects[ObjectKey(f)])
  BY DEF HashOfStoredFile
<1>1. objects[ObjectKey(f)] \in Offered(f)
  BY DEF WebInv, RecordInv, Provenance, ObjectsOffered
<1>2. PICK c \in Offered(f) : files[f].hash = HashTool(c)
  BY DEF WebInv, RecordInv, Provenance, RowsOffered
<1> QED BY <1>1, <1>2, OneUploadPerFile, OneBodyOffer

\* Behind the page, the recorded digest of every downloadable file is that of
\* its object, through crashes, late writes and sweeps: schema.sql's "SHA-256 of
\* the stored file" is true as long as clients behave as the page does.
THEOREM PageKeepsHashes == WebSpec => []HashOfStoredFile
BY StoredHash, WebInvariant, PTL

\* The record of a flow has the digest of what the flow posted and the size of
\* what it was started for, the same file unless it was overtaken before it
\* sent its body.
THEOREM PageRecordsPickedFile == WebSpec => []RecordOfPickedFile
<1>1. WebInv => RecordOfPickedFile
  <2> SUFFICES ASSUME WebInv, NEW w \in Uploads, flow[w].file # None,
                      files[flow[w].file].status \in Downloadable
               PROVE  /\ files[flow[w].file].hash = HashTool(flow[w].body)
                      /\ files[flow[w].file].size = SizeOf[FileOf[w]]
                      /\ flow[w].overtaken # "unsent" => flow[w].body = FileOf[w]
    BY DEF RecordOfPickedFile
  <2>1. PICK f \in FileId : f = flow[w].file
    BY DEF WebInv, WebTypeOK
  <2>2. PICK c \in Offered(f) : files[f].hash = HashTool(c)
    BY <2>1 DEF WebInv, RecordInv, Provenance, RowsOffered
  <2>3. PICK u \in Uploads : up[u].file = f /\ c = up[u].content
    BY <2>2 DEF Offered, Attempts
  <2>4. c \in Content /\ f # None
    BY <2>3, NoneAssumption DEF WebInv, RecordInv, TypeInv, UploadLocals
  <2>5. flow[u].file = f /\ c = flow[u].body
    BY <2>3, <2>4 DEF WebInv, OwnFile
  <2>6. u = w
    BY <2>1, <2>4, <2>5 DEF WebInv, OwnFile
  <2>7. flow[w].overtaken # "unsent" => flow[w].body = FileOf[w]
    BY <2>4, <2>5, <2>6, NoneAssumption DEF WebInv, BodyPicked
  <2>8. files[f].size = SizeOf[FileOf[w]]
    BY <2>1 DEF WebInv, SizeDeclared, Downloadable
  <2> QED BY <2>1, <2>2, <2>5, <2>6, <2>7, <2>8
<1> QED BY <1>1, WebInvariant, PTL

\* The link the page shows is true for as long as it is shown: its file is
\* downloadable until it is deleted, its object is there and has the recorded
\* digest while the file is young, and the details beside it are its file's.
THEOREM PageShowsTrueLink == WebSpec => []ShownLinkTrue
<1>1. WebInv => ShownLinkTrue
  <2> SUFFICES ASSUME WebInv, page.link # None PROVE ShownLinkTrue
    BY DEF ShownLinkTrue
  <2>1. PICK t \in tokens : t = page.link
    BY DEF WebInv, LinksOwn
  <2>2. PICK f \in FileId : f = t.file
    BY DEF WebInv, RecordInv, TypeInv, TypeOK, DownloadTypeOK, Token
  <2>3. files[f].status \in {"hashed", "absent"}
    BY <2>1, <2>2 DEF WebInv, RecordInv, LinkedFileHashed
  <2>4. ASSUME files[f].status # "absent"
        PROVE  /\ files[f].status \in Downloadable
               /\ files[f].created >= now - MaxAge =>
                     /\ objects[ObjectKey(f)] # None
                     /\ files[f].hash = HashTool(objects[ObjectKey(f)])
    <3>1. files[f].status \in Downloadable
      BY <2>3, <2>4 DEF Downloadable
    <3>2. ASSUME files[f].created >= now - MaxAge  PROVE objects[ObjectKey(f)] # None
      <4>1. Stale(f) \/ HasObject(f)
        BY <3>1 DEF WebInv, RecordInv, YoungKept
      <4>2. ~Stale(f)
        BY <2>4, <3>2, TimeAssumption
        DEF Stale, WebInv, RecordInv, TypeInv, TypeOK, StoreTypeOK, Row
      <4> QED BY <4>1, <4>2 DEF HasObject
    <3>3. objects[ObjectKey(f)] # None => files[f].hash = HashTool(objects[ObjectKey(f)])
      BY <3>1, StoredHash DEF HashOfStoredFile
    <3> QED BY <3>1, <3>2, <3>3
  <2>5. \A w \in Uploads : (flow[w].link = page.link /\ flow[w].overtaken = "no")
                               => page.info = FileOf[w]
    BY DEF WebInv, LinksOwn
  <2> QED BY <2>1, <2>2, <2>4, <2>5 DEF ShownLinkTrue
<1> QED BY <1>1, WebInvariant, PTL
=============================================================================
