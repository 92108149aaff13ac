------------------------------ MODULE Download ------------------------------
(***************************************************************************)
(* POST /links (createLinkHandler, signed tokens) and GET /download        *)
(* (downloadHandler). A token is its claims: only the server can sign, so  *)
(* the tokens that verify are the ones it handed out.                      *)
(***************************************************************************)
EXTENDS Store

CONSTANTS
    Downloads,      \* download requests
    RequestedTTL,   \* ttl_seconds clients ask for; 0 when omitted
    DefaultTTL,     \* 300
    MaxTTL          \* 86400

ASSUME TTLAssumption ==
    /\ RequestedTTL \subseteq Int
    /\ DefaultTTL \in Nat \ {0} /\ MaxTTL \in Nat \ {0} /\ DefaultTTL <= MaxTTL

VARIABLES
    tokens,         \* download tokens signed so far
    dl              \* locals and result of each download request

Token == [file : FileId, exp : Nat]
DownloadPC == {"idle", "select", "open", "stream", "done"}

\* What reached the client: no 200, the whole object, less than the response
\* promised, or a part of the object in a response that looks complete.
Body == {"none", "full", "short", "cut"}

DownloadTypeOK ==
    /\ tokens \subseteq Token
    /\ dl \in [Downloads -> [pc : DownloadPC, file : FileId \cup {None}, size : Nat,
                             content : Content \cup {None}, body : Body]]

DownloadInit ==
    /\ tokens = {}
    /\ dl = [d \in Downloads |-> [pc |-> "idle", file |-> None, size |-> 0,
                                  content |-> None, body |-> "none"]]

FinishDownload(d, b) == dl' = [dl EXCEPT ![d] = [@ EXCEPT !.pc = "done", !.body = b]]

\* Mutant of Downloadable: a file is linked as soon as it is stored.
DownloadableStored == {"stored", "hashed", "ready"}

\* The states a link is created for and a file is served in.
Downloadable == {"hashed", "ready"}

clampTTLSeconds(n) == IF n <= 0 THEN DefaultTTL ELSE IF n > MaxTTL THEN MaxTTL ELSE n

\* verifyDownloadToken: a token is good up to and including its second Exp.
Expired(t) == now > t.exp

-----------------------------------------------------------------------------
\* The claims; a signature only the server can make stands for itself.
signDownloadToken(f, expiresAt) == [file |-> f, exp |-> expiresAt]

\* createLinkHandler (every refusal leaves the state as it is).
CreateLink(f, ttl) ==
    /\ files[f].status \in Downloadable
    /\ tokens' = tokens \cup {signDownloadToken(f, now + clampTTLSeconds(ttl))}
    /\ UNCHANGED <<storeVars, dl>>

\* downloadHandler: verify the token; 410 when expired.
VerifyToken(d, t) ==
    /\ dl[d].pc = "idle"
    /\ dl' = IF Expired(t) THEN [dl EXCEPT ![d].pc = "done"]
             ELSE [dl EXCEPT ![d] = [@ EXCEPT !.pc = "select", !.file = t.file]]
    /\ UNCHANGED <<storeVars, tokens>>

\* Mutant of SelectForDownload: no Content-Length is sent.
SelectWithoutLength(d) ==
    /\ dl[d].pc = "select"
    /\ LET row == files[dl[d].file]
       IN  \/ /\ row.status \notin Downloadable \/ "db" \in Faults
              /\ FinishDownload(d, "none")
           \/ /\ row.status \in Downloadable
              /\ dl' = [dl EXCEPT ![d] = [@ EXCEPT !.pc = "open"]]
    /\ UNCHANGED <<storeVars, tokens>>

\* SELECT of the row; 404, 409 or 500 end the request.
SelectForDownload(d) ==
    /\ dl[d].pc = "select"
    /\ LET row == files[dl[d].file]
       IN  \/ /\ row.status \notin Downloadable \/ "db" \in Faults
              /\ FinishDownload(d, "none")
           \/ /\ row.status \in Downloadable
              /\ dl' = [dl EXCEPT ![d] = [@ EXCEPT !.pc = "open", !.size = row.size]]
    /\ UNCHANGED <<storeVars, tokens>>

\* GetObject and Stat; 502 when the object is missing.
OpenObject(d) ==
    /\ dl[d].pc = "open"
    /\ LET obj == objects[ObjectKey(dl[d].file)]
       IN  \/ /\ obj = None \/ "store" \in Faults
              /\ FinishDownload(d, "none")
           \/ /\ obj # None
              /\ dl' = [dl EXCEPT ![d] = [@ EXCEPT !.pc = "stream", !.content = obj]]
    /\ UNCHANGED <<storeVars, tokens>>

\* Content-Length is the declared size when that is positive: the body is whole
\* only if the two agree.
LengthAgrees(d) == dl[d].size > 0 => dl[d].size = SizeOf[dl[d].content]

\* A body that is not whole can look whole: without a Content-Length the chunked
\* response just ends, and an object longer than its Content-Length is cut off
\* exactly there when a write of io.Copy happens to end there.
CutUnnoticed(d) == dl[d].size = 0 \/ dl[d].size < SizeOf[dl[d].content]

\* io.Copy, its error ignored. The read is conditional on the ETag that Stat saw.
StreamObject(d) ==
    /\ dl[d].pc = "stream"
    /\ \/ /\ LengthAgrees(d)
          /\ objects[ObjectKey(dl[d].file)] = dl[d].content
          /\ FinishDownload(d, "full")
       \/ /\ \/ ~LengthAgrees(d)
             \/ objects[ObjectKey(dl[d].file)] # dl[d].content
             \/ "store" \in Faults
          /\ \/ dl[d].size > 0 /\ FinishDownload(d, "short")
             \/ CutUnnoticed(d) /\ FinishDownload(d, "cut")
    /\ UNCHANGED <<storeVars, tokens>>

DownloadStep(d) == SelectForDownload(d) \/ OpenObject(d) \/ StreamObject(d)

DownloadNext ==
    \/ \E f \in FileId, ttl \in RequestedTTL : CreateLink(f, ttl)
    \/ \E d \in Downloads : \/ \E t \in tokens : VerifyToken(d, t)
                            \/ DownloadStep(d)

DownloadCrash ==
    /\ dl' = [d \in Downloads |-> IF dl[d].pc \in {"idle", "done"} THEN dl[d]
                                  ELSE [dl[d] EXCEPT !.pc = "done"]]
    /\ UNCHANGED tokens
=============================================================================
